# Causcope: a TLA+ model of its incident, its loops and its laboratories

Causcope turns runtime telemetry into an explained causal diagnosis of one
incident and then lets people and agents add evidence to it: a probe between
two readings of a counter, a routed diagnostic instrument, a whole set of
provider reads, an imported proof. There is no database. The state of an
incident is a handful of JSON files and append-only journals that independent
processes (MCP servers, command-line tools, watchers, receivers) share through
advisory file locks, atomic renames and write-ahead journals. Above the files
there are loops that decide what to measure next, and below them laboratories
that provoke a failure in order to confirm a diagnosis of it. What is hard to
test is what these processes do between each other's steps, when one of them
dies or answers late, and what a conclusion is worth after all that; that is
what these modules model.

Paths below are relative to `src/scripts/` unless they say otherwise.

## 1. Inventory

| Part | State | Operations | Hard behaviour | What makes it correct | Module |
|---|---|---|---|---|---|
| Incident state commit (`incident_state_commit.py`) | `diagnosis.json.commit.json` beside evidence and diagnosis | prepare, commit, recover | death between any two of its file operations, recovery that dies too | evidence and diagnosis change together, once, or not at all | `IncidentFiles`, `EvidenceWriters` |
| Evidence writers (`routed_instrument_mcp_tool.py`, `ranked_routable_mcp_tool.py`, `rails_pool_evidence_import.py`) | the locals of a call | one call each: claim, recover, check revision, read, provider, commit, answer | long provider call between read and commit; processes with different claims | no reported evidence is lost; a caller commits only on the revision it named | `EvidenceWriters` |
| Filesystem claims (`probe_filesystem_claim.py`) | a lock file per purpose and identity | take one or several, give back | non-blocking; dropped by the kernel on death | two holders of one claim never coexist | `EvidenceWriters`, `ProbeWorkflow`, `RecommendationSession` |
| Probe tools (`mcp_probe_tools.py`, `probe_session_state.py`) | session baselines, bindings, abandonment markers | begin, finish, abandon | several servers; a finish that dies half way and is retried; abandon against finish | one unfinished session of a target and scope; one end per session; an answered finish is published | `ProbeWorkflow`, `ProbeLifecycle` |
| Partial workflow recovery (`probe_workflow_reconciliation.py`, `mcp_probe_recovery_tool.py`) | reconciliation markers | scan, reconcile | looks at another process's half-written begin | what is discarded stays discarded | `ProbeWorkflow` |
| Probe workflow journal and history (`probe_workflow_journal.py`, `probe_workflow_history.py`) | hash-chained events | append once per transition, project a history | appended after the claims are given back; retries | it records only what is on disk, never both ends of a session | `ProbeWorkflow`, `AgentPlan` |
| Execution sets (`routed_execution_set_*.py`, `routed_execution_sets.py`) | a journal per set; the incident files | execute, resume, status, recovery projection | partial success, death, torn lines, rerouting, other writers | whole sets only, on the planned revision, no journaled read repeated, recovery advice is safe | `ExecutionSets` |
| Execution set selection (`execution_set_selection.py`, `bounded_workspace_acquisition.py`) | none | compare ready sets, select one | ties | only a unique best set is selected | `InstrumentRouting`, `WorkspaceInvestigation` |
| Recommendation sessions (`recommendation_session_journal.py` and companions) | a hash-chained journal per session | start, record, acquire, replay | several agents on one revision, retries, torn lines, deaths | one successor per revision; approval only of a measured benefit | `RecommendationSession`, `SessionLog` |
| OTLP receivers (`otlp_http_receiver.py`, `otlp_concrete_receiver.py`, `otel_concrete_runtime_facts.py`) | newest instance per observation and scope; executions and overlaps of an incident; a file each | ingest, serve | late, repeated, conflicting spans; failing writes; restart | independent of arrival order; what was answered is saved | `LiveDiagnosis`, `ConcreteFacts`, `RuntimeObservation` |
| Live diagnosis (`live_diagnosis_watch.py`, `live_diagnosis.py`) | fingerprint, revision and cached snapshot in memory; published snapshot | poll, refresh, current | meaning changes with time alone; contradictions that raise; restarts; clock set back | what is published never rolls back and catches up with evidence and time | `LiveDiagnosis` |
| Runtime evidence (`runtime_evidence.py`, `runtime_evidence_composition.py`) | none | resolve at a time, compose | boundaries of validity, contradiction | active exactly from `observed_at` up to `expires_at` | `CausalRanking`, `LiveDiagnosis` |
| Ranking and projection (`causal_projection.py`, `causal_ranking.py`, `probe_ranking.py`) | none | causes of a symptom and their order; probes that tell them apart and theirs | ties, strengths, falsifiers | deterministic; a probe that is ranked can still change the conclusion | `CausalRanking` |
| Routing (`instrument_router.py`, `runtime_target_resolution.py`, `information_gain_router.py`) | none | resources, safe instruments, the most informative | instruments come and go; one scope, several resources | an instrument reads the resource the evidence speaks of | `InstrumentRouting` |
| Agent plan (`agent_plan.py`, `agent_plan_recovery.py`) | none | read file by file, no claim | tools run while it is built | what it offers its tools accept; it hides no open session | `AgentPlan` |
| Verification (`verification_protocol.py`, `verification_agent.py`) | a frozen contract | freeze, evaluate, measure | evidence from before the fix, of other scopes, contradicting | resolved means absent after the fix | `Investigations` |
| Autonomous investigation (`autonomous_investigation.py`, `workspace_autonomous_investigation.py`) | the run's attempts, steps and evidence | choose, acquire, reload | budgets, no progress, other tools between the steps | ends, asks nothing twice, leaves nothing to learn; each step one commit | `Investigations`, `WorkspaceInvestigation`, `BoundedLoop` |
| Runtime observation and seed (`runtime_observe.py`, `runtime_start.py`, `runtime_incident_seed.py`) | receiver and application processes, a port, the first incident files | observe, start, seed | a port in use, kills, failing writes, revisions that move | ends, leaves no receiver behind, seeds only what it captured | `RuntimeObservation` |
| Provider adapters (`prometheus_adapter.py`, `postgresql_health_provider.py`, `pgbot_cli_context.py`) | none | ask, parse, build evidence | timeouts, reused ids | id, scope and lifetime of a reading | `RuntimeWorld` (what comes out) |
| Causal confirmation (`xray_engine.py`, `d2_2_causal_confirmation.py`, `duplicate_side_effect_causal_confirmation.py`, the profiles) | none | join documents, evaluate a profile | documents of other runs and revisions | what is confirmed happened | `XRayEngine`, `DeadlockDiagnosis`, `DuplicateEffectLab`, `PoolLab` |
| Database laboratories (`src/lab/database-*`, `src/lab/latency-database-lock`, `postgres_concrete_deadlock_lab.py`) | two sessions, a pool, a server | provoke and compare phases | threads, barriers, deadlock detection, failing connections | confirmed or supported only if it was provoked; ends | `TransactionLabs`, `PoolLab` |
| Duplicate effect laboratory (`duplicate_side_effect_live_lab.py`) | attempts and the provider's effects | four calls with timeouts | a request that arrives after its caller gave up | a duplicate that is confirmed was applied twice | `DuplicateEffectLab` |
| Messaging laboratories (`src/lab/messaging-*`) | Redis streams, groups, marks | probe, killed and run again | state a killed probe left | every run concludes the same | `MessagingLabs` |
| Network laboratories (`src/lab/network-*` and the others about connections) | netem rules, servers, peers | measure, provoke, measure again | lost packets, dead peers, rules left behind | what is claimed was provoked | `NetworkLabs` |
| Other laboratories, servers and command line, catalogue, benchmarks | none shared | | | | not modelled, or the reading of a resource only (`AgentPlan`) |

How they interact: the three evidence writers and execution sets commit through
the write-ahead journal and recover each other's; the probe tools replace the
same two files directly; the workspace loop calls the controller of execution
sets and shares its incident with all of them; agent plan and history read what
the tools write, without a claim. The watcher writes a diagnosis snapshot of its
own from what the receiver serves over HTTP. The concrete receiver writes the
snapshot from which a command seeds the first incident files, and the same
facts are joined with what a laboratory publishes to confirm a diagnosis. Calls
cross processes only for HTTP and for the processes a command starts; all the
rest is the shared directory.

`PROJECT.json` lists the hazards, each at its line, with the properties that
would catch it or the reason none does.

## 2. Modules

| Layer | Modules, each extending the one before it or those named |
|---|---|
| Incident files | `IncidentFiles`: evidence, diagnosis, commit journal, the writes to them and the state they stand for. `IncidentStore`: abstract, one revision and one set of instances that grow together |
| Tools on the files | `EvidenceWriters`, `ProbeWorkflow` (implements `ProbeLifecycle`) and `ExecutionSets`; `IncidentTools` composes the first two on the same files; `AgentPlan` extends `ProbeWorkflow` by a reader |
| Live evidence | `LiveDiagnosis` |
| Sessions | `RecommendationSession`, implements `SessionLog` |
| Deciding what to measure | `CausalRanking` (causes and probes, and the evidence they are ranked from); then `RuntimeWorld` and `Investigations` (the in-memory loop and the verification of a fix); and `InstrumentRouting`, `WorkspaceInvestigation`. Both loops implement `BoundedLoop` |
| Facts of executions | `ConcreteFacts`, `RuntimeObservation` |
| Confirmation | `XRayEngine`, and with `ConcreteFacts` `DeadlockDiagnosis`, `DuplicateEffectLab`, `PoolLab`; `DeadlockDiagnosis` under `TransactionLabs` (PostgreSQL, external, is its first part); `MessagingLabs`, `NetworkLabs`; all of them composed by `Labs` |
| TLC | `MC...`, the small instances |
| TLAPS | `EvidenceWriters_proofs`, `ProbeWorkflow_proofs` (also about `AgentPlan`), `ExecutionSets_proofs`, `LiveDiagnosis_proofs`, `RecommendationSession_proofs`, `ConcreteFacts_proofs` (about `RuntimeObservation` and `Labs`), `Investigations_proofs`, `WorkspaceInvestigation_proofs` |

Definitions keep the source's names where they can; `map` in `PROJECT.json`
gives the lines behind each. Operators that take an operator as a parameter
have no row there: `Clause`, `Requires`, `Constrained`, `Counted`, `RowsOf`,
`FieldOf` and `Least` of the rule engine and the profiles translate
`xray_engine.py:30-241`, and the other few are combinators without a
counterpart.

In the modules about files a process is a program counter and its locals, and a
step is one file access with the pure computation around it: the grain at which
other processes can observe, and a crash can cut. A check that raises is
`Refuse`; dying, or a write that fails with an operating-system error, is
`Crash`. Both leave files as they are and give the claims back, as the kernel
does with `flock`. A document is the set of its instances, for composition is
their union by id; a diagnosis is its revision with the instances it was
computed from. A provider's answer is any set of instances or a refusal. Hashes
stand for equality of what they cover.

**EvidenceWriters.** `Claim` is `acquire_probe_filesystem_claim` with the claim's
purpose in the file's name. `Recover*` are the steps of
`recover_incident_state_commit`, `CheckRevision`, `LoadEvidence` and `Execute`
those of `_execute_locked`, `Commit*` those of `commit_incident_state`.
`MayOverlap` says which calls of different processes the deployment lets overlap.

**ProbeWorkflow.** Each tool call takes the claims its controller takes
(`target_scope` for begin; `session` and `incident_mutation` for finish;
`session` for abandon; `workflow_recovery` for reconcile), gives them back, and
only then appends to the workflow journal. A finish whose instance is already
in the evidence repairs the diagnosis or answers.

**AgentPlan.** One reader beside those tools. The plan scans for partial
sessions, loads the evidence, scans again, lists the bindings and looks at the
files of each session; the history reads the same files with other rules.
Sessions expire. History variables remember what was open all the while, ever,
and whether anything changed during the reading.

**ExecutionSets.** A set's identity is its revision and its contract (members
and routes). The one call in progress recovers, checks that the set is the
current one, reads evidence, resumes from the set's journal, reads the members
that have no journaled result, commits, and journals `set_committed`. A journal
line may be torn. Between calls another tool may publish, and at any time the
routes may change. The status and recovery projections are operators
(`StatusOf`, `RecoveryOf`). Recovery and the two file writes after the commit
point are one step each here; `EvidenceWriters` has them apart.

**LiveDiagnosis.** `Ingest` is `EvidenceStore.ingest` with its rejections and its
file. A watcher's tick is `Fetch`, then `RefreshChanged`, `RefreshUnchanged` or
`KeepCurrent` at the clock's time, then `Publish`. A diagnosis that contradicts
itself raises, after the fingerprint and the revision have moved. `life`,
`accepted` and the `life` of a document are history variables.

**RecommendationSession.** An agent reads a session, does the work of its next
action outside any claim, then claims the session, verifies the journal,
appends and verifies again; a retry finds its own line. Maturity, the
information gaps and the next action are functions of a context, which stands
for the snapshot. A death or a full disk tears the line that was being written.

**Ranking and routing.** Concepts and scopes are numbers ordered as their ids
are, so that a tie falls as the code lets it fall. An order is given by its keys
(`InOrder`), and the contrast of a probe is counted, where the code sorts and
sums: the provers know nothing of TLC's sorting and folding. `NextSteps` is the
breadth-first search back from a symptom, `RankCauses` the hypotheses it finds
in their order, `RankProbes` the probes with an unresolved observation that
tells two of them apart. `InstrumentRouting` goes on to resources, provider instances, execution
sets and the choice among them.

**Investigations.** `RuntimeWorld` is the running system: what holds in which
scope changes while the clock runs, and an instrument reports what holds when it
is asked. The first part of `Investigations` chooses, executes, composes and
rebuilds; the second freezes a contract on a diagnosis that such a run returned
and measures it after the fix. A run that raises loses its evidence, as the code's
caller gets none.

**WorkspaceInvestigation.** The loop over a workspace: select, call the
controller (one step; its files are the topic of `ExecutionSets`), load the
diagnosis again. Other tools commit and instruments come and go in between.

**RuntimeObservation.** Two commands with their receivers and applications on
one port. A command checks the health of whatever answers there, runs the
application, stops it and its receiver, and seeds. Any process may be killed,
one snapshot write may fail, the target of the workspace may change.
`ConcreteFacts` derives executions, overlaps and facts from spans; times count
half microseconds, so that rounding to microseconds can be seen.

**Labs.** A behaviour runs one laboratory. `TransactionLabs` is a table of phases
per laboratory and a small interpreter for the sessions' programs over
PostgreSQL's locks and isolation levels; `MessagingLabs` is a table of Redis
operations with their expected answers; `NetworkLabs` has tables of phases and
attempts. The are data of the probes, the interpreters what the probes share. What
really happened is kept in history variables, with which the conclusions are
compared. `DeadlockDiagnosis` has both ways to confirm a deadlock: the dedicated
chain of projections and the profile over `XRayEngine`.

## 3. What is checked

| Run | Instance | Distinct states | Shows |
|---|---|---|---|
| `evidence_writers` | two processes of the routed tool that may overlap, the ranked tool and the import in turn, default directories, 3 instances | 1,321 | exclusion and journaled tears (`IInv`), no reported evidence lost, commits from the named revision, refinement of `IncidentStore` |
| `probe_workflow` | 2 servers, 2 sessions of one target and scope | 855,952 | answered finishes published, truthful journal, refinement of `ProbeLifecycle` |
| `agent_plan` | the same tools on 1 server, 2 sessions, a free second slot, 4 calls, 1 reader | 1,086,034 | a plan is honoured, hides nothing, and the history can be read and is true |
| `execution_sets` | 2 plans of up to 2 members, revisions up to 3, 2 reads per member, torn lines | 576,032 | whole sets, ordered journals, safe recovery advice, no journaled read repeated, refinement of `IncidentStore` |
| `live_diagnosis` | 4 spans of 2 scopes, 4 requests, time 0 to 3, 1 fault | 36,858 | order independence, no roll-back, no unneeded recomputation; new evidence is published and freshness restored |
| `recommendation_sessions` | 2 agents, 6 contexts over every maturity, 3 revisions | 510,860 | whole journals verify, approval is gated, refinement of `SessionLog` |
| `investigations` | 2 hypotheses, 4 probes, 2 scopes, time 0 to 2, 1 change of the system, 3 steps, 2 verifications | 65,537 | resolved is earned, nothing left to learn, both loops implement `BoundedLoop` |
| `workspace_investigation` | 2 symptoms, 5 instruments, 2 resources, 5 scopes, 2 steps, 1 outage | 10,987 | each step one commit on the diagnosis it reasoned about, bounded acquisition |
| `observation` | 2 commands, 2 incidents, 2 revisions, 2 requests each, 1 fault, 1 change | 224,809 | answered facts are saved, overlaps happened, an observation ends and leaves no receiver |
| `labs` | every laboratory by itself: 2 sessions over 2 rows, 3 rounds, 1 fault, 1 failing statement or connection, 2 accidents of the network | 180,593 | what is confirmed happened, what supports a claim was provoked, reruns agree, every laboratory ends |

Why these bounds are enough. With non-blocking claims at most one holder per
claim exists, so two processes give every interleaving of two operations; one
more shows that a bystander changes nothing. Three instances let a call add
nothing, one or two on top of a seed. Two sessions are what the pending check
compares, and a third server or slot only adds independent copies. Two plans
that share a member are what rerouting needs, and revisions 2 and 3 are one and
two commits after planning; reads stop at two because the second is already the
repetition. In `live_diagnosis` the spans are an old one, a replay of its id
with other content, a newer one of the same scope and a contradicting one of
another scope; time 3 is past every expiry, and one fault (a restart, or the
clock set back) may fall between any two steps; with `MaxFaults = 2` the run has
248,739 states and holds as well. Three revisions of a session are a start, a
step and a closing entry, with a competing agent at each. Three steps let an
investigation ask every probe that may help and stop for each of its reasons;
one change of the system at any instant is what makes a reading old. Two
workspace steps are a step and what follows it. Each laboratory has the number
of phases and sessions its probe has; one fault and one failing connection hit
every place, and two lost packets are what two consecutive attempts need.

Bounds that are not the code's own: `MaxRevision` and `MaxReads`
(`ExecutionSets`), `MaxRevision` (`RecommendationSession`,
`WorkspaceInvestigation`), `MaxTime`, `MaxChanges`, `MaxFaults`, `MaxCalls`,
`MaxVerifications`, `MaxOutages`, `MaxErrors`, `MaxFailures`, `MaxRestarts`,
`MaxMishaps`, `MaxAccidents`. `MaxSteps`, `Rounds`, `MaxAttempts` and the
objectives are small values of parameters of the code. The writers and probes
need no bound: every commit adds an instance and every session ends.

`CHECK_DEADLOCK FALSE` is set where the system stops: investigations, the
workspace loop, observations and laboratories end. In every other run somebody
can always make another call.

Symmetry is used in `probe_workflow`, `agent_plan` and `recommendation_sessions`
only. Servers, agents and the sessions of one slot are never told apart by the
model, and all properties of these runs are invariants or `[][A]_v` formulas
(the two refinements state no fairness), for which symmetry is sound.

**Fairness**, only where something in the code keeps running:

- `LiveDiagnosis`: `WF` of the watcher, a `while True` loop that survives a
  failed poll, and of time. Nothing is assumed of who sends spans. Faults are
  finitely many and a restarted process is started again.
  `FreshnessIsRestored` has one exception, which is real: after a restart of the
  receiver the watcher waits for evidence and the last diagnosis stays.
- `Investigations`, `WorkspaceInvestigation`: `WF` of the loop's own step. Every
  provider answers or fails in bounded time (the subprocess timeout at
  `pgbot_cli_context.py:72`, that of `urlopen` at `prometheus_adapter.py:362`).
  Nothing is assumed of the system, the operator or the other tools.
- `RuntimeObservation`: `WF` of a command's progress, and `SF` of its giving up,
  because the health check is tried until a deadline of 5 seconds while the port
  may come and go; the application is bounded and processes are terminated and
  then killed.
- `Labs`: `WF` of sessions, threads and probes. Barriers, waits, joins and sockets
  have timeouts and PostgreSQL has its deadlock detector.

All other modules state safety only: their operations are calls that somebody
must decide to make.

Every property of a passing run has a mutant in `PROJECT.json`: a definition as
a plausible bug would have it, under which TLC finds the property violated in
the same run. The mutants stand in the modules, marked `Mutant:`; nothing uses
them.

## 4. Where the code and its documents part

Two runs end in a counterexample, each to one property that a document states;
`PROJECT.json` quotes it.

- `two_tools_at_once` (`AckedEvidenceIsKept`): the import and a routed execution
  take claims of different purposes, so they overlap and the later commit drops
  what the earlier reported. RFC 0042 and RFC 0085 speak of one incident claim.
- `crash_then_finish` (`AnsweredFinishIsKept`): a probe finish does not recover a
  pending commit journal, and the next recovery rolls it over the finish.

The following definitions are violated as well. None of them is in a
configuration; each is found by checking it in place of the properties of the
run named.

| Definition | Run | What happens |
|---|---|---|
| `DiscardedIsNotEvidence` (invariant) | `probe_workflow` | reconciliation discards the baseline of a begin that is still between its two writes; the session goes on and becomes evidence (`mcp_probe_recovery_tool.py:156`, RFC 0025:124) |
| `SupersededIsStaging` (invariant) | `execution_sets` | when `set_committed` was not journaled, the recovery projection calls published members stale staging data (`routed_execution_set_recovery.py`) |
| `ReplayedIdIsRejected` (invariant) | `live_diagnosis` | an id replayed with other content is rejected only while its first instance is the newest of its scope (`otlp_http_receiver.py:148`, RFC 0008) |
| `SeedNeedsCapturedFacts` (invariant) | `observation`, with `Traffic <- MCUnboundTraffic` | the snapshot an earlier observation left passes for facts of this one (`runtime_observe.py:251`, RFC 0082) |
| `DedicatedRetryWasDeduplicated` (invariant) | `labs` | the laboratory writes `provider_deduplicated` as true whatever the provider answered (`duplicate_side_effect_live_lab.py:409`), and the dedicated confirmation accepts it; the profile does not |
| `NoLexicalChoice` (property) | `workspace_investigation` | of two equally good probes of one resource the first by name is taken (RFC 0094) |
| `PlanIsAvailable` (invariant) | `agent_plan` | a begin or finish while the plan is read makes its session newer than the diagnosis the plan was built for, and the reading fails (RFC 0026) |

Others were met while modelling and no definition states them:

- A restarted watcher counts revisions from zero; RFC 0010 calls the revision the
  source of truth for ordering, RFC 0009 says it is local to the process.
- The plan says `executable_here` from an annotation in the stored snapshot
  (RFC 0020:186), while begin asks the availability afresh.
- Rerouting between planning and execution refuses the whole set
  (`routed_execution_set_mcp_tool.py:69-88`); RFC 0091 fixes only the seed.
- The health provider adds `target_resource` to the scope of its evidence
  (`postgresql_health_provider.py:243`), so the in-memory loop refuses it unless
  the scope names the resource already.
- Two instruments give every reading the same id (`prometheus_adapter.py:237`,
  `postgresql_health_provider.py:245`), so a second reading with other content
  makes the composition raise and the loop's run is lost with it.
- The verification clock is taken once (`verification_agent.py:172`), and evidence
  that expires exactly then counts (`verification_protocol.py:121`), which
  runtime evidence would not resolve.
- An inconclusive experiment is accepted where the error text of
  `recommendation_session_journal.py` says that none is.
- A rejected request of the concrete receiver leaves its executions in memory,
  and a later good one publishes them; a restart overwrites the snapshot by a
  smaller document. Rounding to microseconds loses overlaps shorter than that;
  it invents none (`OverlapsHappened`).
- A connection or a DNS query that gets no answer cannot be told from a lost
  packet, and the corruption probe counts a late reply as corrupted;
  `SupportsIsEarned` excepts these three probes for that reason. The probe of
  retransmissions rests on a counter of the whole namespace, which a late packet
  moves as well as a lost one (its limitations speak of a "missing-or-delayed-delivery
  diagnosis"); of it the property asks that packets were lost or late (`Causes`).

## 5. What is proved

Eight modules hold proofs. Their assumptions are the named `ASSUME`s of the
modules they are about: the types of the constants, which TLC evaluates on every
run, and what the text below names besides. Each argument is an inductive
invariant (`AllInv` or `IInv`), shown for one action after the other, and what
the properties need beyond it.

**`EvidenceWriters_proofs`** holds for any set of processes, tools, directories and
instances. It uses `SeedAssumption` (the seed consists of instances),
`NoCommitAssumption` (the absence of a journal is not a journal) and
`WritersAssumption` (the constants have their types); TLC evaluates all three.
Most theorems also assume `Serialized`: calls are made in turn, or all
processes have one claim file. `two_tools_at_once` shows that the assumption is
needed and not given by the code's defaults.

| Theorem | Says, of every behaviour | Needs `Serialized` |
|---|---|---|
| `TypeCorrect` | `TypeOK` | no |
| `ClaimsExclude` | `ClaimExcludes`: one claim file, one call | no |
| `TornPairs` | files that do not fit are journaled | yes |
| `DiagnosisFollowsEvidence` | the diagnosis mentions only persisted evidence | yes |
| `AckedEvidenceSurvives` | reported evidence is never lost | yes |
| `IncidentInvariant` | `IInv` | yes |
| `WritersImplementStore` | refinement of `IncidentStore` | yes |
| `CommitsStartFromNamedRevision` | a journal extends the state its caller named | yes |

The argument has four layers, each an invariant that may use the ones below.
(1) `TypeInv`: types, and that a process past the prepare step has a document.
(2) `ClaimInv`: a process in a call holds its claim and shares it with nobody in
a call. Every step is a claim, a release, or a move within a call
(`NextByClaim`), so three cases suffice. (3) `OneCallAtATime`, from (2) and
`Serialized`. (4) `FilesInv`: facts of the disk alone, and per process what it
remembers of the disk. None of the properties is inductive as it stands:
that no evidence is lost after a recovery needs that a pending journal contains
the evidence on disk (`JournalExtendsFiles`); that holds when the journal is
written only because what the process read is still what is there
(`PrepareInv`), which is where one call at a time is used; and that the files
fit once the journal is gone needs to know how far a roll-forward or a
publication has come (`RollForwardInv`, `PublishInv`). An idle process
remembers nothing, so a step is checked for its own process only
(`OnlyTheCaller`). For the refinement, writing the journal is the abstract
`Publish` (`CommitPoint`) and every other step a stutter (`OtherSteps`).

**`ProbeWorkflow_proofs`** holds for any set of servers and sessions, with any number
of slots, and uses `SessionsAssumption` and `SeedAssumption` only.

| Theorem | Says, of every behaviour |
|---|---|
| `ProbeTypesCorrect` | types |
| `AnsweredFinishes` | `AnsweredFinishIsPublished` |
| `TruthfulJournal` | `JournalIsTrue` |
| `ToolsImplementLifecycle` | refinement of `ProbeLifecycle` |

Its invariant has three layers. (1) `TypeInv`: types, and what a server in a call
must have in its locals. (2) `ClaimInv`: a server past its claim holds it, and no
two servers hold one claim. (3) `FilesInv`: what the files say of each other
(`DiskInv`), that journaled events are on disk, and what a server in the middle
of begin, finish or abandon knows of the files (`BeginInv`, `FinishInv`,
`AbandonInv`, `DoneInv`). The last is what makes the lock-free reads harmless:
a finish knows that no marker exists because abandoning would need the claim it
holds. For the refinement each abstract step has one concrete step: a begin
happens when its binding is written (`BindingBegins`), a finish when the
evidence file is replaced (`EvidenceCompletes`), an abandonment when its marker
is (`MarkerAbandons`); everything else, repair after a crash included, is a
stutter (`OtherStepsStutter`).

**`ExecutionSets_proofs`** holds for any plans without a repeated target, any number
of sets, reads and revisions, and uses `SetsAssumption`, `SeedAssumption` and
`NoCommitAssumption`.

| Theorem | Says, of every behaviour |
|---|---|
| `SetsAreWhole` | `WholeSetsOnly` |
| `JournalsAreOrdered` | `JournalIsOrdered` |
| `RecoveryTellsTruth` | `RecoveryIsSafe` |
| `SetsExtendTheirRevision` | `SetExtendsItsRevision` |
| `ReadingsAreNotRepeated` | `JournaledReadIsNotRepeated` |
| `SetsImplementStore` | refinement of `IncidentStore` |

That a set is published whole is not inductive: a call that was resumed publishes
readings other processes made. `ProducedInv` says that what the call has so far
are the journaled readings of the plan's first members, `ReadingsInv` that the
journal holds one reading of a member, so that a call with all members has
exactly the journaled readings (`CompleteSet`). `CurrentInv` says that from its
check to its commit a call works on the revision in its set's id, and
`PublishedInv` that published sets are of earlier revisions; together they keep
a set from growing after its publication (`NotYetPublished`). The two steps that
publish are `CommitJournal` (`SetCommits`) and `OtherTool`
(`OtherToolCommits`), every other step leaves the incident alone.

`ExecutionSets` has one call at a time, as the claim of the code has; its
theorems say nothing of tools with other claims that overlap, which
`two_tools_at_once` is about.

**The readers, in `ProbeWorkflow_proofs`**, hold for the same constants, with one
reader of plan or history beside any number of servers.

| Theorem | Says, of every behaviour |
|---|---|
| `PlanIsAlwaysHonoured` | `PlanIsHonoured` |
| `PlanWasAlwaysTrue` | `PlanWasTrue` |
| `HistoryIsAlwaysTrue` | `HistoryIsTrue` |

The reader takes no claim, so its parts are from different instants. What makes
them fit is that the files a tool leaves behind only grow: `ReadInv` says that
what was read is still there and that what was not read yet was there when the
reading began, or came later. `PlanInv` and `ReportInv` draw from it what the
result may say of a session; `ExactInv` is the case in which nothing changed, in
which the reading is the state itself.

**`RecommendationSession_proofs`** holds for any agents and contexts. It uses
`SessionAssumption` and `StartAssumption`, which says that no result is the one
of a start.

| Theorem | Says, of every behaviour |
|---|---|
| `WholeJournalAlwaysVerifies` | `WholeJournalVerifies` |
| `ApprovalIsAlwaysGated` | `ApprovalIsGated` |
| `SessionImplementsLog` | refinement of `SessionLog`, if `~ MayLoseNewline` |

`WholeJournalVerifies` compares every line with the one before it, and an append
was checked by a process that may have looked at an older journal. `Linked` is
the chain as the file has it, an incomplete line only at its end; `CallInv` says
that between verifying and appending the last line is still the one that was
verified, which holds because an agent in a call is the only holder of the claim
(`AgentsInv`). The refinement needs that a line which cannot be read is torn in
its content: where a crash may cut off just the newline (`MayLoseNewline`), the
next append joins two lines, and the log loses an entry that replay could see
before.

**`LiveDiagnosis_proofs`** holds for any spans and requests and any number of
faults.

| Theorem | Says, of every behaviour |
|---|---|
| `StoreIsAlwaysNewest` | `StoreIsNewest` |
| `EvidenceFileIsAlwaysCurrent` | `EvidenceFileIsCurrent` |
| `PublishedProgresses` | `PublishedNeverRollsBack` |
| `RecomputeAlwaysHasAReason` | `RecomputeHasAReason` |

`Newer` is an order without cycles (`NewerIsOrder`); evidence has `Progressed` to
other evidence when every instance is still there or a newer one took its place.
A request is folded into the store span by span, so its lemma is an induction
over the request: `InductionUpTo`, from the fact that every set of numbers has a
least element. The rest is a chain in that order, from what is published over
what was fetched to what the receiver holds (`Behind`, `Follows`), broken only
where the receiver is restarted. `CachedInv` compares the fingerprint with the
snapshot that is kept: equal revisions mean equal evidence, so a new diagnosis
of it has a `Reason` in time.

**`ConcreteFacts_proofs`, runtime observation**, holds for any commands, incidents
and revisions and any traffic of spans with ordered times. `NoFileAssumption`
says that the absence of a file is not a document.

| Theorem | Says, of every behaviour |
|---|---|
| `AnsweredFactsAreAlwaysSaved` | `AnsweredFactsAreSaved` |
| `OverlapsAlwaysHappened` | `OverlapsHappened` |

The first needs that one receiver holds the port and acknowledges only what it
remembers (`PortInv`); the second that a snapshot is computed from the
executions in it (`DerivedInv`) and that rounding half to even preserves the
order of two times, so that an overlap of rounded times is one of the times
themselves (`RoundedOverlapsHappened`).

**`ConcreteFacts_proofs`, the laboratories**, holds for any number of faults, of
failing statements and connections, of accidents and of kills, and for any
contracts, runtime documents, workspaces, deployments and evidence that come
from elsewhere. The tables of phases, sessions and steps are those of the
probes. It uses

- `TwoSessions`: the sessions and rows are two, as the probes have them;
- `DocumentsAreNamed`: a document of static or runtime facts names its revision
  and its incident, which their schemas require;
- `SomeSlots`: rounds, attempts and slots are numbers, of which there is one;
- `FewerMishaps`: the network does not spoil every exchange of a phase. A phase in
  which it does says nothing of the rule, and the run stays below it too;
- `FirstRunsAgree`: a first run of each messaging probe, with nobody killing it and
  on an empty Redis, gets the answers it expects. No constant is in that
  formula, so that TLC, which evaluates it on every run, decides it.

| Theorem | Says, of every behaviour |
|---|---|
| `PoolWaitsHappened` | `ConfirmedPoolWaitHappened` |
| `DuplicatesHappened` | `ConfirmedDuplicateHappened` |
| `DeadlocksHappened` | `ConfirmedDeadlockHappened` |
| `SupportsAreEarned` | `SupportsIsEarned` |
| `RerunsAlwaysAgree` | `RerunsAgree` |

A confirmation is proved in two halves that meet in the evidence document. One
half is about the documents alone, whatever they are: a profile is in its last
state only if every stage has a solution (`LastStage`), and the solutions of
its clauses say what must be in the evidence (`PoolProfileReads`,
`DuplicateProfileReads`, `DeadlockProfileReads`; for the dedicated chain
`ExactCyclesRead` and the lemmas that a projection binds what it names:
`OverlappingPairsBind`, `BoundExecutionsBind`, `BoundBackendsBind`). The other is
an invariant: what is in the evidence is what happened.

- The pool (`PoolInv`): the traced probe takes one sample before, one during and one
  after, and the one during it is slow only behind the holder (`TracedInv`).
- The duplicate (`DuplicateInv`): requests are processed in any order and after their
  callers gave up, so the invariant is about the provider and not about main.
  No request is sent twice (`CallInv`); every effect is the one that its call was
  answered with, the protected calls have one effect between them, and each of
  them that was processed was answered with it (`ProviderInv`); a recorded
  success was processed (`AttemptInv`). The profile binds two effects to the
  two unsafe calls and one to the first protected call; the protected retry can
  then only have been answered with that one.
- The deadlock (`TxInv`): a session that says it was aborted by a deadlock was noted by
  the database (`WorkInv`), the laboratory only starts when its documents name
  the same revision (`SpecsInv`), and a published correlation names a noted
  victim and an execution for every participant (`PublishedInv`).

That a supported experiment was earned is one invariant for each laboratory.

- The four transaction probes (`ProbeInv`) compare results of phases that are over
  with a history that goes on. `HistoryInv` says of every phase begun so far what
  its outcomes and its notes have to do with each other: who was aborted by a
  deadlock was noted in that phase (`AbortedInv`), who committed has written or
  saw that it need not, and who met a conflict has somebody who wrote
  (`CommittedInv`), a wait was observed only in its phase (`WaitedInv`). That a
  commit is one of a write needs that a session's program still has its write
  ahead or has made it (`ProgramInv`, with lemmas about the composed programs:
  `PreludesCompose`, `GoesOffCallWrites`), and what a conflict needs is a fact
  about snapshots in the database (`DbInv`, `SkewNeedsWrites`).
- The network (`NetInv`): packets of the intervention met the rule, those of the
  recovery met none when `tc` shows none (`RuleInv`); the counters
  of a phase agree with the fates of its packets, for each probe in the
  direction it relies on (`CountInv`, with the fates that can leave the mark the
  probe looks at, `Causes`); and if no packet of the latency probe's
  intervention was late, a mishap befell each of them (`LatencyInv`), which is
  where `FewerMishaps` is used.
- The pool, the full server and the peers that reject: `MeasuredInv`, `FullInv`,
  `TriesInv`.

That reruns agree is a comparison of two runs of one program (`RunInv`): the one
that runs now, on what killed runs have left, and a first run on an empty Redis
after as many steps. The streams that the program has created so far are the
same in both, but for marks it does not look at (`StreamsAlike`). A call that
reads two such streams gets the same answer from both (`CalledAlike`), creating
a stream makes it so (`CreatedAlike`), and each probe creates a stream before it
uses it and deletes the marks it looks at (`ProbesAreOrdered`, part by part from
the way the probes are composed). Since both runs end with the same answers, what
a first run does is what all runs do.

**`Investigations_proofs`** holds for any catalogue, scopes and behaviour of the
running system.

| Theorem | Says, of every behaviour |
|---|---|
| `ResolvedIsAlwaysEarned` | `ResolvedIsEarned` |
| `LoopsStayBounded` | refinement of `BoundedLoop`'s safety by both loops |

`ReportedInv` relates what an instrument once said to when the system last was
so, while both change (`AbsenceInv`); the verdict then only has to look at
evidence from after the fix. That no question is asked twice needs that the
budget counts questions (`BudgetInv`) and that the best recommendation exists
and is one that was not attempted.

**`WorkspaceInvestigation_proofs`** holds for any catalogue, instruments, evidence and
commits of others. It uses that a catalogue and a set of scopes are finite.

| Theorem | Says, of every behaviour |
|---|---|
| `StepsAreAlwaysItsCommits` | `StepsAreItsCommits` |
| `AlwaysActsOnItsRevision` | `ActsOnItsRevision` |
| `LoopStaysBounded` | refinement of `BoundedLoop`'s safety |

The loop's snapshot is the diagnosis of its revision (`SnapshotInv`), and the
diagnosis is the one of the evidence beside it (`DiagnosisInv`). The selection
only says that no other set is preferred to the one it executes; that this one
is preferred to every other is a theorem about the order: priorities are tuples
of numbers of one length whatever is ranked (`PriorityIsTyped`), their order has
no cycles, so below any other set there is a first one (`FirstExists`), and the
only set that nothing precedes is that one (`UniqueIsFirst`). That the answer
settles an open observation follows the question through all of the routing:
a ready set has an instrument, a selected instrument gains something, what it
gains is about an observation that the ranking still had open
(`ReadySetIsTyped`, `AnswerSettles`).

**Model-checked only.** Liveness under fairness (`EvidenceIsPublished`,
`FreshnessIsRestored`, `RunEnds`, `LabsEnd`, and that the loops of `BoundedLoop`
end), which is out of the proof system's reach. `NothingLeftToLearn`: it compares
rankings for every continuation of the evidence, and so needs what the
breadth-first search, a fold over the edges, computes. The two violated
properties of section 4. Every invariant and every other action property and
refinement that a passing run checks is stated by a theorem.

## 6. Plan

Done: the files, tools and their composition; live diagnosis; recommendation
sessions; ranking, routing and both bounded loops with verification; the
agent plan; observation and seeding; confirmation and the laboratories. Proofs
of every invariant, action property and refinement that a run checks, but for
those named at the end of section 5.

Left, most important first:

1. Modules. The seed's `--force` and execution sets as further tools of
   `IncidentTools`, and the temporary files that writers with different claims
   share. The hash chain and torn lines of the probe workflow journal.
2. Proofs. The composition `IncidentTools` for deployments in which the tools do
   not overlap. `NothingLeftToLearn`, with the causes of a symptom defined by
   paths and shown to be what the search finds.

## 7. Not modelled, and why

- A crash of the host. Processes die and the files keep what was written; the
  probe tools do not `fsync`, so a host crash could keep a rename without its
  content.
- The shared temporary name beside each file when writers with different
  claims overlap: overlap already loses evidence with atomic writes.
- Content: measurements, wording, provenance texts, hashes. The counter
  arithmetic of the probe executors belongs here: resets that are detected only
  when a counter goes below its baseline, a utilization that is rounded before
  it is compared.
- The ETag and the signature cache of the diagnosis HTTP reader; the command
  line that discards orphans without a claim; orphaned bindings, which need a
  deleted baseline and no operation deletes one.
- How adapters ask their providers and parse the answers, discovery of
  providers, topology documents.
- Laboratories of one process that measures itself, stub servers and Rails
  fixtures: no interleaving and no protocol.
- The catalogue and its validation, benchmarks, projections for display, and the
  framing and argument parsing of servers and commands: they keep no state that
  the tools share.
- In the laboratories: delays of the host itself, and traffic on the interface
  that is not the probe's, but for what it adds to counters. A peer that died stays
  dead: the compose files of these laboratories have no restart policy. The
  pool's observed capacity is that of its deployment and its direct control
  answers; the calls that create one stream and its group are one step.
- The answers of the Rails pool provider, which are partial and name a phase in
  their scope. The health provider's ids also omit the instrument
  (`postgresql_health_provider.py:245`). A probe that is not read-only ends the projection of routes in the code; the
  model leaves its set out and goes on, which allows more.

## 8. Running

    tlc -workers 2 -config evidence_writers.cfg MCEvidenceWriters.tla
    tlapm EvidenceWriters_proofs.tla

and likewise for the other runs and the other `_proofs` modules; `PROJECT.json`
names the module of each run.
