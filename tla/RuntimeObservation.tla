--------------------------- MODULE RuntimeObservation ---------------------------
(***************************************************************************)
(* Bounded observation: a command starts a receiver of its own, waits for  *)
(* the health endpoint of the port, runs one instrumented application,     *)
(* stops the receiver and seeds the first diagnosis from the snapshot of   *)
(* the incident.  Several commands may run on one workspace and one port:  *)
(* "runtime observe", "runtime start" and "runtime seed".                  *)
(***************************************************************************)
EXTENDS ConcreteFacts

CONSTANTS
  Commands, Incidents, Revisions,
  InitialWorkspace,                \* the incident and the revision at first
  Symbols, Pools, Target,          \* the scanned contract and the topology of its pools
  Traffic,                         \* the payloads an application exports, by command
  RequestObjective, WaitObjective, \* the thresholds of the workspace objectives
  NoFile, NoTarget, Nobody,
  MaxFaults, MaxChanges            \* failed writes and kills; rescans and new problems

ASSUME ObservationAssumption ==
  /\ InitialWorkspace \in [incident : Incidents, revision : Revisions]
  /\ DOMAIN Traffic = Commands
  /\ \A c \in Commands : \A n \in DOMAIN Traffic[c] : \A i \in DOMAIN Traffic[c][n] :
       LET span == Traffic[c][n][i]
       IN /\ {"symbol", "revision", "trace", "start", "end"} \subseteq DOMAIN span
          /\ span.start \in Int /\ span.end \in Int
  /\ MaxFaults \in Nat /\ MaxChanges \in Nat

VARIABLES
  workspace,  \* [incident, revision]: the incident context and the scanned facts
  session,    \* of every command [stage, incident, revision, sent, captured, force, pick]
  server,     \* of every command's receiver [state, revision, executions, interactions, answered]
  snapshot,   \* the runtime snapshot of every incident
  files,      \* the seeded [evidence, relationships, diagnosis]
  faults, changes

vars == <<workspace, session, server, snapshot, files, faults, changes>>

Static(revision) ==
  [revision |-> revision, symbols |-> Symbols, pools |-> Pools, orders |-> <<>>]

\* The payloads of an application launched at one revision, as a receiver pinned
\* to a revision projects them: the spans carry the revision of the launch.
Launched(payload, revision) ==
  [i \in DOMAIN payload |-> [payload[i] EXCEPT !.revision = revision]]

Projected(payload, pinned) ==
  [accepted |-> BatchIsValid(Static(pinned), payload),
   executions |-> BatchExecutions(payload), interactions |-> BatchInteractions(payload)]

Batches ==
  [c \in Commands |-> [launched \in Revisions |-> [pinned \in Revisions |->
     [n \in DOMAIN Traffic[c] |-> Projected(Launched(Traffic[c][n], launched), pinned)]]]]

\* What the applications may send, and the documents that may hold it.
SentBy(c, launched, pinned) ==
  {Batches[c][launched][pinned][n] : n \in DOMAIN Traffic[c]}
SentBatches == UNION {SentBy(at[1], at[2], at[3]) : at \in Commands \X Revisions \X Revisions}
SentExecutions == UNION {batch.executions : batch \in SentBatches}
SentInteractions == UNION {batch.interactions : batch \in SentBatches}

Documents ==
  [revision : Revisions, incident : Incidents, executions : SUBSET SentExecutions,
   overlaps : SUBSET [executions : SUBSET {e.id : e \in SentExecutions},
                      symbols : SUBSET {e.symbol : e \in SentExecutions}, amount : Int],
   interactions : SUBSET SentInteractions]

ASSUME NoFileAssumption == NoFile \notin Documents

NoPick == [execution |-> NoFile, interaction |-> NoFile]
NoServer ==
  [state |-> "none", revision |-> Nobody, executions |-> {}, interactions |-> {}, answered |-> {}]
NoFiles == [evidence |-> NoFile, relationships |-> NoFile, diagnosis |-> NoFile]

Init ==
  /\ workspace = InitialWorkspace
  /\ session = [c \in Commands |->
       [stage |-> "idle", incident |-> Nobody, revision |-> Nobody, sent |-> 0, captured |-> FALSE,
        force |-> FALSE, pick |-> NoPick]]
  /\ server = [c \in Commands |-> NoServer]
  /\ snapshot = [i \in Incidents |-> NoFile]
  /\ files = NoFiles
  /\ faults = 0 /\ changes = 0

Running(c) == server[c].state \in {"starting", "up"}
Holder == {c \in Commands : server[c].state = "up"}

At(c, stages) == session[c].stage \in stages
To(c, stage) == session' = [session EXCEPT ![c].stage = stage]

StartServer(c) ==
  server' = [server EXCEPT ![c] =
    [NoServer EXCEPT !.state = "starting", !.revision = workspace.revision]]
StopServer(c) == server' = [server EXCEPT ![c].state = IF @ = "none" THEN @ ELSE "gone"]

-----------------------------------------------------------------------------
\* The workspace changes under the commands: another problem is investigated, or
\* the application is scanned again.
Change ==
  /\ changes < MaxChanges
  /\ changes' = changes + 1
  /\ \/ \E i \in Incidents \ {workspace.incident} : workspace' = [workspace EXCEPT !.incident = i]
     \/ \E r \in Revisions \ {workspace.revision} : workspace' = [workspace EXCEPT !.revision = r]
  /\ UNCHANGED <<session, server, snapshot, files, faults>>

\* "runtime observe" reads the incident and the revision, and spawns its receiver,
\* which reads the scanned facts for itself.
Observe(c, force) ==
  /\ At(c, {"idle"})
  /\ session' = [session EXCEPT ![c] =
       [@ EXCEPT !.stage = "waiting", !.incident = workspace.incident,
                 !.revision = workspace.revision, !.force = force]]
  /\ StartServer(c)
  /\ UNCHANGED <<workspace, snapshot, files, faults, changes>>

\* "runtime start": a receiver of its own, until it is interrupted.
Start(c) ==
  /\ At(c, {"idle"})
  /\ session' = [session EXCEPT ![c] =
       [@ EXCEPT !.stage = "serving", !.incident = workspace.incident]]
  /\ StartServer(c)
  /\ UNCHANGED <<workspace, snapshot, files, faults, changes>>

\* "runtime seed" of the incident's own snapshot.
Seed(c, force) ==
  /\ At(c, {"idle"})
  /\ session' = [session EXCEPT ![c] =
       [@ EXCEPT !.stage = "seeding", !.incident = workspace.incident, !.force = force]]
  /\ UNCHANGED <<workspace, server, snapshot, files, faults, changes>>

\* The receiver binds the port, or exits because another one holds it.
Bind(c) ==
  /\ server[c].state = "starting"
  /\ server' = [server EXCEPT ![c].state = IF Holder = {} THEN "up" ELSE "gone"]
  /\ UNCHANGED <<workspace, session, snapshot, files, faults, changes>>

\* One turn of the wait: first whether the process has exited, then the health of
\* the port, whoever answers there.
Poll(c) ==
  /\ At(c, {"waiting"})
  /\ To(c, IF server[c].state = "gone" THEN "failed" ELSE "polled")
  /\ UNCHANGED <<workspace, server, snapshot, files, faults, changes>>

Health(c) ==
  /\ At(c, {"polled"})
  /\ To(c, IF Holder # {} THEN "ready" ELSE "waiting")
  /\ UNCHANGED <<workspace, server, snapshot, files, faults, changes>>

\* Mutant: the wait fails outside the block that stops the receiver.
GiveUpOnly(c) ==
  /\ At(c, {"waiting"})
  /\ To(c, "failed")
  /\ UNCHANGED <<workspace, server, snapshot, files, faults, changes>>

\* Five seconds have passed, and the receiver is stopped.
GiveUp(c) ==
  /\ At(c, {"waiting"})
  /\ To(c, "failed")
  /\ StopServer(c)
  /\ UNCHANGED <<workspace, snapshot, files, faults, changes>>

\* The wrapper of the application launches it only when the scanned revision is
\* still the one it was given.
Launch(c) ==
  /\ At(c, {"ready"})
  /\ IF workspace.revision = session[c].revision
     THEN To(c, "running") /\ UNCHANGED server
     ELSE To(c, "failed") /\ StopServer(c)
  /\ UNCHANGED <<workspace, snapshot, files, faults, changes>>

-----------------------------------------------------------------------------
\* What a request leaves of the items of one kind: those before the first item
\* whose id is known with other content are kept, whatever the answer.
Replayed(known, items) == {n \in items : \E k \in known : k.id = n.id /\ k # n}

Merges(known, items) ==
  IF Replayed(known, items) = {} THEN {known \cup items}
  ELSE {known \cup added : added \in SUBSET (items \ Replayed(known, items))}

\* Mutant: the document of the memory as it was before the request.
DocumentBehind(c, executions, interactions) ==
  [revision |-> server[c].revision, incident |-> session[c].incident,
   executions |-> server[c].executions, overlaps |-> RoundedOverlaps(server[c].executions),
   interactions |-> server[c].interactions]

Document(c, executions, interactions) ==
  [revision |-> server[c].revision, incident |-> session[c].incident,
   executions |-> executions, overlaps |-> RoundedOverlaps(executions),
   interactions |-> interactions]

Ingests(c, batch) ==
  LET memory == server[c]
      document == Document(c, memory.executions \cup batch.executions,
                           memory.interactions \cup batch.interactions)
      Keeps(executions, interactions) ==
        server' = [server EXCEPT ![c].executions = executions, ![c].interactions = interactions]
  IN \/ /\ Replayed(memory.executions, batch.executions) # {}
        /\ \E kept \in Merges(memory.executions, batch.executions) :
             Keeps(kept, memory.interactions)
        /\ UNCHANGED <<snapshot, faults>>
     \/ /\ Replayed(memory.executions, batch.executions) = {}
        /\ Replayed(memory.interactions, batch.interactions) # {}
        /\ \E kept \in Merges(memory.interactions, batch.interactions) :
             Keeps(document.executions, kept)
        /\ UNCHANGED <<snapshot, faults>>
     \/ /\ Replayed(memory.executions, batch.executions) = {}
        /\ Replayed(memory.interactions, batch.interactions) = {}
        /\ DocumentIsValid(document)
        /\ \/ /\ server' = [server EXCEPT ![c].executions = document.executions,
                                          ![c].interactions = document.interactions,
                                          ![c].answered = @ \cup batch.executions]
              /\ snapshot' = [snapshot EXCEPT ![session[c].incident] = document]
              /\ UNCHANGED faults
           \/ /\ faults < MaxFaults  \* the snapshot cannot be written: 500
              /\ faults' = faults + 1
              /\ Keeps(document.executions, document.interactions)
              /\ UNCHANGED snapshot

\* The application exports one payload to the port, under the lock of the
\* receiver that holds it, if one does.
Export(c) ==
  LET n == session[c].sent + 1
  IN /\ At(c, {"running"})
     /\ n \in DOMAIN Traffic[c]
     /\ \/ /\ Holder = {}
           /\ session' = [session EXCEPT ![c].sent = n]
           /\ UNCHANGED <<server, snapshot, faults>>
        \/ \E holder \in Holder :
             LET batch == Batches[c][session[c].revision][server[holder].revision][n]
             IN /\ session' = [session EXCEPT ![c].sent = n, ![c].captured = @ \/ batch.accepted]
                /\ IF batch.accepted THEN Ingests(holder, batch)
                   ELSE UNCHANGED <<server, snapshot, faults>>
     /\ UNCHANGED <<workspace, files, changes>>

\* The application ends, and the receiver of the command is stopped.
AppEnds(c, succeeds) ==
  /\ At(c, {"running"})
  /\ succeeds => session[c].sent = Len(Traffic[c])
  /\ To(c, IF succeeds THEN "checking" ELSE "failed")
  /\ StopServer(c)
  /\ UNCHANGED <<workspace, snapshot, files, faults, changes>>

Check(c) ==
  /\ At(c, {"checking"})
  /\ To(c, IF snapshot[session[c].incident] = NoFile THEN "failed" ELSE "seeding")
  /\ UNCHANGED <<workspace, server, snapshot, files, faults, changes>>

-----------------------------------------------------------------------------
\* The execution-scoped relationships of a snapshot.
Relationships(runtime) ==
  {[execution |-> i.execution, pool |-> i.pool, evidence |-> i.id] : i \in runtime.interactions}

Used(runtime, e) == {r \in Relationships(runtime) : r.execution = e.id}
Waited(runtime, e) ==
  {i \in runtime.interactions : i.execution = e.id /\ i.wait > WaitObjective}

Worst(e, i, others) ==
  \A o \in others : /\ o.execution.duration <= e.duration
                    /\ o.execution.duration = e.duration => o.interaction.wait <= i.wait

\* The slowest request with an elevated wait and exactly one topology target.
Candidates(runtime) ==
  LET slow == {e \in runtime.executions :
                 /\ e.duration > RequestObjective
                 /\ Used(runtime, e) # {}
                 /\ \E t \in {Target[p] : p \in DOMAIN Pools} \ {NoTarget} :
                      \A r \in Used(runtime, e) : Target[r.pool] = t}
      all == {[execution |-> e, interaction |-> i] : e \in slow, i \in runtime.interactions}
      waited == {p \in all : p.interaction \in Waited(runtime, p.execution)}
  IN {p \in waited : Worst(p.execution, p.interaction, waited)}

\* The seed reads the incident, the scanned facts and the snapshot.
SeedReads(c) ==
  LET runtime == snapshot[session[c].incident]
      fits == /\ runtime # NoFile
              /\ runtime.incident = workspace.incident
              /\ runtime.revision = workspace.revision
  IN /\ At(c, {"seeding"})
     /\ \/ /\ fits
           /\ \E pick \in Candidates(runtime) :
                session' = [session EXCEPT ![c].stage = "chosen", ![c].pick = pick]
        \/ /\ fits => Candidates(runtime) = {}
           /\ To(c, "failed")
     /\ UNCHANGED <<workspace, server, snapshot, files, faults, changes>>

\* None of the three files may exist, unless the seed is forced.
SeedChecks(c) ==
  /\ At(c, {"chosen"})
  /\ To(c, IF files = NoFiles \/ session[c].force THEN "evidence" ELSE "failed")
  /\ UNCHANGED <<workspace, server, snapshot, files, faults, changes>>

\* Whether the diagnosis names a cause and a next probe is asked after it is written.
AfterFile ==
  [evidence |-> {"relationships"}, relationships |-> {"diagnosis"},
   diagnosis |-> {"seeded", "failed"}]

SeedWrites(c) ==
  LET file == session[c].stage
  IN /\ At(c, DOMAIN AfterFile)
     /\ files' = [files EXCEPT ![file] = session[c].pick]
     /\ \E stage \in AfterFile[file] : To(c, stage)
     /\ UNCHANGED <<workspace, server, snapshot, faults, changes>>

\* A command is killed: nothing stops its receiver.
Kill(c) ==
  /\ ~At(c, {"idle", "serving", "failed", "seeded", "killed"})
  /\ faults < MaxFaults
  /\ faults' = faults + 1
  /\ To(c, "killed")
  /\ UNCHANGED <<workspace, server, snapshot, files, changes>>

\* A receiver without a command is interrupted by hand.
Interrupt(c) ==
  /\ At(c, {"serving", "killed"})
  /\ Running(c)
  /\ StopServer(c)
  /\ UNCHANGED <<workspace, session, snapshot, files, faults, changes>>

Next ==
  \/ Change
  \/ \E c \in Commands :
       \/ \E force \in BOOLEAN : Observe(c, force) \/ Seed(c, force)
       \/ Start(c)
       \/ Bind(c) \/ Poll(c) \/ Health(c) \/ GiveUp(c) \/ Launch(c)
       \/ Export(c)
       \/ \E succeeds \in BOOLEAN : AppEnds(c, succeeds)
       \/ Check(c) \/ SeedReads(c) \/ SeedChecks(c) \/ SeedWrites(c)
       \/ Kill(c) \/ Interrupt(c)

\* What a command does without being asked to.
Proceeds(c) ==
  \/ Poll(c) \/ Health(c) \/ Launch(c) \/ Export(c)
  \/ \E succeeds \in BOOLEAN : AppEnds(c, succeeds)
  \/ Check(c) \/ SeedReads(c) \/ SeedChecks(c) \/ SeedWrites(c)

\* A command runs, its wait has a deadline, and the application ends by itself.
Fairness(c) == WF_vars(Proceeds(c)) /\ SF_vars(GiveUp(c))

Spec == Init /\ [][Next]_vars /\ \A c \in Commands : Fairness(c)

-----------------------------------------------------------------------------
\* What the receiver that holds the port has acknowledged is in the snapshot of
\* its incident (otlp_concrete_receiver.py, ingest and do_POST).
AnsweredFactsAreSaved ==
  \A c \in Holder :
    LET saved == snapshot[session[c].incident]
    IN server[c].answered # {} => saved # NoFile /\ server[c].answered \subseteq saved.executions

\* Every overlap of a snapshot happened: some application sent two spans that
\* really ran together, although the receiver computes from rounded times.
SpansOf(payload) == {payload[i] : i \in DOMAIN payload}
SpansAt(c, revision) ==
  UNION {SpansOf(Launched(Traffic[c][n], revision)) : n \in DOMAIN Traffic[c]}
SentSpans == UNION {SpansAt(at[1], at[2]) : at \in Commands \X Revisions}

OverlapsHappened ==
  \A i \in Incidents : snapshot[i] # NoFile =>
    \A o \in snapshot[i].overlaps : \E s, t \in SentSpans :
      o.executions = {ExecutionId(s), ExecutionId(t)} /\ s.symbol # t.symbol /\ Together(s, t) > 0

\* A command that is not killed ends, and it leaves no receiver of its own behind.
RunEnds ==
  \A c \in Commands :
    session[c].stage \in {"waiting", "polled", "ready", "running"} ~>
      session[c].stage = "killed" \/
        (session[c].stage \in {"failed", "seeded"} /\ ~Running(c))

\* RFC 0082: "If no explicitly bound runtime facts were captured, Causcope fails
\* closed and does not seed a diagnosis."  A command that observed and seeds ran an
\* application of which some receiver captured facts (runtime_observe.py, observe).
SeedNeedsCapturedFacts ==
  \A c \in Commands :
    session[c].stage = "seeded" /\ server[c].state # "none" => session[c].captured
=============================================================================
