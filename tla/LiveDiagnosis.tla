---------------------------- MODULE LiveDiagnosis ----------------------------
(***************************************************************************)
(* Live evidence and the diagnosis that follows it.  The OTLP receiver     *)
(* (otlp_http_receiver) keeps the latest instance of each observation and  *)
(* exact scope; the watcher (live_diagnosis_watch) polls it and has the    *)
(* engine (live_diagnosis) publish a diagnosis snapshot whenever the       *)
(* evidence changes or its meaning does, at an activation or an expiry.    *)
(* The receiver and the watcher are separate processes and keep everything *)
(* but their files in memory.                                              *)
(*                                                                         *)
(* An instance is a record: its id, the key (observation and exact scope), *)
(* the topic (observation and normalized scope, what a diagnosis puts      *)
(* together), its state and the times it holds between.  Ids are numbers    *)
(* that order like the strings.                                            *)
(***************************************************************************)
EXTENDS Naturals, FiniteSets, Sequences, SequencesExt

CONSTANTS
  Spans,       \* instances that spans translate to
  Requests,    \* bodies of POST /v1/traces: sequences of instances by id
  MaxTime,     \* bound on the clock
  MaxFaults,   \* bound on restarts and on settings of the clock
  None         \* "nothing yet"

ASSUME LiveAssumption ==
  /\ MaxTime \in Nat /\ MaxFaults \in Nat
  /\ \A i \in Spans : i.id \in Nat /\ i.observed \in Nat /\ i.expires \in Nat
  /\ \A i \in Spans : i.observed < i.expires /\ i.expires <= MaxTime
  /\ Requests \subseteq Seq(Spans)

VARIABLES
  now,          \* the watcher's clock
  faults,       \* faults so far
  store,        \* the receiver's instances, one per key
  evidenceFile, \* the receiver's --snapshot file
  accepted,     \* instances this receiver has accepted (history)
  life,         \* starts of the receiver (history)
  step,         \* where the watcher's tick is
  fetched,      \* the document of the tick: instances and life
  fingerprint,  \* instances of the last document that counted as a change
  revision,     \* the watcher's local evidence revision
  cached,       \* the engine's snapshot
  pending,      \* the snapshot being written
  published     \* the diagnosis snapshot file

receiver == <<store, evidenceFile, accepted, life>>
engine == <<cached, pending>>
watcher == <<step, fetched, fingerprint, revision, engine>>
vars == <<now, faults, receiver, watcher, published>>

Init ==
  /\ now = 0
  /\ faults = 0
  /\ store = {}
  /\ evidenceFile = {}
  /\ accepted = {}
  /\ life = 0
  /\ step = "poll"
  /\ fetched = None
  /\ fingerprint = None
  /\ revision = 0
  /\ cached = None
  /\ pending = None
  /\ published = None

-----------------------------------------------------------------------------
(* The receiver. *)

\* Mutant: what arrives last is taken for newer.
LastToArrive(candidate, current) == candidate # current

\* EvidenceStore._is_newer
Newer(candidate, current) ==
  \/ candidate.observed > current.observed
  \/ candidate.observed = current.observed /\ candidate.id > current.id

\* One instance of a request: the first of its key, newer, or left out.
Place(instances, i) ==
  LET rivals == {s \in instances : s.key = i.key}
  IN  IF \A s \in rivals : Newer(i, s) THEN (instances \ rivals) \cup {i}
      ELSE instances

\* The evidence after each instance of a request.
Placed(request) ==
  LET placed[n \in 0 .. Len(request)] ==
        IF n = 0 THEN store ELSE Place(placed[n - 1], request[n])
  IN  placed

Proposed(request) == Placed(request)[Len(request)]

\* An id of the evidence in place comes back with other content, or one
\* document would hold an id twice: the whole request is an error.
Rejected(request) ==
  \/ \E n \in DOMAIN request :
       \E s \in Placed(request)[n - 1] :
         /\ s.key = request[n].key
         /\ s.id = request[n].id
         /\ s # request[n]
  \/ \E s, t \in Proposed(request) : s # t /\ s.id = t.id

\* Mutant: the file is written for inserted instances only.
IngestInserted(request) ==
  /\ ~ Rejected(request)
  /\ store' = Proposed(request)
  /\ evidenceFile' = IF Cardinality(store') > Cardinality(store) THEN store'
                     ELSE evidenceFile
  /\ accepted' = accepted \cup ToSet(request)
  /\ UNCHANGED <<now, faults, life, watcher, published>>

\* A request that fails, on an error or on the write, leaves all as it was.
Ingest(request) ==
  /\ ~ Rejected(request)
  /\ store' = Proposed(request)
  /\ evidenceFile' = IF store' # store THEN store' ELSE evidenceFile
  /\ accepted' = accepted \cup ToSet(request)
  /\ UNCHANGED <<now, faults, life, watcher, published>>

-----------------------------------------------------------------------------
(* The diagnosis of a document at a time. *)

ActiveAt(i, time) == i.observed <= time /\ time < i.expires
Active(instances, time) == {i \in instances : ActiveAt(i, time)}

Contradicts(instances, time) ==
  \E i, j \in Active(instances, time) : i.topic = j.topic /\ i.state # j.state

\* Mutant: only the instances still to become active count.
NextActivation(instances, time) ==
  LET later == {i.observed : i \in instances} \ (0 .. time)
  IN  {t \in later : \A u \in later : t <= u}

\* The earliest activation or expiry to come, if there is one.
NextTransition(instances, time) ==
  LET later == UNION {{i.observed, i.expires} : i \in instances} \ (0 .. time)
  IN  {t \in later : \A u \in later : t <= u}

\* build_diagnosis_snapshot
Diagnosis(document, time, rev) ==
  [instances |-> document.instances,
   life |-> document.life,
   active |-> Active(document.instances, time),
   as_of |-> time,
   next |-> NextTransition(document.instances, time),
   revision |-> rev]

-----------------------------------------------------------------------------
(* The watcher.  A poll that cannot reach the receiver, or finds it        *)
(* without evidence, changes nothing.                                      *)

Fetch ==
  /\ step = "poll"
  /\ store # {}
  /\ step' = "diagnose"
  /\ fetched' = [instances |-> store, life |-> life]
  /\ UNCHANGED <<now, faults, receiver, fingerprint, revision, engine, published>>

Changed == fetched.instances # fingerprint

Due == \E t \in cached.next : now >= t

\* Mutant: the revision of the snapshot kept is not compared.
CurrentAnyRevision == cached # None /\ now >= cached.as_of /\ ~ Due

\* LiveDiagnosisEngine.current has nothing to do.
Current ==
  /\ cached # None
  /\ cached.revision = revision
  /\ now >= cached.as_of
  /\ ~ Due

\* The evidence contradicts itself: the engine raises, the next poll retries.
EndTick(documentRevision) ==
  IF Contradicts(fetched.instances, now)
  THEN step' = "poll" /\ pending' = None
  ELSE step' = "publish" /\ pending' = Diagnosis(fetched, now, documentRevision)

\* Mutant: the new fingerprint is not kept.
RefreshAgain ==
  /\ step = "diagnose"
  /\ Changed
  /\ revision' = revision + 1
  /\ EndTick(revision')
  /\ fetched' = None
  /\ UNCHANGED <<now, faults, receiver, fingerprint, cached, published>>

\* Fingerprint and revision move before the refresh, which may raise.
RefreshChanged ==
  /\ step = "diagnose"
  /\ Changed
  /\ fingerprint' = fetched.instances
  /\ revision' = revision + 1
  /\ EndTick(revision')
  /\ fetched' = None
  /\ UNCHANGED <<now, faults, receiver, cached, published>>

RefreshUnchanged ==
  /\ step = "diagnose"
  /\ ~ Changed
  /\ ~ Current
  /\ EndTick(revision)
  /\ fetched' = None
  /\ UNCHANGED <<now, faults, receiver, fingerprint, revision, cached, published>>

KeepCurrent ==
  /\ step = "diagnose"
  /\ ~ Changed
  /\ Current
  /\ step' = "poll"
  /\ fetched' = None
  /\ UNCHANGED <<now, faults, receiver, fingerprint, revision, engine, published>>

\* The rest of refresh: the file is replaced and the snapshot kept.
Publish ==
  /\ step = "publish"
  /\ step' = "poll"
  /\ published' = pending
  /\ cached' = pending
  /\ pending' = None
  /\ UNCHANGED <<now, faults, receiver, fetched, fingerprint, revision>>

Watch == Fetch \/ RefreshChanged \/ RefreshUnchanged \/ KeepCurrent \/ Publish

-----------------------------------------------------------------------------
(* Time and faults. *)

Advance ==
  /\ now < MaxTime
  /\ now' = now + 1
  /\ UNCHANGED <<faults, receiver, watcher, published>>

Fault ==
  /\ faults < MaxFaults
  /\ faults' = faults + 1

SetClockBack ==
  /\ Fault
  /\ now > 0
  /\ now' = now - 1
  /\ UNCHANGED <<receiver, watcher, published>>

\* The evidence is gone; the file stays until the next change.
RestartReceiver ==
  /\ Fault
  /\ store' = {}
  /\ accepted' = {}
  /\ life' = life + 1
  /\ UNCHANGED <<now, evidenceFile, watcher, published>>

\* A kill, or an error the loop does not catch, such as a failed write.
RestartWatcher ==
  /\ Fault
  /\ step' = "poll"
  /\ fetched' = None
  /\ fingerprint' = None
  /\ revision' = 0
  /\ cached' = None
  /\ pending' = None
  /\ UNCHANGED <<now, receiver, published>>

Next ==
  \/ \E r \in Requests : Ingest(r)
  \/ Watch
  \/ Advance
  \/ SetClockBack
  \/ RestartReceiver
  \/ RestartWatcher

\* The watcher polls forever and time passes; the receiver answers in time
\* and nothing is owed by those who send spans.
Fairness == WF_vars(Watch) /\ WF_vars(Advance)

Spec == Init /\ [][Next]_vars /\ Fairness

-----------------------------------------------------------------------------
(* Properties. *)

\* The receiver holds, for each observation and exact scope, the newest of
\* all the instances it ever accepted, in whatever order, batches and
\* repetitions they came (EvidenceStore.ingest).
StoreIsNewest ==
  /\ store \subseteq accepted
  /\ \A i \in accepted :
       \E s \in store :
         /\ s.key = i.key
         /\ ~ Newer(i, s)
         /\ \A t \in store : t.key = s.key => t = s

\* Whoever reads the receiver's file instead of GET /evidence reads the same
\* evidence, whatever failed or was ignored in between
\* (EvidenceStore._write_snapshot).
EvidenceFileIsCurrent == store # {} => evidenceFile = store

\* RFC 0008: "if the same deterministic ID arrives with different content,
\* ingestion fails instead of silently rewriting provenance".  The code looks
\* only at the instance in place for the key.
ReplayedIdIsRejected == \A i, j \in accepted : i.id = j.id => i = j

\* The published diagnosis never goes back to evidence older than it already
\* showed while one receiver lives, through restarts of the watcher, polls
\* in flight and spans out of order (DiagnosisWatcher.tick, refresh).
PublishedNeverRollsBack ==
  [][/\ published # None
     /\ published'.life = published.life
     => \A i \in published.instances, j \in published'.instances :
          i.key = j.key => ~ Newer(i, j)]_published

\* Within one run of the watcher evidence of one receiver that did not change
\* is diagnosed again only because a transition came due or the clock was set
\* back, also after polls that raised (LiveDiagnosisEngine.current).
RecomputeHasAReason ==
  [][/\ cached # None
     /\ published'.life = cached.life
     /\ published'.instances = cached.instances
     => \/ \E t \in cached.next : t <= published'.as_of
        \/ published'.as_of < cached.as_of]_published

Shown == IF published = None THEN {} ELSE published.instances
ShownActive == IF published = None THEN {} ELSE published.active

\* Evidence the receiver keeps reaches the published diagnosis, also when the
\* first diagnosis of it raised on a contradiction that time resolved, or the
\* watcher restarted in the middle (DiagnosisWatcher.tick).
EvidenceIsPublished ==
  \A i \in Spans : (i \in store) ~> (i \in Shown \/ i \notin store)

\* A diagnosis that counts an instance as active outside its time does not
\* stay, unless the receiver has nothing to serve
\* (LiveDiagnosisEngine.current, next_evidence_transition).
FreshnessIsRestored ==
  \A i \in Spans :
    (i \in ShownActive /\ ~ ActiveAt(i, now))
      ~> (i \notin ShownActive \/ ActiveAt(i, now) \/ store = {})
=============================================================================
