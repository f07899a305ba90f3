----------------------- MODULE ConcreteFacts_proofs -----------------------
(***************************************************************************)
(* The facts about concrete executions that a diagnosis is made of, from   *)
(* both of their sources.                                                  *)
(*                                                                         *)
(* A runtime observation (RuntimeObservation): for every set of commands,  *)
(* incidents and revisions and whatever the applications send, what the    *)
(* receiver acknowledged is in the snapshot, and the overlaps of a snapshot*)
(* happened.                                                               *)
(*                                                                         *)
(* The laboratories (Labs): for every number of faults, mishaps and        *)
(* measurements, a causal diagnosis that their documents confirm happened  *)
(* in the laboratory, and an experiment that supports its claim saw the    *)
(* failure in the phase that provokes it and not in the ones it compares.  *)
(* A messaging probe that is killed and run again, however often, gets the *)
(* answers that it expects.                                                *)
(***************************************************************************)
EXTENDS RuntimeObservation, Labs, FiniteSetTheorems, SequenceTheorems, WellFoundedInduction, TLAPS

-----------------------------------------------------------------------------
(***************************************************************************)
(* A runtime observation.                                                  *)
(***************************************************************************)

Stages ==
  {"idle", "waiting", "polled", "ready", "running", "checking", "seeding", "serving", "chosen",
   "evidence", "relationships", "diagnosis", "seeded", "failed", "killed"}

Picks == [execution : SentExecutions, interaction : SentInteractions] \cup {NoPick}

Sessions ==
  [stage : Stages, incident : Incidents \cup {Nobody}, revision : Revisions \cup {Nobody},
   sent : Nat, captured : BOOLEAN, force : BOOLEAN, pick : Picks]

Servers ==
  [state : {"none", "starting", "up", "gone"}, revision : Revisions \cup {Nobody},
   executions : SUBSET SentExecutions, interactions : SUBSET SentInteractions,
   answered : SUBSET SentExecutions]

TypeInv ==
  /\ workspace \in [incident : Incidents, revision : Revisions]
  /\ session \in [Commands -> Sessions]
  /\ server \in [Commands -> Servers]
  /\ snapshot \in [Incidents -> Documents \cup {NoFile}]
  /\ files \in [evidence : Picks \cup {NoFile}, relationships : Picks \cup {NoFile},
                diagnosis : Picks \cup {NoFile}]
  /\ faults \in 0 .. MaxFaults /\ changes \in 0 .. MaxChanges

\* A command knows what it observes, and so does its receiver.
LaunchInv ==
  \A c \in Commands :
    /\ session[c].stage = "idle" => server[c].state = "none"
    /\ session[c].stage # "idle" => session[c].incident \in Incidents
    /\ session[c].stage \in {"waiting", "polled", "ready", "running"} =>
         session[c].revision \in Revisions
    /\ server[c].state # "none" => server[c].revision \in Revisions

\* One receiver holds the port, and it acknowledges only what it remembers.
PortInv ==
  /\ \A c, d \in Holder : c = d
  /\ \A c \in Commands :
       /\ server[c].answered \subseteq server[c].executions
       /\ server[c].state \in {"none", "starting"} => server[c].answered = {}

\* A snapshot is the document of the executions in it.
DerivedInv ==
  \A i \in Incidents : snapshot[i] # NoFile =>
    snapshot[i].overlaps = RoundedOverlaps(snapshot[i].executions)

AllInv == TypeInv /\ LaunchInv /\ PortInv /\ DerivedInv /\ AnsweredFactsAreSaved

-----------------------------------------------------------------------------
(* Spans and their executions *)

\* The text of a later time is not earlier, and it may be the same.
LEMMA RoundingIsMonotonic ==
  ASSUME NEW a \in Int, NEW b \in Int, a <= b
  PROVE  Micros(a) \in Int /\ Micros(b) \in Int /\ Micros(a) <= Micros(b)
<1>1. ASSUME NEW n \in Int
      PROVE  /\ n \div 2 \in Int /\ n % 2 \in 0 .. 1 /\ n = (2 * (n \div 2)) + (n % 2)
             /\ (n \div 2) % 2 \in 0 .. 1
  OBVIOUS
<1>2. a \div 2 <= b \div 2
  BY <1>1
<1>3. CASE a \div 2 = b \div 2
  <2>1. a % 2 <= b % 2
    BY <1>1, <1>3
  <2> QED
    BY <1>1, <1>3, <2>1 DEF Micros
<1>4. CASE a \div 2 < b \div 2
  BY <1>1, <1>4 DEF Micros
<1> QED
  BY <1>1, <1>2, <1>3, <1>4

\* Executions that overlap as they are written ran together.
LEMMA RoundedOverlapsHappened ==
  ASSUME NEW s, NEW t, s.start \in Int, s.end \in Int, t.start \in Int, t.end \in Int,
         Together(Execution(s), Execution(t)) > 0
  PROVE  Together(s, t) > 0
<1>1. ASSUME NEW a \in Int, NEW b \in Int, Micros(a) > Micros(b) PROVE a > b
  BY <1>1, RoundingIsMonotonic
<1>2. /\ Micros(s.start) \in Int /\ Micros(s.end) \in Int
      /\ Micros(t.start) \in Int /\ Micros(t.end) \in Int
  BY RoundingIsMonotonic
<1>3. /\ Micros(s.end) > Micros(s.start) /\ Micros(s.end) > Micros(t.start)
      /\ Micros(t.end) > Micros(s.start) /\ Micros(t.end) > Micros(t.start)
  BY <1>2 DEF Together, Execution, SmallerOf, LargerOf
<1>4. s.end > s.start /\ s.end > t.start /\ t.end > s.start /\ t.end > t.start
  BY <1>1, <1>3
<1> QED
  BY <1>4 DEF Together, SmallerOf, LargerOf

\* Every execution of a payload is the one of a span that was sent.
LEMMA SentExecutionsAreOfSpans ==
  \A e \in SentExecutions : \E s \in SentSpans :
    e = Execution(s) /\ s.start \in Int /\ s.end \in Int
<1> SUFFICES ASSUME NEW b \in SentBatches, NEW e \in b.executions
             PROVE  \E s \in SentSpans : e = Execution(s) /\ s.start \in Int /\ s.end \in Int
  BY DEF SentExecutions
<1>1. PICK c \in Commands, launched \in Revisions, pinned \in Revisions :
        \E n \in DOMAIN Traffic[c] : b = Projected(Launched(Traffic[c][n], launched), pinned)
  <2>1. PICK at \in Commands \X Revisions \X Revisions : b \in SentBy(at[1], at[2], at[3])
    BY DEF SentBatches
  <2>2. PICK n \in DOMAIN Traffic[at[1]] : b = Batches[at[1]][at[2]][at[3]][n]
    BY <2>1 DEF SentBy
  <2>3. at[1] \in Commands /\ at[2] \in Revisions /\ at[3] \in Revisions
    OBVIOUS
  <2>4. b = Projected(Launched(Traffic[at[1]][n], at[2]), at[3])
    BY <2>2, <2>3 DEF Batches
  <2> QED
    BY <2>3, <2>4
<1> PICK n \in DOMAIN Traffic[c] : b = Projected(Launched(Traffic[c][n], launched), pinned)
  BY <1>1
<1> DEFINE payload == Launched(Traffic[c][n], launched)
<1>2. e \in BatchExecutions(payload)
  BY DEF Projected
<1>3. PICK i \in DOMAIN payload : e = Execution(payload[i])
  BY <1>2 DEF BatchExecutions, LastById, BoundIn
<1> DEFINE span == Traffic[c][n][i]
<1>4. i \in DOMAIN Traffic[c][n] /\ payload[i] = [span EXCEPT !.revision = launched]
  BY DEF Launched
<1>5. n \in DOMAIN Traffic[c]
  OBVIOUS
<1>6. payload[i] \in SentSpans
  <2>1. payload[i] \in SpansAt(c, launched)
    BY <1>5 DEF SpansAt, SpansOf
  <2>2. SpansAt(c, launched) = SpansAt(<<c, launched>>[1], <<c, launched>>[2])
    OBVIOUS
  <2>3. <<c, launched>> \in Commands \X Revisions
    OBVIOUS
  <2> QED
    BY <2>1, <2>2, <2>3 DEF SentSpans
<1>7. span.start \in Int /\ span.end \in Int /\ {"start", "end"} \subseteq DOMAIN span
  BY <1>4, <1>5, ObservationAssumption
<1>8. payload[i].start \in Int /\ payload[i].end \in Int
  BY <1>4, <1>7
<1> QED
  BY <1>3, <1>6, <1>8

\* Two executions that a document says overlap were sent with spans that did.
LEMMA OverlapsOfSentHappened ==
  ASSUME NEW executions \in SUBSET SentExecutions, NEW o \in RoundedOverlaps(executions)
  PROVE  \E s, t \in SentSpans :
           o.executions = {ExecutionId(s), ExecutionId(t)} /\ s.symbol # t.symbol /\ Together(s, t) > 0
<1>1. PICK e \in executions, f \in executions :
        o = Overlap(e, f, Together(e, f)) /\ e.symbol # f.symbol /\ Together(e, f) > 0
  BY DEF RoundedOverlaps
<1>2. PICK s \in SentSpans : e = Execution(s) /\ s.start \in Int /\ s.end \in Int
  BY SentExecutionsAreOfSpans
<1>3. PICK t \in SentSpans : f = Execution(t) /\ t.start \in Int /\ t.end \in Int
  BY SentExecutionsAreOfSpans
<1>4. Together(s, t) > 0
  BY <1>1, <1>2, <1>3, RoundedOverlapsHappened
<1>5. o.executions = {ExecutionId(s), ExecutionId(t)} /\ s.symbol # t.symbol
  BY <1>1, <1>2, <1>3 DEF Overlap, Execution
<1> QED
  BY <1>4, <1>5

\* The overlaps of a document are of its executions.
LEMMA OverlapsHaveTypes ==
  ASSUME NEW executions \in SUBSET SentExecutions
  PROVE  RoundedOverlaps(executions) \subseteq
           [executions : SUBSET {e.id : e \in SentExecutions},
            symbols : SUBSET {e.symbol : e \in SentExecutions}, amount : Int]
<1> SUFFICES ASSUME NEW e \in executions, NEW f \in executions
             PROVE  Overlap(e, f, Together(e, f)) \in
                      [executions : SUBSET {g.id : g \in SentExecutions},
                       symbols : SUBSET {g.symbol : g \in SentExecutions}, amount : Int]
  BY DEF RoundedOverlaps
<1>1. ASSUME NEW g \in executions PROVE g.start \in Int /\ g.end \in Int
  <2>1. PICK s \in SentSpans : g = Execution(s) /\ s.start \in Int /\ s.end \in Int
    BY SentExecutionsAreOfSpans
  <2> QED
    BY <2>1, RoundingIsMonotonic DEF Execution
<1>2. Together(e, f) \in Int
  BY <1>1 DEF Together, SmallerOf, LargerOf
<1> QED
  BY <1>2 DEF Overlap

\* A payload is of what may be sent.
LEMMA BatchIsSent ==
  ASSUME NEW c \in Commands, NEW launched \in Revisions, NEW pinned \in Revisions,
         NEW n \in DOMAIN Traffic[c]
  PROVE  /\ Batches[c][launched][pinned][n].executions \subseteq SentExecutions
         /\ Batches[c][launched][pinned][n].interactions \subseteq SentInteractions
<1> DEFINE b == Batches[c][launched][pinned][n]
           at == <<c, launched, pinned>>
<1>1. b \in SentBy(at[1], at[2], at[3])
  BY DEF SentBy
<1>2. at \in Commands \X Revisions \X Revisions
  OBVIOUS
<1>3. b \in SentBatches
  <2> HIDE DEF at, b
  <2> QED
    BY <1>1, <1>2 DEF SentBatches
<1> QED
  BY <1>3 DEF SentExecutions, SentInteractions

\* What a receiver exports is a document of the model.
LEMMA DocumentHasType ==
  ASSUME TypeInv, LaunchInv, NEW c \in Commands, server[c].state # "none",
         NEW executions \in SUBSET SentExecutions, NEW interactions \in SUBSET SentInteractions
  PROVE  /\ Document(c, executions, interactions) \in Documents
         /\ Document(c, executions, interactions) # NoFile
<1>1. server[c].revision \in Revisions /\ session[c].incident \in Incidents
  BY DEF LaunchInv
<1>2. RoundedOverlaps(executions) \subseteq
        [executions : SUBSET {e.id : e \in SentExecutions},
         symbols : SUBSET {e.symbol : e \in SentExecutions}, amount : Int]
  BY OverlapsHaveTypes
<1>3. Document(c, executions, interactions) \in Documents
  BY <1>1, <1>2 DEF Document, Documents
<1> QED
  BY <1>3, NoFileAssumption

-----------------------------------------------------------------------------
(* The steps *)

\* Nothing is observed at the start.
LEMMA AllInitially == Init => AllInv
<1> SUFFICES ASSUME Init PROVE AllInv
  OBVIOUS
<1> USE DEF Init
<1>1. NoPick \in Picks
  BY DEF Picks
<1>2. TypeInv
  <2>1. NoServer \in Servers
    BY DEF NoServer, Servers
  <2>2. session \in [Commands -> Sessions]
    BY <1>1 DEF Sessions, Stages
  <2>3. server \in [Commands -> Servers]
    BY <2>1
  <2>4. 0 \in 0 .. MaxFaults /\ 0 \in 0 .. MaxChanges
    BY ObservationAssumption
  <2>5. snapshot \in [Incidents -> Documents \cup {NoFile}] /\ faults = 0 /\ changes = 0
    OBVIOUS
  <2>6. workspace \in [incident : Incidents, revision : Revisions]
    BY ObservationAssumption
  <2>7. files \in [evidence : Picks \cup {NoFile}, relationships : Picks \cup {NoFile},
                  diagnosis : Picks \cup {NoFile}]
    BY DEF NoFiles
  <2> QED
    BY <2>2, <2>3, <2>4, <2>5, <2>6, <2>7 DEF TypeInv
<1>3. \A c \in Commands : session[c].stage = "idle" /\ server[c].state = "none"
  BY DEF NoServer
<1>4. LaunchInv
  BY <1>3 DEF LaunchInv
<1>5. Holder = {}
  BY <1>3 DEF Holder
<1>6. PortInv
  BY <1>5 DEF PortInv, NoServer
<1>7. DerivedInv /\ AnsweredFactsAreSaved
  BY <1>5 DEF DerivedInv, AnsweredFactsAreSaved
<1> QED
  BY <1>2, <1>4, <1>6, <1>7 DEF AllInv

\* A step that stops receivers at most, and leaves what they keep alone.
LEMMA OthersKeep ==
  ASSUME AllInv, TypeInv', UNCHANGED snapshot,
         \A c \in Commands :
           /\ \/ server'[c] = server[c]
              \/ server[c].state # "none" /\ server'[c] = [server[c] EXCEPT !.state = "gone"]
           /\ session'[c].stage = "idle" => session[c].stage = "idle" /\ server'[c] = server[c]
           /\ session'[c].stage \in {"waiting", "polled", "ready", "running"} =>
                session'[c].revision \in Revisions
           /\ session'[c].stage # "idle" => session'[c].incident \in Incidents
           /\ server[c].state # "none" => session'[c].incident = session[c].incident
  PROVE  AllInv'
<1>1. \A c \in Commands :
        /\ server[c] \in Servers
        /\ server'[c].answered = server[c].answered
        /\ server'[c].executions = server[c].executions
        /\ server'[c].revision = server[c].revision
        /\ server'[c].state = server[c].state \/ (server[c].state # "none" /\ server'[c].state = "gone")
  BY DEF AllInv, TypeInv, Servers
<1>2. LaunchInv'
  BY <1>1 DEF AllInv, LaunchInv
<1>3. Holder' \subseteq Holder
  BY <1>1 DEF Holder
<1>4. PortInv'
  BY <1>1, <1>3 DEF AllInv, PortInv
<1>5. DerivedInv'
  BY DEF AllInv, DerivedInv
<1>6. AnsweredFactsAreSaved'
  <2> SUFFICES ASSUME NEW c \in Holder', server'[c].answered # {}
               PROVE  LET saved == snapshot'[session'[c].incident]
                      IN saved # NoFile /\ server'[c].answered \subseteq saved.executions
    BY DEF AnsweredFactsAreSaved
  <2>1. c \in Commands /\ c \in Holder /\ server[c].state # "none"
    BY <1>3 DEF Holder
  <2>2. session'[c].incident = session[c].incident /\ server'[c].answered = server[c].answered
    BY <1>1, <2>1
  <2> QED
    BY <2>1, <2>2 DEF AllInv, AnsweredFactsAreSaved
<1> QED
  BY <1>2, <1>4, <1>5, <1>6 DEF AllInv

\* A change of the workspace touches no observation.
LEMMA ChangeStep ==
  ASSUME AllInv, Change
  PROVE  AllInv'
<1>1. UNCHANGED <<session, server, snapshot, files, faults>>
  BY DEF Change
<1>2. workspace' \in [incident : Incidents, revision : Revisions]
  BY DEF Change, AllInv, TypeInv
<1>3. changes' \in 0 .. MaxChanges
  BY ObservationAssumption DEF Change, AllInv, TypeInv
<1>4. TypeInv'
  BY <1>1, <1>2, <1>3 DEF AllInv, TypeInv
<1> QED
  BY <1>1, <1>4, OthersKeep DEF AllInv, LaunchInv

\* A command that moves on, and stops its receiver or not.
LEMMA MoveStep ==
  ASSUME AllInv, NEW c \in Commands, NEW stage \in Stages \ {"idle"}, session[c].stage # "idle",
         stage \in {"waiting", "polled", "ready", "running"} => session[c].revision \in Revisions,
         To(c, stage), StopServer(c) \/ UNCHANGED server,
         UNCHANGED <<workspace, snapshot, files, changes>>, faults' \in 0 .. MaxFaults
  PROVE  AllInv'
<1>1. session' = [session EXCEPT ![c].stage = stage]
  BY DEF To
<1>2. session' \in [Commands -> Sessions]
  BY <1>1 DEF AllInv, TypeInv, Sessions
<1>3. \A d \in Commands :
        \/ server'[d] = server[d]
        \/ server[d].state # "none" /\ server'[d] = [server[d] EXCEPT !.state = "gone"]
  <2>1. CASE UNCHANGED server
    BY <2>1
  <2>2. CASE StopServer(c)
    <3> SUFFICES ASSUME NEW d \in Commands
                 PROVE  \/ server'[d] = server[d]
                        \/ server[d].state # "none" /\ server'[d] = [server[d] EXCEPT !.state = "gone"]
      OBVIOUS
    <3>1. server[d] \in Servers /\ server \in [Commands -> Servers]
      BY DEF AllInv, TypeInv
    <3>2. CASE d # c
      BY <2>2, <3>1, <3>2 DEF StopServer
    <3>3. CASE d = c /\ server[d].state = "none"
      <4>1. server'[d] = [server[d] EXCEPT !.state = server[d].state]
        BY <2>2, <3>1, <3>3 DEF StopServer
      <4> QED
        BY <3>1, <4>1 DEF Servers
    <3>4. CASE d = c /\ server[d].state # "none"
      BY <2>2, <3>1, <3>4 DEF StopServer
    <3> QED
      BY <3>2, <3>3, <3>4
  <2> QED
    BY <2>1, <2>2
<1>4. server' \in [Commands -> Servers]
  <2>1. ASSUME NEW d \in Commands PROVE server'[d] \in Servers
    <3>1. server[d] \in Servers
      BY DEF AllInv, TypeInv
    <3>2. CASE server'[d] = server[d]
      BY <3>1, <3>2
    <3>3. CASE server'[d] = [server[d] EXCEPT !.state = "gone"]
      BY <3>1, <3>3 DEF Servers
    <3> QED
      BY <1>3, <3>2, <3>3
  <2>2. server' = [server EXCEPT ![c] = server'[c]]
    BY DEF StopServer, AllInv, TypeInv
  <2> QED
    BY <2>1, <2>2 DEF AllInv, TypeInv
<1>5. TypeInv'
  BY <1>2, <1>4 DEF AllInv, TypeInv
<1>6. \A d \in Commands :
        /\ session'[d].incident = session[d].incident /\ session'[d].revision = session[d].revision
        /\ d # c => session'[d].stage = session[d].stage /\ server'[d] = server[d]
        /\ session'[c].stage = stage
  <2>1. session \in [Commands -> Sessions] /\ server \in [Commands -> Servers]
    BY DEF AllInv, TypeInv
  <2>2. \A d \in Commands : d # c => server'[d] = server[d]
    BY <2>1 DEF StopServer
  <2> QED
    BY <1>1, <2>1, <2>2 DEF Sessions
<1> QED
  BY <1>3, <1>5, <1>6, OthersKeep DEF AllInv, LaunchInv

\* The steps of a command that move it on, stop it or look at its files write none.
LEMMA ControlStep ==
  ASSUME AllInv, NEW c \in Commands,
         \/ Poll(c) \/ Health(c) \/ GiveUp(c) \/ Launch(c) \/ Check(c) \/ Kill(c) \/ SeedChecks(c)
         \/ \E succeeds \in BOOLEAN : AppEnds(c, succeeds)
  PROVE  AllInv'
<1> USE DEF At, Stages
<1>0. faults \in 0 .. MaxFaults /\ LaunchInv
  BY DEF AllInv, TypeInv
<1>1. CASE Poll(c)
  BY <1>0, <1>1, MoveStep DEF Poll, LaunchInv
<1>2. CASE Health(c)
  BY <1>0, <1>2, MoveStep DEF Health, LaunchInv
<1>3. CASE GiveUp(c)
  BY <1>0, <1>3, MoveStep DEF GiveUp
<1>4. CASE Launch(c)
  BY <1>0, <1>4, MoveStep DEF Launch, LaunchInv
<1>5. CASE Check(c)
  BY <1>0, <1>5, MoveStep DEF Check
<1>6. CASE Kill(c)
  <2>1. faults' \in 0 .. MaxFaults
    BY <1>0, <1>6, ObservationAssumption DEF Kill
  <2> QED
    BY <1>6, <2>1, MoveStep DEF Kill
<1>7. CASE SeedChecks(c)
  BY <1>0, <1>7, MoveStep DEF SeedChecks
<1>8. ASSUME NEW succeeds \in BOOLEAN, AppEnds(c, succeeds) PROVE AllInv'
  BY <1>0, <1>8, MoveStep DEF AppEnds
<1> QED
  BY <1>1, <1>2, <1>3, <1>4, <1>5, <1>6, <1>7, <1>8

\* A command starts with the incident and revision it was given.
LEMMA BeginStep ==
  ASSUME AllInv, NEW c \in Commands,
         \/ Start(c)
         \/ \E force \in BOOLEAN : Observe(c, force) \/ Seed(c, force)
  PROVE  AllInv'
<1>1. /\ session[c].stage = "idle" /\ server[c].state = "none"
      /\ session \in [Commands -> Sessions] /\ server \in [Commands -> Servers]
      /\ workspace.incident \in Incidents /\ workspace.revision \in Revisions
  BY DEF Start, Observe, Seed, At, AllInv, TypeInv, LaunchInv
<1>2. UNCHANGED <<workspace, snapshot, files, faults, changes>>
  BY DEF Start, Observe, Seed
<1>3. /\ session' \in [Commands -> Sessions]
      /\ \A d \in Commands : d # c => session'[d] = session[d]
      /\ session'[c].stage \in {"waiting", "serving", "seeding"}
      /\ session'[c].incident \in Incidents
      /\ session'[c].stage = "waiting" => session'[c].revision \in Revisions
  <2>1. CASE Start(c)
    BY <1>1, <2>1, ZenonT(60) DEF Start, Sessions, Stages
  <2>2. ASSUME NEW force \in BOOLEAN, Observe(c, force) PROVE <1>3!:
    BY <1>1, <2>2, ZenonT(60) DEF Observe, Sessions, Stages
  <2>3. ASSUME NEW force \in BOOLEAN, Seed(c, force) PROVE <1>3!:
    <3> DEFINE next == [session[c] EXCEPT !.stage = "seeding", !.incident = workspace.incident,
                                          !.force = force]
    <3>1. session' = [session EXCEPT ![c] = next]
      BY <2>3 DEF Seed
    <3>2. session[c] \in Sessions
      BY <1>1
    <3>3. next \in Sessions /\ next.stage = "seeding" /\ next.incident \in Incidents
      BY <1>1, <3>2 DEF Sessions, Stages
    <3> QED
      BY <1>1, <3>1, <3>3
  <2> QED
    BY <2>1, <2>2, <2>3
<1>4. \/ UNCHANGED server
      \/ StartServer(c)
  BY DEF Start, Observe, Seed
<1>5. CASE UNCHANGED server
  <2>1. TypeInv'
    BY <1>2, <1>3, <1>5 DEF AllInv, TypeInv
  <2> QED
    BY <1>1, <1>2, <1>3, <1>5, <2>1, OthersKeep DEF AllInv, LaunchInv
<1>6. CASE StartServer(c)
  <2>1. /\ server' \in [Commands -> Servers]
        /\ \A d \in Commands : d # c => server'[d] = server[d]
        /\ server'[c].state = "starting" /\ server'[c].answered = {}
        /\ server'[c].revision \in Revisions
    BY <1>1, <1>6 DEF StartServer, NoServer, Servers
  <2>2. TypeInv'
    BY <1>2, <1>3, <2>1 DEF AllInv, TypeInv
  <2>3. LaunchInv'
    BY <1>3, <2>1 DEF AllInv, LaunchInv
  <2>4. Holder' = Holder /\ c \notin Holder
    BY <1>1, <2>1 DEF Holder
  <2>5. PortInv'
    BY <2>1, <2>4 DEF AllInv, PortInv
  <2>6. DerivedInv'
    BY <1>2 DEF AllInv, DerivedInv
  <2>7. \A d \in Holder : server'[d] = server[d] /\ session'[d] = session[d]
    BY <1>3, <2>1, <2>4 DEF Holder
  <2>8. AnsweredFactsAreSaved'
    BY <1>2, <2>4, <2>7 DEF AllInv, AnsweredFactsAreSaved
  <2> QED
    BY <2>2, <2>3, <2>5, <2>6, <2>8 DEF AllInv
<1> QED
  BY <1>4, <1>5, <1>6

\* A receiver that binds its port starts empty.
LEMMA BindStep ==
  ASSUME AllInv, NEW c \in Commands, Bind(c)
  PROVE  AllInv'
<1>1. /\ session \in [Commands -> Sessions] /\ server \in [Commands -> Servers]
      /\ server[c].state = "starting" /\ server[c].answered = {}
      /\ UNCHANGED <<workspace, session, snapshot, files, faults, changes>>
  BY DEF Bind, AllInv, TypeInv, PortInv
<1>2. PICK state \in {"up", "gone"} :
        server' = [server EXCEPT ![c].state = state] /\ (state = "up" => Holder = {})
  BY DEF Bind
<1>3. /\ server' \in [Commands -> Servers]
      /\ \A d \in Commands : d # c => server'[d] = server[d]
      /\ server'[c] = [server[c] EXCEPT !.state = state]
  BY <1>1, <1>2 DEF Servers
<1>4. server'[c].answered = {} /\ server'[c].state = state /\ server'[c].revision = server[c].revision
  BY <1>1, <1>3 DEF Servers
<1>5. TypeInv'
  BY <1>1, <1>3 DEF AllInv, TypeInv
<1>6. LaunchInv'
  BY <1>1, <1>2, <1>3, <1>4 DEF AllInv, LaunchInv
<1>7. Holder' \subseteq Holder \cup {c} /\ (c \in Holder' => Holder = {})
  BY <1>2, <1>3, <1>4 DEF Holder
<1>8. PortInv'
  BY <1>1, <1>3, <1>4, <1>7 DEF AllInv, PortInv
<1>9. DerivedInv' /\ AnsweredFactsAreSaved'
  <2>1. DerivedInv'
    BY <1>1 DEF AllInv, DerivedInv
  <2>2. ASSUME NEW d \in Holder', server'[d].answered # {}
        PROVE  d \in Holder /\ server'[d] = server[d]
    BY <1>3, <1>4, <1>7, <2>2 DEF Holder
  <2> QED
    BY <1>1, <2>1, <2>2 DEF AllInv, AnsweredFactsAreSaved
<1> QED
  BY <1>5, <1>6, <1>8, <1>9 DEF AllInv

\* An interrupted command leaves its snapshot to the receiver it has stopped.
LEMMA InterruptStep ==
  ASSUME AllInv, NEW c \in Commands, Interrupt(c)
  PROVE  AllInv'
<1>1. /\ session \in [Commands -> Sessions] /\ server \in [Commands -> Servers]
      /\ session[c].stage # "idle" /\ server[c].state # "none"
      /\ UNCHANGED <<workspace, session, snapshot, files, faults, changes>>
      /\ server' = [server EXCEPT ![c].state = "gone"]
  BY DEF Interrupt, Running, StopServer, At, AllInv, TypeInv
<1>2. /\ server' \in [Commands -> Servers]
      /\ \A d \in Commands : d # c => server'[d] = server[d]
      /\ server'[c] = [server[c] EXCEPT !.state = "gone"]
  BY <1>1 DEF Servers
<1>3. TypeInv'
  BY <1>1, <1>2 DEF AllInv, TypeInv
<1> QED
  BY <1>1, <1>2, <1>3, OthersKeep DEF AllInv, LaunchInv

\* Seeding chooses from the snapshot it read.
LEMMA SeedReadsStep ==
  ASSUME AllInv, NEW c \in Commands, SeedReads(c)
  PROVE  AllInv'
<1>1. /\ session \in [Commands -> Sessions] /\ session[c].stage = "seeding"
      /\ UNCHANGED <<workspace, server, snapshot, files, faults, changes>>
  BY DEF SeedReads, At, AllInv, TypeInv
<1>2. CASE To(c, "failed")
  BY <1>1, <1>2, MoveStep DEF Stages, AllInv, TypeInv
<1>3. CASE ~ To(c, "failed")
  <2> DEFINE runtime == snapshot[session[c].incident]
  <2>1. PICK pick \in Candidates(runtime) :
          /\ runtime # NoFile /\ runtime.incident = workspace.incident
          /\ session' = [session EXCEPT ![c].stage = "chosen", ![c].pick = pick]
    BY <1>3 DEF SeedReads
  <2>2. pick \in Picks
    <3>1. session[c].incident \in Incidents
      BY <1>1 DEF AllInv, LaunchInv
    <3>2. runtime \in Documents
      BY <2>1, <3>1 DEF AllInv, TypeInv
    <3>3. runtime.executions \subseteq SentExecutions /\ runtime.interactions \subseteq SentInteractions
      BY <3>2 DEF Documents
    <3>4. \E e \in runtime.executions, i \in runtime.interactions :
            pick = [execution |-> e, interaction |-> i]
      <4> HIDE DEF runtime
      <4> QED
        BY <2>1 DEF Candidates
    <3> QED
      BY <3>3, <3>4 DEF Picks
  <2>3. session' \in [Commands -> Sessions]
    <3>1. session[c] \in Sessions
      BY <1>1
    <3>2. [session[c] EXCEPT !.stage = "chosen", !.pick = pick] \in Sessions
      BY <2>2, <3>1 DEF Sessions, Stages
    <3>3. session' = [session EXCEPT ![c] = [session[c] EXCEPT !.stage = "chosen", !.pick = pick]]
      BY <1>1, <2>1
    <3> QED
      BY <1>1, <3>2, <3>3
  <2>4. TypeInv'
    BY <1>1, <2>3 DEF AllInv, TypeInv
  <2>5. \A d \in Commands :
          /\ session'[d].incident = session[d].incident
          /\ d # c => session'[d] = session[d]
          /\ session'[c].stage = "chosen"
    BY <1>1, <2>1 DEF Sessions
  <2> QED
    BY <1>1, <2>4, <2>5, OthersKeep DEF AllInv, LaunchInv
<1> QED
  BY <1>2, <1>3

\* The files of a seeded incident are written from that choice.
LEMMA SeedWritesStep ==
  ASSUME AllInv, NEW c \in Commands, SeedWrites(c)
  PROVE  AllInv'
<1> DEFINE file == session[c].stage
<1>1. /\ file \in {"evidence", "relationships", "diagnosis"}
      /\ files' = [files EXCEPT ![file] = session[c].pick]
      /\ \E stage \in AfterFile[file] : To(c, stage)
      /\ UNCHANGED <<workspace, server, snapshot, faults, changes>>
      /\ session \in [Commands -> Sessions]
  BY DEF SeedWrites, AfterFile, At, AllInv, TypeInv
<1>2. session[c].pick \in Picks
  BY <1>1 DEF Sessions
<1>3. PICK stage \in {"relationships", "diagnosis", "seeded", "failed"} :
        session' = [session EXCEPT ![c].stage = stage]
  <2>1. /\ AfterFile["evidence"] = {"relationships"} /\ AfterFile["relationships"] = {"diagnosis"}
        /\ AfterFile["diagnosis"] = {"seeded", "failed"}
    BY DEF AfterFile
  <2> QED
    BY <1>1, <2>1 DEF To
<1>4. files' \in [evidence : Picks \cup {NoFile}, relationships : Picks \cup {NoFile},
                 diagnosis : Picks \cup {NoFile}]
  BY <1>1, <1>2 DEF AllInv, TypeInv
<1>5. session' \in [Commands -> Sessions]
  BY <1>1, <1>3 DEF Sessions, Stages
<1>6. TypeInv'
  BY <1>1, <1>4, <1>5 DEF AllInv, TypeInv
<1>7. \A d \in Commands :
        /\ session'[d].incident = session[d].incident
        /\ d # c => session'[d] = session[d]
        /\ session'[c].stage = stage
  BY <1>1, <1>3 DEF Sessions
<1> QED
  BY <1>1, <1>6, <1>7, OthersKeep DEF AllInv, LaunchInv

-----------------------------------------------------------------------------
(* A payload arrives *)

\* Whatever a refused payload leaves behind, nothing known is lost.
LEMMA MergesOnlyAdd ==
  ASSUME NEW known, NEW items, NEW kept \in Merges(known, items)
  PROVE  known \subseteq kept /\ kept \subseteq known \cup items
BY DEF Merges

\* What a request does to the memory and the snapshot of its receiver h: it adds
\* to the memory, and acknowledges new executions only with the document that
\* holds all of them.
Remembered(h, executions, interactions, answered) ==
  /\ server[h].executions \subseteq executions /\ executions \subseteq SentExecutions
  /\ interactions \subseteq SentInteractions
  /\ server' = [server EXCEPT ![h] = [server[h] EXCEPT
       !.executions = executions, !.interactions = interactions, !.answered = answered]]
  /\ \/ answered = server[h].answered /\ UNCHANGED snapshot
     \/ /\ answered \subseteq executions
        /\ snapshot' = [snapshot EXCEPT ![session[h].incident] = Document(h, executions, interactions)]

\* Whichever receiver takes a batch, it only adds what was sent, or adds nothing and answers
\* nothing.
LEMMA IngestsRemembers ==
  ASSUME AllInv, NEW h \in Holder, NEW batch, Ingests(h, batch),
         batch.executions \subseteq SentExecutions, batch.interactions \subseteq SentInteractions
  PROVE  /\ \E executions, interactions, answered :
               Remembered(h, executions, interactions, answered)
         /\ faults' \in 0 .. MaxFaults
<1> DEFINE memory == server[h]
           executions == memory.executions \cup batch.executions
           interactions == memory.interactions \cup batch.interactions
           document == Document(h, executions, interactions)
<1>1. /\ h \in Commands /\ server \in [Commands -> Servers] /\ memory \in Servers
      /\ memory.executions \subseteq SentExecutions /\ memory.interactions \subseteq SentInteractions
      /\ memory.answered \subseteq memory.executions
      /\ faults \in 0 .. MaxFaults
  BY DEF Holder, AllInv, TypeInv, PortInv, Servers
<1>2. ASSUME NEW e, NEW i,
             server' = [server EXCEPT ![h].executions = e, ![h].interactions = i]
      PROVE  server' = [server EXCEPT ![h] = [memory EXCEPT
               !.executions = e, !.interactions = i, !.answered = memory.answered]]
  <2>1. [memory EXCEPT !.executions = e, !.interactions = i]
          = [memory EXCEPT !.executions = e, !.interactions = i, !.answered = memory.answered]
    BY <1>1 DEF Servers
  <2> QED
    BY <1>1, <1>2, <2>1
<1>3. ASSUME NEW kept \in Merges(memory.executions, batch.executions),
             server' = [server EXCEPT ![h].executions = kept, ![h].interactions = memory.interactions],
             UNCHANGED snapshot
      PROVE  Remembered(h, kept, memory.interactions, memory.answered)
  <2>1. memory.executions \subseteq kept /\ kept \subseteq SentExecutions
    BY <1>1, MergesOnlyAdd
  <2> QED
    BY <1>1, <1>2, <1>3, <2>1 DEF Remembered
<1>4. ASSUME NEW kept \in Merges(memory.interactions, batch.interactions),
             server' = [server EXCEPT ![h].executions = executions, ![h].interactions = kept],
             UNCHANGED snapshot
      PROVE  Remembered(h, executions, kept, memory.answered)
  <2>1. kept \subseteq SentInteractions
    BY <1>1, MergesOnlyAdd
  <2>2. memory.executions \subseteq executions /\ executions \subseteq SentExecutions
    BY <1>1
  <2> QED
    BY <1>1, <1>2, <1>4, <2>1, <2>2 DEF Remembered
<1>5. ASSUME server' = [server EXCEPT ![h].executions = executions,
                                      ![h].interactions = interactions],
             UNCHANGED snapshot
      PROVE  Remembered(h, executions, interactions, memory.answered)
  BY <1>1, <1>2, <1>5 DEF Remembered
<1>6. ASSUME server' = [server EXCEPT ![h].executions = executions,
                                      ![h].interactions = interactions,
                                      ![h].answered = @ \cup batch.executions],
             snapshot' = [snapshot EXCEPT ![session[h].incident] = document]
      PROVE  Remembered(h, executions, interactions, memory.answered \cup batch.executions)
  <2>1. server' = [server EXCEPT ![h] = [memory EXCEPT !.executions = executions,
           !.interactions = interactions, !.answered = memory.answered \cup batch.executions]]
    BY <1>1, <1>6
  <2>2. memory.answered \cup batch.executions \subseteq executions
    BY <1>1
  <2>3. memory.executions \subseteq executions
    OBVIOUS
  <2>4. executions \subseteq SentExecutions /\ interactions \subseteq SentInteractions
    BY <1>1
  <2> QED
    BY <1>6, <2>1, <2>2, <2>3, <2>4 DEF Remembered
<1>7. document.executions = executions /\ document.interactions = interactions
  BY DEF Document
<1> QED
  <2>1. CASE /\ \E kept \in Merges(memory.executions, batch.executions) :
                 server' = [server EXCEPT ![h].executions = kept,
                                          ![h].interactions = memory.interactions]
             /\ UNCHANGED <<snapshot, faults>>
    BY <1>1, <1>3, <2>1
  <2>2. CASE /\ \E kept \in Merges(memory.interactions, batch.interactions) :
                 server' = [server EXCEPT ![h].executions = executions, ![h].interactions = kept]
             /\ UNCHANGED <<snapshot, faults>>
    BY <1>1, <1>4, <2>2
  <2>3. CASE /\ server' = [server EXCEPT ![h].executions = executions,
                                         ![h].interactions = interactions,
                                         ![h].answered = @ \cup batch.executions]
             /\ snapshot' = [snapshot EXCEPT ![session[h].incident] = document]
             /\ UNCHANGED faults
    BY <1>1, <1>6, <2>3
  <2>4. CASE /\ faults < MaxFaults /\ faults' = faults + 1
             /\ server' = [server EXCEPT ![h].executions = executions,
                                         ![h].interactions = interactions]
             /\ UNCHANGED snapshot
    <3>1. faults' \in 0 .. MaxFaults
      BY <1>1, <2>4, ObservationAssumption
    <3> QED
      BY <1>5, <2>4, <3>1
  <2> QED
    BY <1>7, <2>1, <2>2, <2>3, <2>4 DEF Ingests

\* An application that exported a payload is where it was.
SentOn(c) ==
  /\ session' \in [Commands -> Sessions]
  /\ \A d \in Commands : /\ session'[d].stage = session[d].stage
                        /\ session'[d].incident = session[d].incident
                        /\ session'[d].revision = session[d].revision

\* A receiver that remembers more keeps every promise of the snapshots.
LEMMA RememberedStep ==
  ASSUME AllInv, NEW c \in Commands, SentOn(c), NEW h \in Holder,
         NEW executions, NEW interactions, NEW answered,
         Remembered(h, executions, interactions, answered),
         UNCHANGED <<workspace, files, changes>>, faults' \in 0 .. MaxFaults
  PROVE  AllInv'
<1> DEFINE document == Document(h, executions, interactions)
<1>1. /\ h \in Commands /\ server \in [Commands -> Servers] /\ server[h].state = "up"
      /\ session[h].incident \in Incidents /\ answered \subseteq executions
      /\ executions \subseteq SentExecutions /\ interactions \subseteq SentInteractions
  BY DEF Holder, AllInv, TypeInv, LaunchInv, PortInv, Remembered
<1>2. document \in Documents /\ document # NoFile
  BY <1>1, DocumentHasType DEF AllInv
<1>3. /\ server' \in [Commands -> Servers]
      /\ \A d \in Commands : server'[d].state = server[d].state /\ server'[d].revision = server[d].revision
      /\ \A d \in Commands : d # h => server'[d] = server[d]
      /\ server'[h].executions = executions /\ server'[h].answered = answered
  <2> DEFINE next == [server[h] EXCEPT !.executions = executions, !.interactions = interactions,
                                       !.answered = answered]
  <2>1. /\ next \in Servers /\ next.state = server[h].state /\ next.revision = server[h].revision
        /\ next.executions = executions /\ next.answered = answered
    BY <1>1 DEF Servers
  <2>2. server' = [server EXCEPT ![h] = next]
    BY DEF Remembered
  <2> HIDE DEF next
  <2> QED
    BY <1>1, <2>1, <2>2
<1>4. snapshot' \in [Incidents -> Documents \cup {NoFile}]
  BY <1>2 DEF Remembered, AllInv, TypeInv
<1>5. TypeInv'
  BY <1>3, <1>4 DEF AllInv, TypeInv, SentOn
<1>6. LaunchInv'
  BY <1>3 DEF AllInv, LaunchInv, SentOn
<1>7. Holder' = Holder /\ Holder = {h}
  BY <1>3 DEF AllInv, PortInv, Holder
<1>8. PortInv'
  BY <1>1, <1>3, <1>7 DEF AllInv, PortInv
<1>9. DerivedInv'
  <2>1. document.overlaps = RoundedOverlaps(document.executions)
    BY DEF Document
  <2>2. \A i \in Incidents : snapshot'[i] = snapshot[i] \/ snapshot'[i] = document
    BY DEF Remembered, AllInv, TypeInv
  <2> HIDE DEF document
  <2> QED
    BY <2>1, <2>2 DEF AllInv, DerivedInv
<1>10. AnsweredFactsAreSaved'
  <2> DEFINE saved == snapshot[session[h].incident]
             savedNext == snapshot'[session[h].incident]
  <2> SUFFICES ASSUME answered # {}
               PROVE  savedNext # NoFile /\ answered \subseteq savedNext.executions
    BY <1>1, <1>3, <1>7 DEF AnsweredFactsAreSaved, SentOn
  <2>1. CASE answered = server[h].answered /\ UNCHANGED snapshot
    BY <2>1 DEF AllInv, AnsweredFactsAreSaved
  <2>2. CASE snapshot' = [snapshot EXCEPT ![session[h].incident] = document]
    <3>1. savedNext = document
      BY <1>1, <2>2 DEF AllInv, TypeInv
    <3> QED
      BY <1>1, <1>2, <3>1 DEF Document
  <2> QED
    BY <2>1, <2>2 DEF Remembered
<1> QED
  BY <1>5, <1>6, <1>8, <1>9, <1>10 DEF AllInv

\* An export writes what the receiver has acknowledged.
LEMMA ExportStep ==
  ASSUME AllInv, NEW c \in Commands, Export(c)
  PROVE  AllInv'
<1> DEFINE n == session[c].sent + 1
<1>1. /\ session \in [Commands -> Sessions] /\ server \in [Commands -> Servers]
      /\ n \in DOMAIN Traffic[c] /\ n \in Nat
      /\ session[c].stage = "running" /\ session[c].revision \in Revisions
      /\ UNCHANGED <<workspace, files, changes>> /\ faults \in 0 .. MaxFaults
  <2>1. /\ n \in DOMAIN Traffic[c] /\ session[c].stage = "running"
        /\ UNCHANGED <<workspace, files, changes>>
    BY DEF Export, At
  <2>2. /\ session \in [Commands -> Sessions] /\ server \in [Commands -> Servers]
        /\ faults \in 0 .. MaxFaults
    BY DEF AllInv, TypeInv
  <2> QED
    BY <2>1, <2>2 DEF AllInv, LaunchInv, Sessions
<1>2. ASSUME NEW captured \in BOOLEAN,
             session' = [session EXCEPT ![c].sent = n, ![c].captured = captured]
      PROVE  SentOn(c)
  BY <1>1, <1>2, ZenonT(60) DEF SentOn, Sessions
<1>3. ASSUME session' = [session EXCEPT ![c].sent = n] PROVE SentOn(c)
  BY <1>1, <1>3 DEF SentOn, Sessions
<1>4. ASSUME SentOn(c), UNCHANGED <<server, snapshot, faults>> PROVE AllInv'
  <2>1. TypeInv'
    BY <1>1, <1>4 DEF AllInv, TypeInv, SentOn
  <2> QED
    BY <1>1, <1>4, <2>1, OthersKeep DEF AllInv, LaunchInv, SentOn
<1>5. CASE session' = [session EXCEPT ![c].sent = n] /\ UNCHANGED <<server, snapshot, faults>>
  BY <1>3, <1>4, <1>5
<1>6. ASSUME NEW h \in Holder
      PROVE  LET batch == Batches[c][session[c].revision][server[h].revision][n]
             IN /\ session' = [session EXCEPT ![c].sent = n, ![c].captured = @ \/ batch.accepted]
                /\ IF batch.accepted THEN Ingests(h, batch)
                   ELSE UNCHANGED <<server, snapshot, faults>>
                => AllInv'
  <2> DEFINE batch == Batches[c][session[c].revision][server[h].revision][n]
  <2>1. server[h].revision \in Revisions
    BY DEF Holder, AllInv, LaunchInv
  <2>2. /\ batch.executions \subseteq SentExecutions /\ batch.interactions \subseteq SentInteractions
    BY <1>1, <2>1, BatchIsSent
  <2> HIDE DEF batch
  <2>3. ASSUME session' = [session EXCEPT ![c].sent = n, ![c].captured = @ \/ batch.accepted]
        PROVE  SentOn(c)
    <3>1. session' = [session EXCEPT ![c].sent = n,
                                     ![c].captured = (session[c].captured \/ batch.accepted)]
      BY <1>1, <2>3
    <3>2. (session[c].captured \/ batch.accepted) \in BOOLEAN
      OBVIOUS
    <3> QED
      BY <1>2, <3>1, <3>2
  <2>4. ASSUME SentOn(c), Ingests(h, batch) PROVE AllInv'
    <3>1. /\ faults' \in 0 .. MaxFaults
          /\ \E executions, interactions, answered :
               Remembered(h, executions, interactions, answered)
      BY <2>2, <2>4, IngestsRemembers
    <3> QED
      BY <1>1, <2>4, <3>1, RememberedStep
  <2> QED
    BY <1>4, <2>3, <2>4 DEF batch
<1> QED
  BY <1>5, <1>6 DEF Export

-----------------------------------------------------------------------------
\* Whatever the commands, their receivers and the applications do, the state has
\* its types, one receiver holds the port, and a snapshot is the document of its
\* executions.
THEOREM ObservationInvariant == Spec => []AllInv
<1>1. Init => AllInv
  BY AllInitially
<1>2. AllInv /\ [Next]_vars => AllInv'
  <2> SUFFICES ASSUME AllInv, [Next]_vars PROVE AllInv'
    OBVIOUS
  <2>1. CASE UNCHANGED vars
    BY <2>1 DEF vars, AllInv, TypeInv, LaunchInv, PortInv, Holder, DerivedInv, AnsweredFactsAreSaved
  <2>2. CASE Change
    BY <2>2, ChangeStep
  <2>3. ASSUME NEW c \in Commands,
               Start(c) \/ \E force \in BOOLEAN : Observe(c, force) \/ Seed(c, force)
        PROVE  AllInv'
    BY <2>3, BeginStep
  <2>4. ASSUME NEW c \in Commands,
               \/ Poll(c) \/ Health(c) \/ GiveUp(c) \/ Launch(c) \/ Check(c) \/ Kill(c) \/ SeedChecks(c)
               \/ \E succeeds \in BOOLEAN : AppEnds(c, succeeds)
        PROVE  AllInv'
    BY <2>4, ControlStep
  <2>5. ASSUME NEW c \in Commands,
               Bind(c) \/ Interrupt(c) \/ SeedReads(c) \/ SeedWrites(c) \/ Export(c)
        PROVE  AllInv'
    BY <2>5, BindStep, InterruptStep, SeedReadsStep, SeedWritesStep, ExportStep
  <2> QED
    BY <2>1, <2>2, <2>3, <2>4, <2>5 DEF Next
<1> QED
  BY <1>1, <1>2, PTL DEF Spec

\* What the receiver that holds the port has acknowledged is in the snapshot of
\* its incident (otlp_concrete_receiver.py, ingest and do_POST), however many
\* commands share the workspace and the port.
THEOREM AnsweredFactsAreAlwaysSaved == Spec => []AnsweredFactsAreSaved
<1>1. AllInv => AnsweredFactsAreSaved
  BY DEF AllInv
<1> QED
  BY <1>1, ObservationInvariant, PTL

\* Every overlap of a snapshot happened, whatever times the applications send:
\* rounding them to microseconds may hide an overlap and never makes one up
\* (concrete_runtime_facts.py, build_concrete_runtime_facts).
THEOREM OverlapsAlwaysHappened == Spec => []OverlapsHappened
<1>1. AllInv => OverlapsHappened
  <2> SUFFICES ASSUME AllInv, NEW i \in Incidents, snapshot[i] # NoFile,
                      NEW o \in snapshot[i].overlaps
               PROVE  \E s, t \in SentSpans :
                        /\ o.executions = {ExecutionId(s), ExecutionId(t)}
                        /\ s.symbol # t.symbol /\ Together(s, t) > 0
    BY DEF OverlapsHappened
  <2>1. snapshot[i].executions \in SUBSET SentExecutions
    BY DEF AllInv, TypeInv, Documents
  <2>2. o \in RoundedOverlaps(snapshot[i].executions)
    BY DEF AllInv, DerivedInv
  <2> QED
    BY <2>1, <2>2, OverlapsOfSentHappened
<1> QED
  BY <1>1, ObservationInvariant, PTL

-----------------------------------------------------------------------------
(***************************************************************************)
(* How a profile comes to its last state: every stage has a solution.      *)
(***************************************************************************)

\* A profile reaches its last state only if every stage has a solution.
LEMMA LastStage ==
  ASSUME NEW stages, NEW n \in Nat \ {0}, DOMAIN stages = 1 .. n,
         \A i, j \in 1 .. n : stages[i][1] = stages[j][1] => i = j,
         stages[n][1] # "UNKNOWN",
         EpistemicState(stages) = stages[n][1]
  PROVE  \A j \in 1 .. n : stages[j][2] # {}
<1> DEFINE reached == {i \in DOMAIN stages : \A j \in 1 .. i : stages[j][2] # {}}
<1>1. reached # {} /\ stages[Cardinality(reached)][1] = stages[n][1]
  BY DEF EpistemicState
<1>2. IsFiniteSet(1 .. n) /\ Cardinality(1 .. n) = n
  BY FS_Interval
<1>3. /\ IsFiniteSet(reached) /\ Cardinality(reached) \in Nat
      /\ Cardinality(reached) <= n /\ (Cardinality(reached) = n => reached = 1 .. n)
  <2>1. reached \in SUBSET (1 .. n)
    OBVIOUS
  <2> HIDE DEF reached
  <2>2. /\ IsFiniteSet(reached) /\ Cardinality(reached) <= Cardinality(1 .. n)
        /\ Cardinality(1 .. n) = Cardinality(reached) => 1 .. n = reached
    <3>1. \A S : IsFiniteSet(S) => \A T \in SUBSET S :
            /\ IsFiniteSet(T) /\ Cardinality(T) <= Cardinality(S)
            /\ Cardinality(S) = Cardinality(T) => S = T
      BY FS_Subset, Zenon
    <3> QED
      BY <1>2, <2>1, <3>1, Zenon
  <2>3. Cardinality(reached) \in Nat
    BY <2>2, FS_CardinalityType
  <2> QED
    BY <1>2, <2>2, <2>3
<1>4. Cardinality(reached) # 0
  BY <1>1, <1>3, FS_EmptySet
<1>5. Cardinality(reached) \in 1 .. n
  <2> HIDE DEF reached
  <2> QED
    BY <1>3, <1>4
<1>6. Cardinality(reached) = n
  BY <1>1, <1>5
<1>7. n \in reached
  <2> HIDE DEF reached
  <2> QED
    BY <1>3, <1>6
<1> QED
  BY <1>7

-----------------------------------------------------------------------------
(***************************************************************************)
(* The pool laboratory: a confirmed wait for a connection happened.        *)
(***************************************************************************)

\* What ran on the pool carries the trace of an execution of the runtime document.
LEMMA RanOnTraces ==
  ASSUME NEW risky, NEW runtime, NEW s \in RanOn(risky, runtime)
  PROVE  \E e \in runtime.executions : e.trace = s.trace
<1>1. PICK t \in risky, e \in runtime.executions :
        /\ Agrees(t, [execution |-> e.id, trace |-> e.trace])
        /\ s = Extended(t, [execution |-> e.id, trace |-> e.trace])
  BY DEF RanOn, Requires, Clause
<1> QED
  BY <1>1 DEF Agrees, Extended

\* The d3-1 pool profile confirms only what the pool document asserts, on a trace that ran.
LEMMA PoolProfileReads ==
  ASSUME NEW contract, NEW runtime, NEW pool, pool # Missing,
         PoolProfile(contract, runtime, pool) = "CAUSAL_DIAGNOSIS_CONFIRMED"
  PROVE  /\ pool.asserts.wait
         /\ \E e \in runtime.executions : e.trace = pool.trace
<1> DEFINE sources == RowsOf(pool, LAMBDA d : {d})
           risky == AtRisk(contract)
           ran == RanOn(risky, runtime)
           joined == Measured(ran, sources)
           full == Saturated(joined, sources)
           waited == Waiting(full, sources)
           alone == Distinguished(waited, sources)
           stages == <<<<"PRECONDITIONS_PRESENT", risky>>,
                       <<"RUNTIME_EXECUTION_OBSERVED", joined>>,
                       <<"POOL_SATURATED", full>>, <<"CHECKOUT_WAIT_OBSERVED", waited>>,
                       <<"DATABASE_CAPACITY_DISTINGUISHED", alone>>,
                       <<"CAUSAL_DIAGNOSIS_CONFIRMED", Explained(alone, sources)>>>>
<1>1. EpistemicState(stages) = "CAUSAL_DIAGNOSIS_CONFIRMED"
  BY DEF PoolProfile
<1>2. waited # {} /\ joined # {}
  <2> HIDE DEF risky, joined, full, waited, alone, sources
  <2>1. DOMAIN stages = 1 .. 6 /\ stages[6][1] = "CAUSAL_DIAGNOSIS_CONFIRMED"
    OBVIOUS
  <2>2. \A i, j \in 1 .. 6 : stages[i][1] = stages[j][1] => i = j
    OBVIOUS
  <2>3. \A i \in 1 .. 6 : stages[i][2] # {}
    <3>1. \A n \in Nat \ {0} :
            /\ DOMAIN stages = 1 .. n /\ stages[n][1] # "UNKNOWN"
            /\ \A i, j \in 1 .. n : stages[i][1] = stages[j][1] => i = j
            /\ EpistemicState(stages) = stages[n][1]
            => \A j \in 1 .. n : stages[j][2] # {}
      <4> HIDE DEF stages
      <4> QED
        BY LastStage
    <3> HIDE DEF stages
    <3> QED
      BY <1>1, <2>1, <2>2, <3>1
  <2> QED
    BY <2>3
<1>3. sources = {pool}
  BY DEF RowsOf
<1>4. pool.asserts.wait
  BY <1>2, <1>3 DEF Waiting, Requires, WaitObserved
<1>5. PICK s \in ran : s.trace = pool.trace
  <2> HIDE DEF ran, sources
  <2>1. Measured(ran, {pool}) # {}
    BY <1>2, <1>3
  <2>2. Clause(ran, {pool},
               LAMBDA s, d : d.symbol = s.symbol /\ d.trace = s.trace /\ d.pool = s.pool,
               LAMBDA d : [observed |-> d.observed]) # {}
    BY <2>1 DEF Measured, Constrained
  <2> QED
    BY <2>2 DEF Clause
<1>6. \E e \in runtime.executions : e.trace = s.trace
  <2> HIDE DEF risky, sources
  <2> QED
    BY RanOnTraces
<1> QED
  BY <1>4, <1>5, <1>6

-----------------------------------------------------------------------------
PoolSamples ==
  [wait : BOOLEAN, query : BOOLEAN, direct : BOOLEAN, busy : {0, 1, Missing}] \cup [query : BOOLEAN]

PoolTypeInv ==
  /\ samples \in Seq(PoolSamples) /\ control \in BOOLEAN /\ status \in {0, 1, Missing}

\* The traced probe takes one sample before, one during and one after; the one
\* during it is slow only behind the holder, and the evidence says no more.
TracedInv ==
  IsTraced =>
    /\ poolAt = "baseline" => Len(samples) = 0
    /\ poolAt \in {"hold", "watch", "control", "ask", "answer"} => Len(samples) = 1
    /\ poolAt \in {"join", "recovery"} => Len(samples) = 2
    /\ Len(samples) >= 2 =>
         poolAt \in {"join", "recovery", "done", "failed"} /\ (samples[2].wait => asked = "queued")
    /\ poolEvidence # Missing =>
         poolAt = "done" /\ (poolEvidence.asserts.wait => Len(samples) >= 2 /\ samples[2].wait)

PoolInv == PoolTypeInv /\ TracedInv

\* A wait asserted of one intervention was measured in it.
LEMMA AssertedWaitWasMeasured ==
  ASSUME IsTraced, samples \in Seq(PoolSamples), Len(samples) = 2, NEW all, Assertions(all).wait
  PROVE  samples[2].wait
<1>1. During = {2}
  BY DEF During, Wanted
<1>2. Assertions(all).wait = Mostly(During, LAMBDA s : s.wait)
  BY DEF Assertions
<1>3. 2 * Cardinality({i \in {2} : samples[i].wait}) > Cardinality({2})
  BY <1>1, <1>2 DEF Mostly
<1>4. Cardinality({2}) = 1 /\ Cardinality({}) = 0
  BY FS_Singleton, FS_EmptySet
<1> DEFINE slow == {i \in {2} : samples[i].wait}
<1>5. slow # {}
  <2>1. 2 * Cardinality(slow) > Cardinality({2})
    BY <1>3
  <2> HIDE DEF slow
  <2>2. slow = {} => Cardinality(slow) = 0
    BY <1>4, Zenon
  <2> QED
    BY <2>1, <2>2, <1>4
<1> QED
  BY <1>5


\* A laboratory starts with nothing sampled and no trace.
LEMMA PoolInitInv == LabInit => PoolInv
<1> SUFFICES ASSUME LabInit PROVE PoolInv
  OBVIOUS
<1>1. PoolInit(lab)
  BY DEF LabInit
<1>2. samples = <<>> /\ control = FALSE /\ status = Missing /\ poolEvidence = Missing
      /\ (IsTraced => poolAt = "baseline")
  BY <1>1 DEF PoolInit, IsTraced
<1>3. samples \in Seq(PoolSamples) /\ Len(samples) = 0
  BY <1>2
<1>4. PoolTypeInv
  BY <1>2, <1>3 DEF PoolTypeInv
<1>5. TracedInv
  BY <1>2, <1>3 DEF TracedInv
<1> QED
  BY <1>4, <1>5 DEF PoolInv

\* What another laboratory or the server does is nothing to the pool.
LEMMA PoolIdle == PoolInv /\ UNCHANGED appVars => PoolInv'
BY DEF appVars, PoolInv, PoolTypeInv, TracedInv, IsTraced

\* Handlers, probe and failing holder only sample what the pool shows, on the trace of the
\* run.
LEMMA PoolStepInv ==
  ASSUME PoolInv, PoolHandlers \/ PoolProbe \/ HolderFails
  PROVE  PoolInv'
<1> USE DEF PoolInv, PoolTypeInv, TracedInv, IsTraced
<1>1. CASE PoolHandlers
  BY <1>1 DEF PoolHandlers, Acquires, Holds, Leaves
<1>2. CASE HolderFails
  BY <1>2 DEF HolderFails
<1>3. CASE SamplesAlone("baseline", "hold")
  BY <1>3 DEF SamplesAlone, PoolSamples
<1>4. CASE StartsHolder
  BY <1>4 DEF StartsHolder
<1>5. CASE WatchesHolder
  BY <1>5 DEF WatchesHolder
<1>6. CASE ConnectsDirectly
  BY <1>6 DEF ConnectsDirectly
<1>7. CASE AsksForWork
  BY <1>7 DEF AsksForWork
<1>8. CASE Works
  <2>1. PICK wait \in {FALSE, asked = "queued"}, query \in BOOLEAN :
          samples' = Append(samples, Sample(wait, query))
    BY <1>8 DEF Works
  <2>2. Sample(wait, query) \in PoolSamples /\ (Sample(wait, query).wait => asked = "queued")
    BY <2>1 DEF Sample, PoolSamples
  <2>3. samples' \in Seq(PoolSamples) /\ Len(samples') = Len(samples) + 1
        /\ samples'[Len(samples) + 1] = Sample(wait, query)
    BY <2>1, <2>2
  <2> QED
    BY <1>8, <2>2, <2>3 DEF Works
<1>9. CASE JoinsHolder
  BY <1>9 DEF JoinsHolder, Wanted
<1>10. CASE GivesUp
  BY <1>10 DEF GivesUp
<1>11. CASE Recovers
  <2>1. PICK query \in BOOLEAN :
          /\ samples' = Append(samples, [query |-> query])
          /\ poolEvidence' = PoolEvidence(samples')
    BY <1>11 DEF Recovers
  <2>2. /\ samples' \in Seq(PoolSamples) /\ Len(samples') = Len(samples) + 1
        /\ \A i \in 1 .. Len(samples) : samples'[i] = samples[i]
    <3>1. [query |-> query] \in PoolSamples
      BY DEF PoolSamples
    <3> QED
      BY <2>1, <3>1
  <2>3. poolEvidence'.asserts = Assertions(samples')
    BY <2>1 DEF PoolEvidence
  <2>4. ASSUME IsTraced, poolEvidence'.asserts.wait
        PROVE  samples'[2].wait
    <3>1. Len(samples) = 2 /\ poolAt = "recovery"
      BY <1>11, <2>4 DEF Recovers
    <3>2. samples[2].wait
      BY <2>3, <2>4, <3>1, AssertedWaitWasMeasured
    <3> QED
      BY <2>2, <3>1, <3>2
  <2> QED
    BY <1>11, <2>2, <2>4 DEF Recovers
<1> QED
  BY <1>1, <1>2, <1>3, <1>4, <1>5, <1>6, <1>7, <1>8, <1>9, <1>10, <1>11 DEF PoolProbe


\* The steps of the other laboratories leave the pool alone.
LEMMA PoolNextInv == PoolInv /\ [LabNext]_labVars => PoolInv'
<1> SUFFICES ASSUME PoolInv, [LabNext]_labVars PROVE PoolInv'
  OBVIOUS
<1>1. CASE PoolHandlers \/ PoolProbe \/ HolderFails
  BY <1>1, PoolStepInv
<1>2. CASE UNCHANGED appVars
  BY <1>2, PoolIdle
<1> QED
  BY <1>1, <1>2 DEF LabNext, PoolNext, labVars, poolVars

\* What the traced probe confirms as a wait for the pool was one: its request
\* queued behind the holder and its checkout was slow.
THEOREM PoolWaitsHappened == LabSpec => []ConfirmedPoolWaitHappened
<1>1. PoolInv => ConfirmedPoolWaitHappened
  <2> SUFFICES ASSUME PoolInv, poolEvidence # Missing, IsTraced,
                      NEW runtime \in {TracedRuntime} \cup PoolDocs, PoolConfirmedBy(runtime)
               PROVE  /\ asked = "queued" /\ samples[2].wait
                      /\ \E e \in runtime.executions : e.trace = poolEvidence.trace
    BY DEF ConfirmedPoolWaitHappened
  <2>1. PoolProfile(PoolContract(deployment), runtime, poolEvidence) = "CAUSAL_DIAGNOSIS_CONFIRMED"
    BY DEF PoolConfirmedBy
  <2>2. /\ poolEvidence.asserts.wait
        /\ \E e \in runtime.executions : e.trace = poolEvidence.trace
    BY <2>1, PoolProfileReads
  <2> QED
    BY <2>2 DEF PoolInv, TracedInv
<1> QED
  BY <1>1, PoolInitInv, PoolNextInv, PTL DEF LabSpec

-----------------------------------------------------------------------------
(***************************************************************************)
(* The duplicate-effect laboratory: a confirmed duplicate happened.        *)
(***************************************************************************)

\* The stages `Committed` solves read the attempt of the very call they name.
LEMMA CommittedReads ==
  ASSUME NEW solutions, NEW effect, effect # Missing, NEW call, NEW outcome,
         Committed(solutions, effect, call, outcome) # {}
  PROVE  /\ solutions # {}
         /\ effect.attempts[call].outcome = outcome /\ effect.attempts[call].committed
BY DEF Committed, Requires, RowsOf

\* The stages `Executed` solves extend solutions of the stage before.
LEMMA ExecutedReads ==
  ASSUME NEW solutions, NEW runtime, NEW call, NEW name,
         Executed(solutions, runtime, call, name) # {}
  PROVE  solutions # {}
BY DEF Executed, Clause

\* The stages `Applied` solves name a call with an unsafe effect of the provider.
LEMMA AppliedReads ==
  ASSUME NEW solutions, NEW effect, effect # Missing, NEW call, NEW name,
         Applied(solutions, effect, call, name) # {}
  PROVE  solutions # {} /\ \E e \in UnsafeEffects(effect) : e.call = call
BY DEF Applied, Clause, RowsOf

\* The duplicate-side-effect profile confirms only a lost answer, a retry that applied
\* again, a control that committed and a safe retry that succeeded.
LEMMA DuplicateProfileReads ==
  ASSUME NEW space, NEW runtime, NEW effect, NEW canonical, effect # Missing,
         DuplicateProfile(space, runtime, effect, canonical) = "CAUSAL_DIAGNOSIS_CONFIRMED"
  PROVE  /\ effect.attempts[1].outcome = "timeout"
         /\ \A call \in {1, 2} : \E e \in UnsafeEffects(effect) : e.call = call
         /\ effect.attempts[3].committed
         /\ effect.attempts[4].outcome = "success"
<1> DEFINE risky == RetriedCharge(space)
           ambiguous == Ambiguous(risky, runtime, effect)
           retried == RetriedAfter(ambiguous, runtime, effect)
           happened == AppliedTwice(retried, effect, canonical)
           once == AppliedOnce(happened, effect)
           stages == <<<<"PRECONDITIONS_PRESENT", risky>>,
                       <<"AMBIGUOUS_OUTCOME_OBSERVED", ambiguous>>,
                       <<"RETRY_OBSERVED", retried>>, <<"EVENT_OBSERVED", happened>>,
                       <<"CAUSAL_DIAGNOSIS_CONFIRMED", once>>>>
<1>1. EpistemicState(stages) = "CAUSAL_DIAGNOSIS_CONFIRMED"
  BY DEF DuplicateProfile
<1>2. ambiguous # {} /\ happened # {} /\ once # {}
  <2> HIDE DEF risky, ambiguous, retried, happened, once
  <2>1. DOMAIN stages = 1 .. 5 /\ stages[5][1] = "CAUSAL_DIAGNOSIS_CONFIRMED"
    OBVIOUS
  <2>2. \A i, j \in 1 .. 5 : stages[i][1] = stages[j][1] => i = j
    OBVIOUS
  <2>3. \A i \in 1 .. 5 : stages[i][2] # {}
    <3> HIDE DEF stages
    <3>1. \A n \in Nat \ {0} :
            /\ DOMAIN stages = 1 .. n /\ stages[n][1] # "UNKNOWN"
            /\ \A i, j \in 1 .. n : stages[i][1] = stages[j][1] => i = j
            /\ EpistemicState(stages) = stages[n][1]
            => \A j \in 1 .. n : stages[j][2] # {}
      BY LastStage
    <3> QED
      BY <1>1, <2>1, <2>2, <3>1
  <2> QED
    BY <2>3
<1> HIDE DEF risky, ambiguous, retried, happened, once, stages
<1>3. effect.attempts[1].outcome = "timeout"
  <2>1. \E some : Committed(some, effect, 1, "timeout") # {}
    BY <1>2, ExecutedReads DEF ambiguous, Ambiguous
  <2> QED
    BY <2>1, CommittedReads
<1>4. \A call \in {1, 2} : \E e \in UnsafeEffects(effect) : e.call = call
  <2>1. Applied(Applied(retried, effect, 1, "effectFirst"), effect, 2, "effectRetry") # {}
    BY <1>2 DEF happened, AppliedTwice, Counted, Constrained, Requires
  <2>2. Applied(retried, effect, 1, "effectFirst") # {} /\ \E e \in UnsafeEffects(effect) : e.call = 2
    BY <2>1, AppliedReads
  <2> QED
    BY <2>2, AppliedReads
<1>5. /\ Committed(happened, effect, 3, "timeout") # {}
      /\ effect.attempts[4].outcome = "success"
  BY <1>2 DEF once, AppliedOnce, Counted, Requires, RowsOf
<1> QED
  BY <1>3, <1>4, <1>5, CommittedReads

\* The calls after the current one have not been sent, nor has the current one
\* before main waits for it; so that no request is sent twice.
CallInv ==
  /\ dupCall \in Calls /\ DOMAIN requests = Calls /\ DOMAIN answers = Calls
  /\ dupAt \in {"settle", "done"} => dupCall \in {2, 4}
  /\ dupAt \in {"start", "call", "await", "settle"} =>
       \A i \in Calls : i > dupCall => requests[i] = "none"
  /\ dupAt \in {"start", "call"} => requests[dupCall] = "none"

\* Every effect is the one its call was answered with, there is one effect at most
\* for the protected calls, and each of them that was processed was answered with it.
ProviderInv ==
  /\ effects \in Seq([id : Nat, call : Calls])
  /\ \A k \in DOMAIN effects :
       /\ effects[k].id = k /\ effects[k].call \in Calls
       /\ requests[effects[k].call] = "processed"
       /\ answers[effects[k].call].id = k
  /\ \A k, l \in DOMAIN effects :
       IsProtected(effects[k].call) /\ IsProtected(effects[l].call) => k = l
  /\ \A c \in Calls : IsProtected(c) /\ requests[c] = "processed" =>
       \E k \in DOMAIN effects :
         /\ IsProtected(effects[k].call) /\ answers[c].id = k
         /\ answers[c].deduplicated \/ effects[k].call = c

HasRecorded(i) == i < dupCall \/ (i = dupCall /\ dupAt \in {"settle", "done"})

\* A recorded success was processed and a committed attempt has its effect.
AttemptInv ==
  /\ DOMAIN attempts = Calls
  /\ \A i \in Calls : HasRecorded(i) =>
       /\ DOMAIN attempts[i] = {"outcome", "committed", "id", "deduplicated"}
       /\ attempts[i].outcome = "success" => requests[i] = "processed"
       /\ attempts[i].committed => \E k \in DOMAIN effects : effects[k].call = i

EvidenceInv ==
  evidence # Missing =>
    /\ dupAt = "done" /\ dupCall = 4 /\ evidence.attempts = attempts
    /\ \A e \in evidence.effects : \E k \in DOMAIN effects : e = effects[k]

DuplicateInv == CallInv /\ ProviderInv /\ AttemptInv /\ EvidenceInv

\* Before the first call nothing was sent, applied or settled.
LEMMA DuplicateInitInv == LabInit => DuplicateInv
<1> SUFFICES ASSUME LabInit PROVE DuplicateInv
  OBVIOUS
<1>1. DupInit(lab = "effect")
  BY DEF LabInit
<1> QED
  BY <1>1 DEF DupInit, DuplicateInv, CallInv, ProviderInv, AttemptInv, EvidenceInv, HasRecorded, Calls

\* What leaves the variables of the laboratory alone leaves its invariant alone.
LEMMA DuplicateIdle == DuplicateInv /\ UNCHANGED dupVars => DuplicateInv'
BY DEF dupVars, DuplicateInv, CallInv, ProviderInv, AttemptInv, EvidenceInv, HasRecorded

\* The provider appends an effect or answers with the one that is there.
LEMMA ProcessedInv ==
  ASSUME DuplicateInv, NEW call \in Calls, Process(call)
  PROVE  DuplicateInv'
<1> DEFINE known == IF IsProtected(call) THEN EffectsFor(call) ELSE {}
           new == [id |-> Len(effects) + 1, call |-> call]
<1>1. /\ requests[call] = "sent" /\ requests' = [requests EXCEPT ![call] = "processed"]
      /\ UNCHANGED <<dupAt, dupCall, jobSpace, attempts, errors, evidence>>
      /\ effects' = IF known = {} THEN Append(effects, new) ELSE effects
      /\ answers' = [answers EXCEPT ![call] =
             [id |-> IF known = {} THEN new.id ELSE First(known).id,
              deduplicated |-> known # {}, slow |-> IsSlow(call)]]
  BY DEF Process
<1>2. effects \in Seq([id : Nat, call : Calls]) /\ new \in [id : Nat, call : Calls]
  BY DEF DuplicateInv, ProviderInv
<1>3. \A k \in DOMAIN effects : k \in DOMAIN effects' /\ effects'[k] = effects[k]
  BY <1>1, <1>2
<1>4. CallInv'
  BY <1>1 DEF DuplicateInv, CallInv
<1>5. AttemptInv'
  BY <1>1, <1>3 DEF DuplicateInv, CallInv, AttemptInv, HasRecorded
<1>6. EvidenceInv'
  BY <1>1, <1>3 DEF DuplicateInv, EvidenceInv
<1>7. ProviderInv'
  <2>1. CASE known = {}
    <3>1. /\ effects' \in Seq([id : Nat, call : Calls])
          /\ DOMAIN effects' = DOMAIN effects \cup {Len(effects) + 1}
          /\ effects'[Len(effects) + 1] = new
      BY <1>1, <1>2, <2>1
    <3>2. IsProtected(call) => \A k \in DOMAIN effects : ~IsProtected(effects[k].call)
      BY <2>1 DEF EffectsFor, SameEvent
    <3>3. answers'[call].id = Len(effects) + 1
      BY <1>1, <2>1 DEF DuplicateInv, CallInv
    <3>4. \A c \in Calls \ {call} : answers'[c] = answers[c] /\ requests'[c] = requests[c]
      BY <1>1 DEF DuplicateInv, CallInv
    <3>5. requests'[call] = "processed"
      BY <1>1 DEF DuplicateInv, CallInv
    <3>6. \A k \in DOMAIN effects : effects[k].call \in Calls \ {call}
      BY <1>1 DEF DuplicateInv, ProviderInv
    <3> HIDE DEF known
    <3>7. new.call = call /\ new.id = Len(effects) + 1
      OBVIOUS
    <3> HIDE DEF new
    <3>8. \A k \in DOMAIN effects' :
            /\ effects'[k].id = k /\ effects'[k].call \in Calls
            /\ requests'[effects'[k].call] = "processed"
            /\ answers'[effects'[k].call].id = k
      BY <1>3, <3>1, <3>3, <3>4, <3>5, <3>6, <3>7 DEF DuplicateInv, ProviderInv
    <3>9. \A k, l \in DOMAIN effects' :
            IsProtected(effects'[k].call) /\ IsProtected(effects'[l].call) => k = l
      BY <1>3, <3>1, <3>2, <3>7 DEF DuplicateInv, ProviderInv
    <3>10. \A c \in Calls : IsProtected(c) /\ requests'[c] = "processed" =>
             \E k \in DOMAIN effects' :
               /\ IsProtected(effects'[k].call) /\ answers'[c].id = k
               /\ answers'[c].deduplicated \/ effects'[k].call = c
      <4> SUFFICES ASSUME NEW c \in Calls, IsProtected(c), requests'[c] = "processed"
                   PROVE  \E k \in DOMAIN effects' :
                            /\ IsProtected(effects'[k].call) /\ answers'[c].id = k
                            /\ answers'[c].deduplicated \/ effects'[k].call = c
        OBVIOUS
      <4>1. CASE c = call
        BY <3>1, <3>3, <3>7, <4>1
      <4>2. CASE c # call
        <5>1. PICK k \in DOMAIN effects :
                /\ IsProtected(effects[k].call) /\ answers[c].id = k
                /\ answers[c].deduplicated \/ effects[k].call = c
          BY <3>4, <4>2 DEF DuplicateInv, ProviderInv
        <5>2. k \in DOMAIN effects' /\ effects'[k] = effects[k] /\ answers'[c] = answers[c]
          BY <1>3, <3>4, <4>2
        <5> QED
          BY <5>1, <5>2
      <4> QED
        BY <4>1, <4>2
    <3> QED
      BY <3>1, <3>8, <3>9, <3>10 DEF ProviderInv
  <2>2. CASE known # {}
    <3>1. IsProtected(call) /\ effects' = effects
      BY <1>1, <2>2
    <3>2. PICK k \in DOMAIN effects : IsProtected(effects[k].call)
      BY <2>2, <3>1 DEF EffectsFor, SameEvent
    <3>3. known = {effects[k]}
      <4>1. {i \in DOMAIN effects : SameEvent(effects[i].call, call)} = {k}
        BY <3>1, <3>2 DEF DuplicateInv, ProviderInv, SameEvent, IsProtected
      <4> QED
        BY <3>1, <4>1 DEF EffectsFor
    <3>4. effects[k].id = k /\ k \in Nat
      BY <1>2, <3>2 DEF DuplicateInv, ProviderInv
    <3>5. First({effects[k]}) = effects[k]
      BY <3>4 DEF First
    <3>6. answers'[call].id = k /\ answers'[call].deduplicated
      BY <1>1, <2>2, <3>3, <3>4, <3>5 DEF DuplicateInv, CallInv
    <3>7. \A c \in Calls \ {call} : answers'[c] = answers[c] /\ requests'[c] = requests[c]
      BY <1>1 DEF DuplicateInv, CallInv
    <3>8. requests'[call] = "processed"
      BY <1>1 DEF DuplicateInv, CallInv
    <3>9. \A l \in DOMAIN effects : effects[l].call \in Calls \ {call}
      BY <1>1 DEF DuplicateInv, ProviderInv
    <3> HIDE DEF known, new
    <3> QED
      BY <1>2, <3>1, <3>2, <3>6, <3>7, <3>8, <3>9 DEF DuplicateInv, ProviderInv
  <2> QED
    BY <2>1, <2>2
<1> QED
  BY <1>4, <1>5, <1>6, <1>7 DEF DuplicateInv

\* What main records of a call, before it goes on to the next one.
LEMMA RecordedInv ==
  ASSUME DuplicateInv, dupAt \in {"call", "await"}, NEW attempt,
         DOMAIN attempt = {"outcome", "committed", "id", "deduplicated"}, ~attempt.committed,
         attempt.outcome = "success" => requests[dupCall] = "processed",
         attempts' = [attempts EXCEPT ![dupCall] = attempt],
         IF IsFirst(dupCall) THEN dupAt' = "call" /\ dupCall' = dupCall + 1
                             ELSE dupAt' = "settle" /\ UNCHANGED dupCall,
         UNCHANGED <<requests, answers, effects, evidence>>
  PROVE  DuplicateInv'
<1>1. dupCall \in 1 .. 4
  BY DEF DuplicateInv, CallInv, Calls
<1>2. CallInv'
  BY <1>1 DEF DuplicateInv, CallInv, IsFirst, Calls
<1>3. ProviderInv'
  BY DEF DuplicateInv, ProviderInv
<1>4. AttemptInv'
  BY <1>1 DEF DuplicateInv, AttemptInv, HasRecorded, IsFirst, Calls
<1>5. EvidenceInv'
  BY DEF DuplicateInv, EvidenceInv
<1> QED
  BY <1>2, <1>3, <1>4, <1>5 DEF DuplicateInv

\* A bound attempt keeps its outcome and is committed by an effect of its own call.
LEMMA BoundAttempt ==
  ASSUME NEW call, NEW i \in Calls, NEW found, found = EffectsFor(call),
         DOMAIN attempts[i] = {"outcome", "committed", "id", "deduplicated"}
  PROVE  LET bound == BindProviderEffects(i, found)
         IN  /\ DOMAIN bound = {"outcome", "committed", "id", "deduplicated"}
             /\ bound.outcome = attempts[i].outcome
             /\ bound.committed => \E k \in DOMAIN effects : effects[k].call = i
<1>1. EffectOf(i, found) # {} => \E k \in DOMAIN effects : effects[k].call = i
  BY DEF EffectOf, EffectsFor
<1> QED
  BY <1>1 DEF BindProviderEffects

\* Settling a call records the attempt the code compares with the provider's own effects.
LEMMA SettledInv ==
  ASSUME DuplicateInv, Settles
  PROVE  DuplicateInv'
<1> DEFINE found == EffectsFor(dupCall)
           bound == Settled(dupCall, found)
<1>1. dupAt = "settle" /\ dupCall \in {2, 4} /\ UNCHANGED <<requests, answers, effects>>
  BY DEF Settles, DuplicateInv, CallInv
<1>2. ProviderInv'
  BY <1>1 DEF DuplicateInv, ProviderInv
<1>3. \A i \in Calls : i <= dupCall =>
        /\ DOMAIN bound[i] = {"outcome", "committed", "id", "deduplicated"}
        /\ bound[i].outcome = "success" => requests[i] = "processed"
        /\ bound[i].committed => \E k \in DOMAIN effects : effects[k].call = i
  <2> SUFFICES ASSUME NEW i \in Calls, i <= dupCall
               PROVE  /\ DOMAIN bound[i] = {"outcome", "committed", "id", "deduplicated"}
                      /\ bound[i].outcome = "success" => requests[i] = "processed"
                      /\ bound[i].committed => \E k \in DOMAIN effects : effects[k].call = i
    OBVIOUS
  <2>1. /\ DOMAIN attempts[i] = {"outcome", "committed", "id", "deduplicated"}
        /\ attempts[i].outcome = "success" => requests[i] = "processed"
        /\ attempts[i].committed => \E k \in DOMAIN effects : effects[k].call = i
    BY <1>1 DEF DuplicateInv, AttemptInv, HasRecorded, Calls
  <2>2. bound[i] = BindProviderEffects(i, found) \/ bound[i] = attempts[i]
    BY DEF Settled
  <2> HIDE DEF bound
  <2> QED
    BY <2>1, <2>2, BoundAttempt
<1>4. DOMAIN bound = Calls
  BY DEF Settled
<1>5. CASE dupAt' = "failed" /\ UNCHANGED <<dupCall, attempts, evidence>>
  BY <1>1, <1>2, <1>5 DEF DuplicateInv, CallInv, AttemptInv, EvidenceInv, HasRecorded, Calls
<1>6. CASE dupAt' = "call" /\ dupCall = 2 /\ dupCall' = 3 /\ attempts' = bound /\ UNCHANGED evidence
  <2> HIDE DEF bound
  <2>1. CallInv'
    BY <1>1, <1>6 DEF DuplicateInv, CallInv, Calls
  <2>2. AttemptInv'
    BY <1>1, <1>3, <1>4, <1>6 DEF AttemptInv, HasRecorded, Calls
  <2>3. EvidenceInv'
    BY <1>1, <1>6 DEF DuplicateInv, EvidenceInv
  <2> QED
    BY <1>2, <2>1, <2>2, <2>3 DEF DuplicateInv
<1>7. CASE /\ dupAt' = "done" /\ dupCall = 4 /\ dupCall' = 4
           /\ attempts' = [bound EXCEPT ![4] = [@ EXCEPT !.deduplicated = TRUE,
                                                        !.id = First(found).id]]
           /\ evidence' = EffectEvidence(attempts')
  <2> HIDE DEF bound
  <2>1. CallInv'
    BY <1>1, <1>7 DEF DuplicateInv, CallInv, Calls
  <2>2. AttemptInv'
    BY <1>1, <1>3, <1>4, <1>7 DEF AttemptInv, HasRecorded, Calls
  <2>3. EvidenceInv'
    BY <1>1, <1>7 DEF EvidenceInv, EffectEvidence
  <2> QED
    BY <1>2, <2>1, <2>2, <2>3 DEF DuplicateInv
<1> HIDE DEF bound, found
<1> QED
  BY <1>1, <1>5, <1>6, <1>7 DEF Settles, IsProtected, bound, found

\* The caller, the provider and a call that fails keep the invariant.
LEMMA DuplicateStepInv ==
  ASSUME DuplicateInv, DupMain \/ DupProvider \/ CallFails
  PROVE  DuplicateInv'
<1>1. CASE StartsJobs
  BY <1>1 DEF StartsJobs, DuplicateInv, CallInv, ProviderInv, AttemptInv, EvidenceInv, HasRecorded
<1>2. CASE Sends
  <2>1. \A k \in DOMAIN effects : effects[k].call \in Calls \ {dupCall}
    BY <1>2 DEF Sends, DuplicateInv, CallInv, ProviderInv
  <2>2. CallInv'
    BY <1>2 DEF Sends, DuplicateInv, CallInv, Calls
  <2>3. ProviderInv'
    BY <1>2, <2>1 DEF Sends, DuplicateInv, CallInv, ProviderInv
  <2>4. AttemptInv' /\ EvidenceInv'
    BY <1>2 DEF Sends, DuplicateInv, CallInv, AttemptInv, EvidenceInv, HasRecorded, Calls
  <2> QED
    BY <2>2, <2>3, <2>4 DEF DuplicateInv
<1>3. CASE Answered
  <2>1. CASE IsProtected(dupCall)
    <3> DEFINE attempt == [outcome |-> "success", committed |-> FALSE, id |-> answers[dupCall].id, deduplicated |-> answers[dupCall].deduplicated]
    <3>1. attempts' = [attempts EXCEPT ![dupCall] = attempt]
      BY <1>3, <2>1 DEF Answered, Recorded
    <3>2. /\ DOMAIN attempt = {"outcome", "committed", "id", "deduplicated"}
          /\ ~attempt.committed /\ attempt.outcome = "success"
      OBVIOUS
    <3> HIDE DEF attempt
    <3> QED
      BY <1>3, <2>1, <3>1, <3>2, RecordedInv DEF Answered, Recorded
  <2>2. CASE ~IsProtected(dupCall)
    <3> DEFINE attempt == [outcome |-> "success", committed |-> FALSE, id |-> Missing, deduplicated |-> FALSE]
    <3>1. attempts' = [attempts EXCEPT ![dupCall] = attempt]
      BY <1>3, <2>2 DEF Answered, Recorded
    <3>2. /\ DOMAIN attempt = {"outcome", "committed", "id", "deduplicated"}
          /\ ~attempt.committed /\ attempt.outcome = "success"
      OBVIOUS
    <3> HIDE DEF attempt
    <3> QED
      BY <1>3, <2>2, <3>1, <3>2, RecordedInv DEF Answered, Recorded
  <2> QED
    BY <2>1, <2>2
<1>4. CASE WaitTimesOut
  <2> DEFINE attempt == [outcome |-> "timeout", committed |-> FALSE, id |-> Missing, deduplicated |-> FALSE]
  <2>1. attempts' = [attempts EXCEPT ![dupCall] = attempt]
    BY <1>4 DEF WaitTimesOut, Recorded
  <2>2. /\ DOMAIN attempt = {"outcome", "committed", "id", "deduplicated"}
        /\ ~attempt.committed /\ attempt.outcome = "timeout"
    OBVIOUS
  <2> HIDE DEF attempt
  <2> QED
    BY <1>4, <2>1, <2>2, RecordedInv DEF WaitTimesOut, Recorded
<1>5. CASE CallFails
  <2> DEFINE attempt == [outcome |-> "error", committed |-> FALSE, id |-> Missing, deduplicated |-> FALSE]
  <2>1. attempts' = [attempts EXCEPT ![dupCall] = attempt]
    BY <1>5 DEF CallFails, Recorded
  <2>2. /\ DOMAIN attempt = {"outcome", "committed", "id", "deduplicated"}
        /\ ~attempt.committed /\ attempt.outcome = "error"
    OBVIOUS
  <2> HIDE DEF attempt
  <2> QED
    BY <1>5, <2>1, <2>2, RecordedInv DEF CallFails, Recorded
<1>6. CASE Settles
  BY <1>6, SettledInv
<1>7. CASE DupProvider
  BY <1>7, ProcessedInv DEF DupProvider
<1> QED
  BY <1>1, <1>2, <1>3, <1>4, <1>5, <1>6, <1>7 DEF DupMain

\* The steps of the other laboratories leave calls and effects alone.
LEMMA DuplicateNextInv == DuplicateInv /\ [LabNext]_labVars => DuplicateInv'
<1> SUFFICES ASSUME DuplicateInv, [LabNext]_labVars PROVE DuplicateInv'
  OBVIOUS
<1>1. CASE DupMain \/ DupProvider \/ CallFails
  BY <1>1, DuplicateStepInv
<1>2. CASE UNCHANGED dupVars
  BY <1>2, DuplicateIdle
<1> QED
  BY <1>1, <1>2 DEF LabNext, DupNext, labVars

\* What the laboratory of duplicate effects confirms happened: the provider
\* processed both unsafe requests, each with an effect of its own, and the
\* protected retry got the effect of the protected first attempt.
THEOREM DuplicatesHappened == LabSpec => []ConfirmedDuplicateHappened
<1>1. DuplicateInv => ConfirmedDuplicateHappened
  <2> SUFFICES ASSUME DuplicateInv, evidence # Missing, EffectConfirmed
               PROVE  DuplicateHappened
    BY DEF ConfirmedDuplicateHappened
  <2>1. /\ evidence.attempts[1].outcome = "timeout"
        /\ \A call \in {1, 2} : \E e \in UnsafeEffects(evidence) : e.call = call
        /\ evidence.attempts[3].committed
        /\ evidence.attempts[4].outcome = "success"
    BY DuplicateProfileReads DEF EffectConfirmed
  <2>2. /\ dupAt = "done" /\ dupCall = 4 /\ evidence.attempts = attempts
        /\ \A e \in evidence.effects : \E k \in DOMAIN effects : e = effects[k]
    BY DEF DuplicateInv, EvidenceInv
  <2>3. \A call \in {1, 2} : \E k \in DOMAIN effects : effects[k].call = call
    BY <2>1, <2>2 DEF UnsafeEffects
  <2>4. answers[1].id # answers[2].id
    BY <2>3 DEF DuplicateInv, ProviderInv
  <2>5. PICK k \in DOMAIN effects : effects[k].call = 3
    BY <2>1, <2>2 DEF DuplicateInv, AttemptInv, HasRecorded, Calls
  <2>6. requests[4] = "processed"
    BY <2>1, <2>2 DEF DuplicateInv, AttemptInv, HasRecorded, Calls
  <2>7. IsProtected(3) /\ IsProtected(4) /\ 4 \in Calls
    BY DEF IsProtected, Calls
  <2>8. answers[4].deduplicated /\ answers[4].id = k
    BY <2>5, <2>6, <2>7 DEF DuplicateInv, ProviderInv
  <2>9. answers[3].id = k
    BY <2>5 DEF DuplicateInv, ProviderInv
  <2> QED
    BY <2>1, <2>2, <2>4, <2>8, <2>9 DEF DuplicateHappened
<1> QED
  BY <1>1, DuplicateInitInv, DuplicateNextInv, PTL DEF LabSpec

-----------------------------------------------------------------------------
(***************************************************************************)
(* The concrete deadlock laboratory: a confirmed deadlock happened.        *)
(***************************************************************************)

\* A participant and the execution it is bound to.
Ran(p, e) == p.execution = e.id /\ p.trace = e.trace /\ p.symbol = e.symbol

IsMatched == XRayIsValid(specs.static, specs.runtime) /\ Matched(specs.static, specs.runtime) # {}

\* In a matched pair of documents the two sides are those of one pair of lock orders.
LEMMA Sides ==
  ASSUME IsMatched
  PROVE  \E c \in Preconditions(specs.static.orders) :
           /\ MatchingOverlaps(c, specs.runtime) # {}
           /\ Side(TRUE) = c.left /\ Side(FALSE) = c.right
<1>1. \E c \in Preconditions(specs.static.orders) : MatchingOverlaps(c, specs.runtime) # {}
  BY DEF IsMatched, Matched
<1> QED
  BY <1>1 DEF Side

\* The execution bound to a side is one of the runtime document, of that side's code.
LEMMA ExecutionRan ==
  ASSUME IsMatched, NEW s \in Session
  PROVE  /\ ExecutionOf(s) \in specs.runtime.executions
         /\ ExecutionOf(s).symbol = Side(s = "A").path
<1>1. PICK c \in Preconditions(specs.static.orders) :
        /\ MatchingOverlaps(c, specs.runtime) # {}
        /\ Side(TRUE) = c.left /\ Side(FALSE) = c.right
  BY Sides
<1>2. Side(s = "A").path \in Paths(c)
  <2>1. Side(s = "A") = Side(TRUE) \/ Side(s = "A") = Side(FALSE)
    BY DEF Side
  <2> QED
    BY <1>1, <2>1 DEF Paths
<1>3. \E o \in specs.runtime.overlaps : o.symbols = {Side(TRUE).path, Side(FALSE).path}
  BY <1>1 DEF MatchingOverlaps, Paths
<1> DEFINE overlap == CHOOSE o \in specs.runtime.overlaps :
                        o.symbols = {Side(TRUE).path, Side(FALSE).path}
<1>4. overlap \in specs.runtime.overlaps /\ overlap.symbols = Paths(c)
  BY <1>1, <1>3 DEF Paths
<1> HIDE DEF overlap
<1>5. PICK e, f \in specs.runtime.executions :
        overlap.executions = {e.id, f.id} /\ overlap.symbols = {e.symbol, f.symbol}
  BY <1>4 DEF IsMatched, XRayIsValid, DocumentIsValid
<1>6. \E g \in specs.runtime.executions :
        g.id \in overlap.executions /\ g.symbol = Side(s = "A").path
  BY <1>2, <1>4, <1>5
<1> QED
  BY <1>6 DEF ExecutionOf, overlap

\* The binding of a side depends on the two documents alone.
LEMMA SpecsStay ==
  ASSUME NEW s, UNCHANGED specs
  PROVE  ExecutionOf(s)' = ExecutionOf(s)
BY DEF ExecutionOf, Side

-----------------------------------------------------------------------------
WorkInv ==
  /\ DOMAIN work = Session
  /\ \A s \in Session : DOMAIN work[s] = {"program", "at", "seen", "outcome"}
  /\ lab = "concrete" => \A s \in Session :
       work[s].outcome = "deadlock_aborted" => \E h \in Deadlocks : h.session = s

SpecsInv ==
  lab = "concrete" =>
    /\ specs.static \in Contracts /\ specs.runtime \in RuntimeDocs
    /\ main \notin {"off", "start", "failed"} => IsMatched

PublishedInv ==
  /\ published # {} => lab = "concrete"
  /\ \A d \in Correlations :
       /\ d.incident = specs.runtime.incident /\ d.revision = specs.static.revision
       /\ \E h \in Deadlocks :
            d.victim.pid = h.session /\ d.victim.execution = ExecutionOf(h.session).id
       /\ \A p \in d.participants : p.pid \in Session /\ Ran(p, ExecutionOf(p.pid))
       /\ \A s \in Session : \E p \in d.participants : p.pid = s

TxInv == WorkInv /\ SpecsInv /\ PublishedInv

\* Nothing is bound, run or published at the start.
LEMMA TxInitInv == LabInit => TxInv
<1> SUFFICES ASSUME LabInit PROVE TxInv
  OBVIOUS
<1>1. TxInit
  BY DEF LabInit
<1>2. WorkInv
  BY <1>1, TwoSessions DEF TxInit, WorkInv, Started, Pair
<1>3. SpecsInv
  BY <1>1 DEF TxInit, SpecsInv, TransactionLab
<1>4. PublishedInv
  BY <1>1 DEF TxInit, PublishedInv, Correlations
<1> QED
  BY <1>2, <1>3, <1>4 DEF TxInv

\* A published document stays true while the history only grows.
LEMMA PublishedStays ==
  ASSUME PublishedInv, UNCHANGED <<lab, specs, published>>, history \subseteq history'
  PROVE  PublishedInv'
<1>1. \A s : ExecutionOf(s)' = ExecutionOf(s)
  BY SpecsStay
<1>2. Deadlocks \subseteq Deadlocks' /\ Correlations' = Correlations
  BY DEF Deadlocks, Correlations
<1> QED
  BY <1>1, <1>2 DEF PublishedInv, Ran

\* Documents once matched stay matched until the laboratory fails.
LEMMA SpecsStayMatched ==
  ASSUME SpecsInv, UNCHANGED <<lab, specs>>,
         main' \notin {"off", "start", "failed"} => main \notin {"off", "start", "failed"}
  PROVE  SpecsInv'
BY DEF SpecsInv, IsMatched, Matched

\* The steps of the other laboratories leave the sessions alone.
LEMMA TxIdle == TxInv /\ UNCHANGED <<lab, txVars>> => TxInv'
<1> SUFFICES ASSUME TxInv, UNCHANGED <<lab, txVars>> PROVE TxInv'
  OBVIOUS
<1>1. WorkInv'
  BY DEF TxInv, WorkInv, txVars, Deadlocks
<1>2. SpecsInv' /\ PublishedInv'
  BY SpecsStayMatched, PublishedStays DEF TxInv, txVars
<1> QED
  BY <1>1, <1>2 DEF TxInv

\* A step of a session keeps the invariant if it claims a deadlock only after the server
\* reported one.
LEMMA SessionInv ==
  ASSUME TxInv, NEW s \in Session, UNCHANGED <<lab, main, specs, published>>,
         history \subseteq history',
         \/ UNCHANGED work
         \/ Advances(s)
         \/ \E seen : work' = [work EXCEPT ![s].at = @ + 1, ![s].seen = seen]
         \/ \E outcome :
              /\ Ends(s, outcome)
              /\ lab = "concrete" /\ outcome = "deadlock_aborted" =>
                   \E h \in Deadlocks' : h.session = s
  PROVE  TxInv'
<1>1. SpecsInv' /\ PublishedInv'
  BY SpecsStayMatched, PublishedStays DEF TxInv
<1>2. DOMAIN work' = Session /\ \A t \in Session : DOMAIN work'[t] = {"program", "at", "seen", "outcome"}
  BY DEF TxInv, WorkInv, Advances, Ends
<1>3. Deadlocks \subseteq Deadlocks'
  BY DEF Deadlocks
<1>4. lab = "concrete" => \A t \in Session :
        work'[t].outcome = "deadlock_aborted" => \E h \in Deadlocks' : h.session = t
  <2>1. CASE UNCHANGED work
    BY <1>3, <2>1 DEF TxInv, WorkInv
  <2>2. CASE Advances(s) \/ \E seen : work' = [work EXCEPT ![s].at = @ + 1, ![s].seen = seen]
    <3>1. \A t \in Session : work'[t].outcome = work[t].outcome
      BY <2>2 DEF TxInv, WorkInv, Advances
    <3> QED
      BY <1>3, <3>1 DEF TxInv, WorkInv
  <2>3. ASSUME NEW outcome, Ends(s, outcome),
               lab = "concrete" /\ outcome = "deadlock_aborted" => \E h \in Deadlocks' : h.session = s
        PROVE  lab = "concrete" => \A t \in Session :
                 work'[t].outcome = "deadlock_aborted" => \E h \in Deadlocks' : h.session = t
    <3>1. work'[s].outcome = outcome /\ \A t \in Session \ {s} : work'[t] = work[t]
      BY <2>3 DEF TxInv, WorkInv, Ends
    <3> QED
      BY <1>3, <2>3, <3>1 DEF TxInv, WorkInv
  <2> QED
    BY <2>1, <2>2, <2>3
<1> QED
  BY <1>1, <1>2, <1>4 DEF TxInv, WorkInv

\* Only the server's 40P01 is recorded as an abort by deadlock.
LEMMA AbortsAreDeadlocks ==
  ASSUME lab = "concrete", NEW error, OutcomeOf(error) = "deadlock_aborted"
  PROVE  error = "40P01"
BY DEF OutcomeOf

\* A session that fails of anything else claims no deadlock.
LEMMA FailedInv ==
  ASSUME TxInv, NEW s \in Session, NEW error, error # "40P01", Fails(s, error),
         UNCHANGED <<lab, main, specs, published, history>>
  PROVE  TxInv'
BY AbortsAreDeadlocks, SessionInv DEF Fails

\* Each statement of a session, and what the server answers, is such a step.
LEMMA SessionStepInv ==
  ASSUME TxInv, NEW s \in Session,
         Steps(s) \/ Reads(s) \/ Writes(s) \/ Commits(s) \/ Detects(s) \/ Meets(s) \/ Faulty(s)
  PROVE  TxInv'
<1>1. CASE Steps(s)
  BY <1>1, SessionInv DEF Steps
<1>2. CASE Reads(s)
  BY <1>2, SessionInv DEF Reads
<1>3. CASE Writes(s)
  <2>1. CASE Fails(s, "40001") /\ UNCHANGED history
    BY <1>3, <2>1, FailedInv DEF Writes
  <2>2. CASE Notes("waited", s) /\ UNCHANGED work
    BY <1>3, <2>2, SessionInv DEF Writes, Notes
  <2>3. CASE Advances(s) /\ UNCHANGED history
    BY <1>3, <2>3, SessionInv DEF Writes
  <2> QED
    BY <1>3, <2>1, <2>2, <2>3 DEF Writes
<1>4. CASE Commits(s)
  <2>1. CASE Fails(s, "40001") /\ UNCHANGED history
    BY <1>4, <2>1, FailedInv DEF Commits
  <2>2. CASE Ends(s, "committed")
    <3>1. history \subseteq history'
      BY <1>4, <2>2 DEF Commits, Notes
    <3>2. UNCHANGED <<lab, main, specs, published>>
      BY <1>4 DEF Commits
    <3>3. \E outcome :
            /\ Ends(s, outcome)
            /\ lab = "concrete" /\ outcome = "deadlock_aborted" =>
                 \E h \in Deadlocks' : h.session = s
      BY <2>2
    <3> QED
      BY <3>1, <3>2, <3>3, SessionInv
  <2> QED
    BY <1>4, <2>1, <2>2 DEF Commits
<1>5. CASE Detects(s)
  <2>1. \E h \in Deadlocks' : h.session = s
    <3> DEFINE h == [phase |-> phase, what |-> "deadlocked", session |-> s]
    <3>1. h \in history' /\ h.what = "deadlocked" /\ h.session = s
      BY <1>5 DEF Detects, Notes
    <3> QED
      BY <3>1 DEF Deadlocks
  <2> QED
    BY <1>5, <2>1, SessionInv DEF Detects, Notes, Fails
<1>6. CASE Meets(s)
  <2>1. CASE Fails(s, "meet")
    BY <1>6, <2>1, FailedInv DEF Meets
  <2>2. CASE UNCHANGED work \/ Advances(s)
    BY <1>6, <2>2, SessionInv DEF Meets
  <2> QED
    BY <1>6, <2>1, <2>2 DEF Meets
<1>7. CASE Faulty(s)
  <2>1. Fails(s, "connect") \/ Fails(s, "other")
    BY <1>7 DEF Faulty
  <2> QED
    BY <1>7, <2>1, FailedInv DEF Faulty
<1> QED
  BY <1>1, <1>2, <1>3, <1>4, <1>5, <1>6, <1>7

-----------------------------------------------------------------------------
\* Main goes on from one place to another, without a hand in the sessions.
LEMMA GoesOnInv ==
  ASSUME TxInv, UNCHANGED <<lab, work, history, specs, published>>,
         \/ main' = "failed" \/ main' = main
         \/ main \notin {"off", "start", "failed"}
  PROVE  TxInv'
<1>1. SpecsInv' /\ PublishedInv'
  BY SpecsStayMatched, PublishedStays DEF TxInv
<1>2. WorkInv'
  BY DEF TxInv, WorkInv, Deadlocks
<1> QED
  BY <1>1, <1>2 DEF TxInv

\* New programs for both sessions.
LEMMA StartedWork ==
  ASSUME NEW run
  PROVE  /\ DOMAIN Started(run) = Session
         /\ \A s \in Session :
              /\ DOMAIN Started(run)[s] = {"program", "at", "seen", "outcome"}
              /\ Started(run)[s].outcome # "deadlock_aborted"
BY DEF Started

\* A laboratory starts both sessions on fresh programs.
LEMMA StartsInv ==
  ASSUME TxInv, StartsConcrete \/ StartsProbe
  PROVE  TxInv'
<1>1. PublishedInv'
  BY PublishedStays DEF TxInv, StartsConcrete, StartsProbe
<1>2. CASE main' = "failed"
  BY <1>1, <1>2, GoesOnInv DEF StartsConcrete, StartsProbe
<1>3. CASE main' # "failed"
  <2>1. WorkInv'
    BY <1>3, StartedWork DEF StartsConcrete, StartsProbe, WorkInv
  <2>2. SpecsInv'
    <3>1. CASE lab = "concrete"
      <4>1. Cardinality(Matched(specs.static, specs.runtime)) = 1
        BY <1>3, <3>1 DEF StartsConcrete, StartsProbe
      <4>2. \A S : S = {} => Cardinality(S) = 0
        BY FS_EmptySet, Zenon
      <4>3. Matched(specs.static, specs.runtime) # {}
        BY <4>1, <4>2
      <4> QED
        BY <1>3, <3>1, <4>3 DEF StartsConcrete, StartsProbe, TxInv, SpecsInv, IsMatched, Matched
    <3>2. CASE lab # "concrete"
      BY <3>2 DEF StartsConcrete, StartsProbe, SpecsInv
    <3> QED
      BY <3>1, <3>2
  <2> QED
    BY <1>1, <2>1, <2>2 DEF TxInv
<1> QED
  BY <1>2, <1>3

\* The session that the correlation names as the victim is one the detector aborted,
\* and its participants are those of the overlap of the incident.
LEMMA PublishesInv ==
  ASSUME TxInv, Publishes
  PROVE  TxInv'
<1>1. CASE main' = "failed"
  BY <1>1, GoesOnInv DEF Publishes
<1>2. CASE main' = "done"
  <2>1. /\ lab = "concrete" /\ main = "join" /\ published' = {Correlation, Evidence}
        /\ {work[s].outcome : s \in Session} = {"deadlock_aborted", "committed"}
        /\ UNCHANGED <<lab, work, history, specs>>
    BY <1>2 DEF Publishes
  <2>2. WorkInv' /\ SpecsInv'
    BY <1>2, <2>1, SpecsStayMatched DEF TxInv, WorkInv, Deadlocks
  <2>3. IsMatched
    BY <2>1 DEF TxInv, SpecsInv
  <2>4. Correlations' = {Correlation}
    BY <2>1 DEF Correlations, Correlation, Evidence
  <2>5. Deadlocks' = Deadlocks /\ specs' = specs /\ \A s : ExecutionOf(s)' = ExecutionOf(s)
    BY <2>1, SpecsStay DEF Deadlocks
  <2>6. \E h \in Deadlocks :
          /\ Correlation.victim.pid = h.session
          /\ Correlation.victim.execution = ExecutionOf(h.session).id
    <3> DEFINE victim == CHOOSE s \in Session : work[s].outcome = "deadlock_aborted"
    <3>1. victim \in Session /\ work[victim].outcome = "deadlock_aborted"
      BY <2>1
    <3>2. Correlation.victim = [pid |-> victim, execution |-> ExecutionOf(victim).id]
      BY DEF Correlation
    <3> HIDE DEF victim
    <3>3. PICK h \in Deadlocks : h.session = victim
      BY <2>1, <3>1 DEF TxInv, WorkInv
    <3> QED
      BY <3>2, <3>3
  <2>7. Correlation.participants = {Participant(s) : s \in Session}
    BY DEF Correlation
  <2>8. \A s \in Session : Participant(s).pid = s /\ Ran(Participant(s), ExecutionOf(s))
    BY <2>3, ExecutionRan DEF Participant, Ran
  <2>9. /\ Correlation.incident = specs.runtime.incident
        /\ Correlation.revision = specs.static.revision
    BY DEF Correlation
  <2>10. PublishedInv'
    <3>1. \A p \in Correlation.participants : p.pid \in Session /\ Ran(p, ExecutionOf(p.pid))
      BY <2>7, <2>8
    <3>2. \A s \in Session : \E p \in Correlation.participants : p.pid = s
      BY <2>7, <2>8
    <3> QED
      BY <2>1, <2>4, <2>5, <2>6, <2>9, <3>1, <3>2 DEF PublishedInv, Ran
  <2> QED
    BY <2>2, <2>10 DEF TxInv
<1> QED
  BY <1>1, <1>2 DEF Publishes

\* Between two phases of a probe nothing of the concrete laboratory changes.
LEMMA EndsPhaseInv ==
  ASSUME TxInv, EndsPhase
  PROVE  TxInv'
<1>1. lab # "concrete" /\ UNCHANGED <<lab, history, specs, published>>
  BY DEF EndsPhase
<1>2. PublishedInv'
  BY <1>1, PublishedStays DEF TxInv
<1>3. SpecsInv'
  BY <1>1 DEF SpecsInv
<1>4. WorkInv'
  BY <1>1, StartedWork DEF EndsPhase, TxInv, WorkInv
<1> QED
  BY <1>2, <1>3, <1>4 DEF TxInv

\* Every step of a laboratory keeps what its documents rest on.
LEMMA TxNextInv == TxInv /\ [LabNext]_labVars => TxInv'
<1> SUFFICES ASSUME TxInv, [LabNext]_labVars PROVE TxInv'
  OBVIOUS
<1>1. CASE TxSessionStep \/ \E s \in Session : Faulty(s)
  BY <1>1, SessionStepInv DEF TxSessionStep
<1>2. CASE StartsConcrete \/ StartsProbe
  BY <1>2, StartsInv
<1>3. CASE Ready
  BY <1>3, GoesOnInv DEF Ready
<1>4. CASE Released
  BY <1>4, GoesOnInv DEF Released
<1>5. CASE Monitors
  BY <1>5, GoesOnInv DEF Monitors
<1>6. CASE TimesOut
  BY <1>6, GoesOnInv DEF TimesOut
<1>7. CASE Observes
  BY <1>7, GoesOnInv DEF Observes
<1>8. CASE Publishes
  BY <1>8, PublishesInv
<1>9. CASE EndsPhase
  BY <1>9, EndsPhaseInv
<1>10. CASE \E name \in DOMAIN Unmet : Breaks(name)
  BY <1>10, GoesOnInv DEF Breaks
<1>11. CASE UNCHANGED <<lab, txVars>>
  BY <1>11, TxIdle
<1> QED
  BY <1>1, <1>2, <1>3, <1>4, <1>5, <1>6, <1>7, <1>8, <1>9, <1>10, <1>11
  DEF LabNext, TxNext, TxMain, labVars

-----------------------------------------------------------------------------
\* The pairs of opposing orders bind both of their code paths.
CodesBound(pairs) == \A s \in pairs : {"codeLeft", "codeRight"} \subseteq DOMAIN s

\* The profile's static stage binds the code of both sides.
LEMMA StaticPairsBind == ASSUME NEW static PROVE CodesBound(StaticPairs(static))
<1> SUFFICES ASSUME NEW s \in StaticPairs(static)
             PROVE  {"codeLeft", "codeRight"} \subseteq DOMAIN s
  BY DEF CodesBound
<1> DEFINE orders == {static.orders[i] : i \in DOMAIN static.orders}
           left == Clause({NoBinding}, orders, LAMBDA t, o : TRUE,
                LAMBDA o : [factLeft |-> o.id, a |-> o.subject, b |-> o.object,
                            codeLeft |-> o.path, txLeft |-> o.transaction])
<1>1. \A t \in left : "codeLeft" \in DOMAIN t
  BY ZenonT(60) DEF Clause, Extended
<1>2. \E t \in left, o \in orders :
        s = Extended(t, [factRight |-> o.id, codeRight |-> o.path, txRight |-> o.transaction])
  BY DEF StaticPairs, Constrained, Clause
<1> HIDE DEF left, orders
<1> QED
  BY <1>1, <1>2 DEF Extended

\* The overlap stage keeps these bindings,
LEMMA OverlappingPairsBind ==
  ASSUME NEW pairs, NEW runtime, CodesBound(pairs)
  PROVE  CodesBound(OverlappingPairs(pairs, runtime))
<1> SUFFICES ASSUME NEW s \in OverlappingPairs(pairs, runtime)
             PROVE  {"codeLeft", "codeRight"} \subseteq DOMAIN s
  BY DEF CodesBound
<1>1. \E t \in pairs : \E bound : s = Extended(t, bound)
  BY DEF OverlappingPairs, Constrained, Clause
<1> QED
  BY <1>1 DEF CodesBound, Extended

\* and so does the stage that reads the canonical observation.
LEMMA ReportedBind ==
  ASSUME NEW pairs, NEW canonical, NEW observation, CodesBound(pairs)
  PROVE  CodesBound(Reported(pairs, canonical, observation))
BY DEF CodesBound, Reported, Requires

\* A solution names two executions by their codes.
ExecutionsBound(s, runtime) ==
  /\ {"codeLeft", "codeRight", "left", "traceLeft", "right", "traceRight"} \subseteq DOMAIN s
  /\ \E e \in runtime.executions :
       s.left = e.id /\ s.traceLeft = e.trace /\ s.codeLeft = e.symbol
  /\ \E e \in runtime.executions :
       s.right = e.id /\ s.traceRight = e.trace /\ s.codeRight = e.symbol

\* The execution stage adds an execution of the runtime document per side.
LEMMA BoundExecutionsBind ==
  ASSUME NEW pairs, NEW runtime, CodesBound(pairs), NEW s \in BoundExecutions(pairs, runtime)
  PROVE  runtime # Missing /\ ExecutionsBound(s, runtime)
<1> DEFINE executions == RowsOf(runtime, LAMBDA d : d.executions)
           left == Clause(pairs, executions, LAMBDA t, e : e.symbol = t.codeLeft,
                          LAMBDA e : [left |-> e.id, traceLeft |-> e.trace])
<1>1. \A t \in left : \E u \in pairs, e \in executions :
        /\ e.symbol = u.codeLeft /\ Agrees(u, [left |-> e.id, traceLeft |-> e.trace])
        /\ t = Extended(u, [left |-> e.id, traceLeft |-> e.trace])
  BY DEF Clause
<1>2. \E t \in left, e \in executions :
        /\ e.symbol = t.codeRight /\ Agrees(t, [right |-> e.id, traceRight |-> e.trace])
        /\ s = Extended(t, [right |-> e.id, traceRight |-> e.trace])
  BY DEF BoundExecutions, Clause
<1>3. runtime # Missing /\ executions = runtime.executions
  BY <1>2 DEF RowsOf
<1> HIDE DEF left, executions
<1>4. \A t \in left :
        /\ {"codeLeft", "codeRight", "left", "traceLeft"} \subseteq DOMAIN t
        /\ \E e \in runtime.executions :
             t.left = e.id /\ t.traceLeft = e.trace /\ t.codeLeft = e.symbol
  <2> TAKE t \in left
  <2>1. PICK u \in pairs, e \in runtime.executions :
          /\ e.symbol = u.codeLeft /\ Agrees(u, [left |-> e.id, traceLeft |-> e.trace])
          /\ t = Extended(u, [left |-> e.id, traceLeft |-> e.trace])
    BY <1>1, <1>3
  <2>2. {"codeLeft", "codeRight"} \subseteq DOMAIN u
    BY DEF CodesBound
  <2>3. /\ {"codeLeft", "codeRight", "left", "traceLeft"} \subseteq DOMAIN t
        /\ t.left = e.id /\ t.traceLeft = e.trace /\ t.codeLeft = u.codeLeft
    BY <2>1, <2>2 DEF Agrees, Extended
  <2> QED
    BY <2>1, <2>3
<1> QED
  BY <1>2, <1>3, <1>4 DEF ExecutionsBound, Agrees, Extended

\* A solution names two participants that are bound to its executions.
BackendsBound(s, runtime, correlation) ==
  /\ {"pidLeft", "pidRight"} \subseteq DOMAIN s
  /\ \E p \in correlation.participants, e \in runtime.executions : s.pidLeft = p.pid /\ Ran(p, e)
  /\ \E p \in correlation.participants, e \in runtime.executions : s.pidRight = p.pid /\ Ran(p, e)

\* The correlation stage adds the backend of each of these executions.
LEMMA BoundBackendsBind ==
  ASSUME NEW pairs, NEW runtime, NEW correlation, \A t \in pairs : ExecutionsBound(t, runtime),
         NEW s \in BoundBackends(pairs, correlation)
  PROVE  correlation # Missing /\ BackendsBound(s, runtime, correlation)
<1> DEFINE participants == RowsOf(correlation, LAMBDA d : d.participants)
           left == Clause(pairs, participants,
                LAMBDA t, p : /\ p.execution = t.left /\ p.trace = t.traceLeft
                              /\ p.symbol = t.codeLeft /\ p.transaction = t.txLeft
                              /\ p.order = <<t.a, t.b>>,
                LAMBDA p : [pidLeft |-> p.pid])
<1>1. \A t \in left : \E u \in pairs, p \in participants :
        /\ p.execution = u.left /\ p.trace = u.traceLeft /\ p.symbol = u.codeLeft
        /\ Agrees(u, [pidLeft |-> p.pid])
        /\ t = Extended(u, [pidLeft |-> p.pid])
  BY DEF Clause
<1>2. \E t \in left, p \in participants :
        /\ p.execution = t.right /\ p.trace = t.traceRight /\ p.symbol = t.codeRight
        /\ Agrees(t, [pidRight |-> p.pid])
        /\ s = Extended(t, [pidRight |-> p.pid])
  BY DEF BoundBackends, Clause
<1>3. correlation # Missing /\ participants = correlation.participants
  BY <1>2 DEF RowsOf
<1> HIDE DEF left, participants
<1>4. \A t \in left :
        /\ {"pidLeft", "codeRight", "right", "traceRight"} \subseteq DOMAIN t
        /\ \E p \in correlation.participants, e \in runtime.executions : t.pidLeft = p.pid /\ Ran(p, e)
        /\ \E e \in runtime.executions :
             t.right = e.id /\ t.traceRight = e.trace /\ t.codeRight = e.symbol
  <2> TAKE t \in left
  <2>1. PICK u \in pairs, p \in correlation.participants :
          /\ p.execution = u.left /\ p.trace = u.traceLeft /\ p.symbol = u.codeLeft
          /\ Agrees(u, [pidLeft |-> p.pid])
          /\ t = Extended(u, [pidLeft |-> p.pid])
    BY <1>1, <1>3
  <2>2. ExecutionsBound(u, runtime)
    OBVIOUS
  <2>3. /\ {"pidLeft", "codeRight", "right", "traceRight"} \subseteq DOMAIN t
        /\ t.pidLeft = p.pid /\ t.codeRight = u.codeRight
        /\ t.right = u.right /\ t.traceRight = u.traceRight
    BY <2>1, <2>2 DEF ExecutionsBound, Agrees, Extended
  <2>4. \E e \in runtime.executions : Ran(p, e)
    BY <2>1, <2>2 DEF ExecutionsBound, Ran
  <2> QED
    BY <2>2, <2>3, <2>4 DEF ExecutionsBound
<1> QED
  BY <1>2, <1>3, <1>4 DEF BackendsBound, Agrees, Extended, Ran

\* Two participants with backends of their own are bound to executions.
TwoRan(runtime, correlation) ==
  \E p, q \in correlation.participants :
    /\ p.pid # q.pid
    /\ \E e \in runtime.executions : Ran(p, e)
    /\ \E e \in runtime.executions : Ran(q, e)

\* An exact cycle is between two backends of the solution it extends.
LEMMA ExactCyclesRead ==
  ASSUME NEW pairs, NEW runtime, NEW correlation,
         \A t \in pairs : BackendsBound(t, runtime, correlation),
         ExactCycles(pairs, correlation) # {}
  PROVE  TwoRan(runtime, correlation)
<1>1. PICK s \in ExactCycles(pairs, correlation) : TRUE
  OBVIOUS
<1>2. s.pidLeft # s.pidRight /\ \E t \in pairs : \E bound : s = Extended(t, bound)
  <2> DEFINE cycle == RowsOf(correlation, LAMBDA d : d.edges)
             participants == RowsOf(correlation, LAMBDA d : d.participants)
             there == Requires(pairs, cycle,
                 LAMBDA u, e : /\ e.waiter = u.pidLeft /\ e.blocker = u.pidRight
                               /\ e.waiterExecution = u.left /\ e.blockerExecution = u.right
                               /\ e.resource = u.b)
             back == Requires(there, cycle,
                LAMBDA u, e : /\ e.waiter = u.pidRight /\ e.blocker = u.pidLeft
                              /\ e.waiterExecution = u.right /\ e.blockerExecution = u.left
                              /\ e.resource = u.a)
             victims == Clause(back, RowsOf(correlation, LAMBDA d : {d.victim}),
                   LAMBDA u, v : v.execution \in {u.left, u.right},
                   LAMBDA v : [victim |-> v.execution, victimPid |-> v.pid])
  <2>1. s.pidLeft # s.pidRight /\ s \in victims
    BY <1>1 DEF ExactCycles, Counted, Constrained, Requires
  <2>2. \E t \in back : \E bound : s = Extended(t, bound)
    <3> HIDE DEF back
    <3> QED
      BY <2>1 DEF Clause
  <2>3. back \subseteq pairs
    BY DEF Requires
  <2> HIDE DEF back, victims
  <2> QED
    BY <2>1, <2>2, <2>3
<1>3. PICK t \in pairs : s.pidLeft = t.pidLeft /\ s.pidRight = t.pidRight
  BY <1>2 DEF BackendsBound, Extended
<1> QED
  BY <1>2, <1>3 DEF BackendsBound, TwoRan

\* The d2-1 deadlock profile confirms only documents of one revision and one incident, whose
\* two executions ran on the two backends of the deadlock the server reported.
LEMMA DeadlockProfileReads ==
  ASSUME NEW static, NEW runtime, NEW canonical, NEW correlation,
         DeadlockProfile(static, runtime, canonical, correlation) = "CAUSAL_DIAGNOSIS_CONFIRMED"
  PROVE  /\ SameIdentity({static.revision, runtime.revision, correlation.revision})
         /\ \A v, w \in {runtime.incident, correlation.incident} \ {Missing} : v = w
         /\ TwoRan(runtime, correlation)
<1> DEFINE risky == StaticPairs(static)
           met == OverlappingPairs(risky, runtime)
           waited == Reported(met, canonical, LockWait)
           raised == Reported(waited, canonical, DeadlockError)
           executed == BoundExecutions(raised, runtime)
           backed == BoundBackends(executed, correlation)
           exact == ExactCycles(backed, correlation)
           stages == <<<<"PRECONDITIONS_PRESENT", risky>>, <<"RISK_DETECTED", met>>,
                       <<"CONTENTION_OBSERVED", waited>>, <<"EVENT_OBSERVED", raised>>,
                       <<"CAUSAL_DIAGNOSIS_CONFIRMED", exact>>>>
<1>1. /\ EpistemicState(stages) = "CAUSAL_DIAGNOSIS_CONFIRMED"
      /\ SameIdentity({static.revision} \cup
                      {FieldOf(d, LAMBDA x : x.revision) : d \in {runtime, correlation}})
      /\ SameIdentity({FieldOf(d, LAMBDA x : x.incident) : d \in {runtime, canonical, correlation}})
  BY DEF DeadlockProfile
<1>2. exact # {}
  <2> HIDE DEF risky, met, waited, raised, exact
  <2>1. DOMAIN stages = 1 .. 5 /\ stages[5][1] = "CAUSAL_DIAGNOSIS_CONFIRMED"
    OBVIOUS
  <2>2. \A i, j \in 1 .. 5 : stages[i][1] = stages[j][1] => i = j
    OBVIOUS
  <2>3. \A i \in 1 .. 5 : stages[i][2] # {}
    <3> HIDE DEF stages
    <3>1. \A n \in Nat \ {0} :
            /\ DOMAIN stages = 1 .. n /\ stages[n][1] # "UNKNOWN"
            /\ \A i, j \in 1 .. n : stages[i][1] = stages[j][1] => i = j
            /\ EpistemicState(stages) = stages[n][1]
            => \A j \in 1 .. n : stages[j][2] # {}
      BY LastStage
    <3> QED
      BY <1>1, <2>1, <2>2, <3>1
  <2> QED
    BY <2>3
<1> HIDE DEF stages
<1>3. CodesBound(raised)
  BY StaticPairsBind, OverlappingPairsBind, ReportedBind
<1> HIDE DEF risky, met, waited, raised
<1>4. \A s \in executed : runtime # Missing /\ ExecutionsBound(s, runtime)
  BY <1>3, BoundExecutionsBind
<1> HIDE DEF executed
<1>5. \A s \in backed : correlation # Missing /\ BackendsBound(s, runtime, correlation)
  BY <1>4, BoundBackendsBind
<1> HIDE DEF backed
<1>6. TwoRan(runtime, correlation)
  BY <1>2, <1>5, ExactCyclesRead
<1>7. backed # {} /\ executed # {}
  <2>1. backed # {}
    BY <1>2 DEF exact, ExactCycles, Counted, Constrained, Requires, Clause
  <2>2. executed # {}
    BY <2>1 DEF backed, BoundBackends, Clause
  <2> QED
    BY <2>1, <2>2
<1>8. runtime # Missing /\ correlation # Missing
  BY <1>4, <1>5, <1>7
<1>9. SameIdentity({static.revision, runtime.revision, correlation.revision})
  <2>1. {static.revision} \cup {FieldOf(d, LAMBDA x : x.revision) : d \in {runtime, correlation}}
          = {static.revision, runtime.revision, correlation.revision}
    BY <1>8 DEF FieldOf
  <2> QED
    BY <1>1, <2>1
<1>10. \A v, w \in {runtime.incident, correlation.incident} \ {Missing} : v = w
  <2>1. {runtime.incident, correlation.incident} \subseteq
          {FieldOf(d, LAMBDA x : x.incident) : d \in {runtime, canonical, correlation}}
    BY <1>8 DEF FieldOf
  <2> QED
    BY <1>1, <2>1 DEF SameIdentity
<1> QED
  BY <1>6, <1>9, <1>10

\* The invariant leaves no confirmation without a deadlock that happened.
LEMMA TxConcluded == TxInv => ConfirmedDeadlockHappened
<1> SUFFICES ASSUME TxInv,
                    NEW correlation \in Correlations, NEW static \in Contracts,
                    NEW runtime \in RuntimeDocs,
                    \/ \E some \in SUBSET Canonicals :
                         Confirms(static, runtime,
                                  DatabaseProjection(static, runtime, some), correlation)
                    \/ \E one \in Canonicals :
                         DeadlockProfile(static, runtime, one, correlation)
                           = "CAUSAL_DIAGNOSIS_CONFIRMED"
             PROVE  DeadlockHappened(runtime, correlation)
  BY DEF ConfirmedDeadlockHappened
<1>1. /\ correlation.incident = specs.runtime.incident
      /\ correlation.revision = specs.static.revision
      /\ \E h \in Deadlocks :
           /\ correlation.victim.pid = h.session
           /\ correlation.victim.execution = ExecutionOf(h.session).id
      /\ \A p \in correlation.participants : p.pid \in Session /\ Ran(p, ExecutionOf(p.pid))
      /\ \A s \in Session : \E p \in correlation.participants : p.pid = s
  BY DEF TxInv, PublishedInv
<1>2. /\ specs.static.revision # Missing /\ runtime.revision # Missing
      /\ specs.runtime.incident # Missing /\ runtime.incident # Missing
  BY DocumentsAreNamed DEF TxInv, SpecsInv, PublishedInv, Correlations
<1>3. \A p, e : Ran(p, ExecutionOf(p.pid)) /\ Ran(p, e) => SameExecution(e, ExecutionOf(p.pid))
  BY DEF Ran, SameExecution
<1>4. CASE \E some \in SUBSET Canonicals :
             Confirms(static, runtime, DatabaseProjection(static, runtime, some), correlation)
  <2>1. PICK projection : Confirms(static, runtime, projection, correlation)
    BY <1>4
  <2>2. /\ correlation.incident = runtime.incident /\ correlation.revision = static.revision
        /\ runtime.revision = static.revision
    BY <2>1 DEF Confirms, RequireSameIdentity
  <2>3. \A p \in correlation.participants : \E e \in runtime.executions : Ran(p, e)
    BY <2>1 DEF Confirms, RuntimeBindings, Ran
  <2> QED
    BY <1>1, <1>3, <2>2, <2>3 DEF DeadlockHappened
<1>5. CASE \E one \in Canonicals :
             DeadlockProfile(static, runtime, one, correlation) = "CAUSAL_DIAGNOSIS_CONFIRMED"
  <2>1. PICK one \in Canonicals :
          DeadlockProfile(static, runtime, one, correlation) = "CAUSAL_DIAGNOSIS_CONFIRMED"
    BY <1>5
  <2>2. /\ SameIdentity({static.revision, runtime.revision, correlation.revision})
        /\ \A v, w \in {runtime.incident, correlation.incident} \ {Missing} : v = w
        /\ TwoRan(runtime, correlation)
    BY <2>1, DeadlockProfileReads
  <2>3. correlation.incident = runtime.incident /\ correlation.revision = runtime.revision
    BY <1>1, <1>2, <2>2 DEF SameIdentity
  <2>4. PICK p, q \in correlation.participants :
          /\ p.pid # q.pid
          /\ \E e \in runtime.executions : Ran(p, e)
          /\ \E e \in runtime.executions : Ran(q, e)
    BY <2>2 DEF TwoRan
  <2>5. \A s \in Session : s = p.pid \/ s = q.pid
    BY <1>1, <2>4, TwoSessions
  <2>6. \A s \in Session : \E e \in runtime.executions : SameExecution(e, ExecutionOf(s))
    BY <1>1, <1>3, <2>4, <2>5
  <2> QED
    BY <1>1, <2>3, <2>6 DEF DeadlockHappened
<1> QED
  BY <1>4, <1>5

\* A deadlock is confirmed, by the dedicated chain or by the profile, only for the
\* incident, the revision and the executions whose replay the database aborted.
THEOREM DeadlocksHappened == LabSpec => []ConfirmedDeadlockHappened
BY TxInitInv, TxNextInv, TxConcluded, PTL DEF LabSpec

-----------------------------------------------------------------------------
(***************************************************************************)
(* The experiments about the pool, admission and connections: what each of *)
(* them supports, its intervention has met.                                *)
(***************************************************************************)

\* The experiment about the pool ends with what it measured.
MeasuredInv ==
  poolAt = "done" =>
    /\ "wait" \in DOMAIN poolEvidence.asserts
    /\ poolEvidence.asserts.wait => \E i \in During : samples[i].wait

\* An assertion made of most samples of the run has a sample that shows it.
LEMMA MostlySome ==
  ASSUME samples \in Seq(PoolSamples), NEW all, Assertions(all).wait
  PROVE  \E i \in During : samples[i].wait
<1>1. Assertions(all).wait = Mostly(During, LAMBDA s : s.wait)
  BY DEF Assertions
<1> DEFINE slow == {i \in During : samples[i].wait}
<1>2. 2 * Cardinality(slow) > Cardinality(During)
  BY <1>1 DEF Mostly
<1>3. IsFiniteSet(During) /\ Cardinality(During) \in Nat
  <2>1. During \in SUBSET (1 .. Len(samples)) /\ Len(samples) \in Int
    BY DEF During
  <2>0. IsFiniteSet(1 .. Len(samples))
    BY <2>1, FS_Interval
  <2>2. \A S : IsFiniteSet(S) => \A T \in SUBSET S : IsFiniteSet(T)
    BY FS_Subset, Zenon
  <2>3. IsFiniteSet(During)
    BY <2>0, <2>1, <2>2, Zenon
  <2> QED
    BY <2>3, FS_CardinalityType
<1> HIDE DEF slow
<1>4. slow = {} => Cardinality(slow) = 0
  BY FS_EmptySet, Zenon
<1>5. slow # {}
  BY <1>2, <1>3, <1>4
<1> QED
  BY <1>5 DEF slow

\* No pool document exists at the start.
LEMMA MeasuredInitInv == LabInit => MeasuredInv
BY DEF LabInit, PoolInit, MeasuredInv

\* The pool's document is written from the samples and never changed after.
LEMMA MeasuredNextInv == PoolInv /\ MeasuredInv /\ [LabNext]_labVars => MeasuredInv'
<1> SUFFICES ASSUME PoolInv, MeasuredInv, [LabNext]_labVars PROVE MeasuredInv'
  OBVIOUS
<1>1. CASE UNCHANGED appVars
  BY <1>1 DEF appVars, MeasuredInv, During, Wanted, IsTraced
<1>2. CASE Recovers
  <2>1. PICK query \in BOOLEAN :
          samples' = Append(samples, [query |-> query]) /\ poolEvidence' = PoolEvidence(samples')
    BY <1>2 DEF Recovers
  <2>2. samples \in Seq(PoolSamples)
    BY DEF PoolInv, PoolTypeInv
  <2>3. DOMAIN samples \subseteq DOMAIN samples' /\ \A i \in DOMAIN samples : samples'[i] = samples[i]
    BY <2>1, <2>2
  <2>4. poolEvidence'.asserts = Assertions(samples')
    BY <2>1 DEF PoolEvidence
  <2>5. "wait" \in DOMAIN Assertions(samples')
    BY DEF Assertions
  <2>6. During \subseteq During'
    BY <1>2, <2>3 DEF During, Wanted, IsTraced, Recovers
  <2>7. Assertions(samples').wait => \E i \in During : samples[i].wait
    BY <2>2, MostlySome
  <2> QED
    BY <2>3, <2>4, <2>5, <2>6, <2>7 DEF MeasuredInv, During
<1>3. CASE (PoolHandlers \/ HolderFails) /\ ~UNCHANGED appVars
  BY <1>3 DEF PoolHandlers, Acquires, Holds, Leaves, HolderFails, MeasuredInv, During, Wanted, IsTraced
<1>4. CASE PoolProbe /\ ~Recovers
  <2>1. poolAt' # "done"
    BY <1>4 DEF PoolProbe, SamplesAlone, StartsHolder, WatchesHolder, ConnectsDirectly,
                AsksForWork, Works, JoinsHolder, GivesUp
  <2> QED
    BY <2>1 DEF MeasuredInv
<1> QED
  BY <1>1, <1>2, <1>3, <1>4 DEF LabNext, PoolNext, labVars, poolVars

\* What the pool document asserts was sampled while the holder held the connections.
LEMMA PoolIsEarned == MeasuredInv => PoolEarned
BY DEF MeasuredInv, PoolEarned, PoolSupports

-----------------------------------------------------------------------------
\* The server said that it was full only when it had no session left.
FullInv == rejection = "capacity" => wasFull

\* No connection was rejected at the start.
LEMMA FullInitInv == LabInit => FullInv
BY DEF LabInit, PoolInit, FullInv

\* A connection is rejected for capacity only while the server has no slot left.
LEMMA FullNextInv == FullInv /\ [LabNext]_labVars => FullInv'
<1> SUFFICES ASSUME FullInv, [LabNext]_labVars PROVE FullInv'
  OBVIOUS
<1>1. CASE UNCHANGED admVars
  BY <1>1 DEF admVars, FullInv
<1>2. CASE AdmissionProbe \/ Exits
  BY <1>2 DEF AdmissionProbe, OpensOnce, Fills, StopsFilling, Releases, Retries, Exits, FullInv
<1>3. CASE ConnectionFails
  BY <1>3 DEF ConnectionFails, FullInv
<1> QED
  BY <1>1, <1>2, <1>3 DEF LabNext, PoolNext, labVars, poolVars

\* A supported rejection met a full server.
LEMMA AdmissionIsEarned == FullInv => AdmissionEarned
BY DEF FullInv, AdmissionEarned, AdmissionSupports, ClassifyCapacityRejection

-----------------------------------------------------------------------------
\* An error of the second attempt that is not the peer's answer is a deadline, or
\* the peer is dead and the third attempt does not reach it.
TriesInv ==
  /\ connAt # "off" => conn \in Connections
  /\ turn \in 1 .. 3 /\ DOMAIN tries = 1 .. 3
  /\ connAt = "done" => turn = 3
  /\ turn = 3 => tries[2].isRejection \/ tries[2].error \in {"none", "timeout"} \/ ~peerUp
  /\ connAt \notin {"done", "failed"} => tries[3].stage = "none"
  /\ Reached(3) => peerUp

\* No connection was attempted at the start.
LEMMA TriesInitInv == LabInit => TriesInv
BY DEF LabInit, ConnectionInit, TriesInv, Reached, FirstStage

\* An attempt is recorded as what it met: a peer that was down, a rejection or a time limit.
LEMMA RecordsInv ==
  ASSUME TriesInv, connAt \in {"connect", "handshake", "exchange"},
         NEW error, NEW isRejection \in BOOLEAN, Records(error, isRejection), UNCHANGED <<conn, peerUp>>,
         isRejection \/ error \in {"none", "timeout"} \/ ~peerUp,
         error = "none" => peerUp
  PROVE  TriesInv'
<1> DEFINE try == [error |-> error, stage |-> connAt, isRejection |-> isRejection]
<1>1. /\ tries' = [tries EXCEPT ![turn] = try]
      /\ \/ connAt' = "failed" /\ turn' = turn
         \/ turn = 3 /\ connAt' = "done" /\ turn' = turn
         \/ turn # 3 /\ connAt' \in {"connect", "exchange"} /\ turn' = turn + 1
  BY DEF Records, FirstStage
<1>2. try.error = error /\ try.stage # "none"
      /\ (try.isRejection \/ try.error \in {"none", "timeout"} \/ ~peerUp)
  OBVIOUS
<1> HIDE DEF try
<1>3. DOMAIN tries' = 1 .. 3 /\ tries'[turn] = try
      /\ \A n \in 1 .. 3 \ {turn} : tries'[n] = tries[n]
  BY <1>1 DEF TriesInv
<1> QED
  BY <1>1, <1>2, <1>3 DEF TriesInv, Reached

\* Every step of a laboratory keeps the record of connection attempts true.
LEMMA TriesNextInv == TriesInv /\ [LabNext]_labVars => TriesInv'
<1> SUFFICES ASSUME TriesInv, [LabNext]_labVars PROVE TriesInv'
  OBVIOUS
<1>1. CASE UNCHANGED connVars
  BY <1>1 DEF connVars, TriesInv, Reached
<1>2. CASE PeerDies
  BY <1>2 DEF PeerDies, TriesInv, Reached, DeathAt
<1>3. CASE Passes
  <2>1. CASE Records("none", FALSE)
    BY <1>3, <2>1, RecordsInv DEF Passes
  <2>2. CASE connAt' = StageAfter[connAt] /\ connAt # "exchange" /\ UNCHANGED <<turn, tries>>
    <3>1. connAt' \in {"handshake", "exchange"}
      BY <1>3, <2>2 DEF Passes, StageAfter
    <3> QED
      BY <1>3, <2>2, <3>1 DEF Passes, TriesInv, Reached
  <2> QED
    BY <1>3, <2>1, <2>2 DEF Passes
<1>4. CASE IsTurnedAway
  <2>1. PICK error \in RejectionsOf : Records(error, TRUE)
    BY <1>4 DEF IsTurnedAway
  <2>2. connAt \in {"connect", "handshake", "exchange"}
    BY <1>4 DEF IsTurnedAway, IsRejected, RejectedAt
  <2>3. error # "none"
    BY <1>4, <2>1, <2>2 DEF RejectionsOf, TriesInv, Connections, Plain, Dns, Tls, ClientCertificate
  <2> QED
    BY <1>4, <2>1, <2>2, <2>3, RecordsInv DEF IsTurnedAway
<1>5. CASE FindsNoPeer
  <2>1. connAt \in {"connect", "handshake", "exchange"}
    BY <1>5 DEF FindsNoPeer, DeathAt
  <2>2. PICK error \in DeathAt[connAt] : Records(error, FALSE)
    BY <1>5 DEF FindsNoPeer
  <2>3. error # "none"
    <3>1. "none" \notin DeathAt.connect /\ "none" \notin DeathAt.handshake
          /\ "none" \notin DeathAt.exchange
      BY DEF DeathAt
    <3> QED
      BY <2>1, <2>2, <3>1
  <2> QED
    BY <1>5, <2>1, <2>2, <2>3, RecordsInv DEF FindsNoPeer
<1>6. CASE LosesPacket
  <2>1. connAt \in {"connect", "handshake", "exchange"}
    BY <1>6 DEF LosesPacket, DeathAt
  <2> QED
    BY <1>6, <2>1, RecordsInv DEF LosesPacket
<1> QED
  BY <1>1, <1>2, <1>3, <1>4, <1>5, <1>6 DEF LabNext, ConnectionNext, ConnectionProbe, labVars

\* A supported connection failure was met by an attempt of its phase.
LEMMA ConnectionIsEarned == TriesInv => ConnectionEarned
BY DEF TriesInv, ConnectionEarned, ConnectionSupports, Surfaces, Reached, Connections,
       Plain, Dns, Tls, ClientCertificate

-----------------------------------------------------------------------------
(***************************************************************************)
(* The network laboratory: the counters of a phase and the fates of its    *)
(* packets.                                                                *)
(***************************************************************************)

\* What a probe counts when the fate of its rule befalls a packet, and when no
\* other fate does.
CountOf == [loss |-> "missing", duplication |-> "copies", reordering |-> "inversions",
            corruption |-> "wrong"]
MarkOf == [duplication |-> "copies", reordering |-> "inversions", jitter |-> "slow",
           lossTcp |-> "retransmitted", corruptionTcp |-> "rejected"]

NetTypeInv ==
  /\ netem \in DOMAIN FateOf \cup {"none"} /\ (netem = "none" => netAt = "off")
  /\ part \in 1 .. 3 /\ rule \in BOOLEAN /\ sent \in Nat
  /\ mishaps \in Nat /\ mishaps <= MaxMishaps
  /\ measured \in [1 .. 3 -> [DOMAIN Nothing -> Nat]]
  /\ replies \in Seq([to : Nat, intact : BOOLEAN])
  /\ \A i \in DOMAIN replies : replies[i].to < sent

\* Packets of the intervention met the rule, and those of the recovery met none
\* when tc shows none.
RuleInv ==
  /\ netAt = "start" => part = 1
  /\ netAt = "measure" /\ part = 2 => rule
  /\ \A f \in fates : f.part \in 1 .. part /\ (f.part = 2 => f.rule)
  /\ netem = "loss" => \A f \in fates : f.part = 2 => f.fate = "lost"
  /\ netAt \in {"measure", "done"} => \A f \in fates : f.part = 3 => (f.rule => rule)
  /\ netAt = "done" => part = 3 /\ shown.after = rule

CountInv ==
  \A n \in 1 .. 3 :
    /\ measured[n].missing > 0 => Fates(n) # {}
    /\ netem \in DOMAIN CountOf /\ FateOf[netem] \in Fates(n) => measured[n][CountOf[netem]] > 0
    /\ netem \in DOMAIN MarkOf /\ measured[n][MarkOf[netem]] > 0 => Causes \cap Fates(n) # {}

\* Every packet of the latency probe's intervention was late or suffered a mishap.
LatencyInv ==
  netem = "latency" /\ netAt \in {"measure", "done"} =>
    \/ part = 1 \/ "late" \in Fates(2)
    \/ part = 2 /\ mishaps >= sent
    \/ part = 3 /\ mishaps >= NetSamples

NetInv == NetTypeInv /\ RuleInv /\ CountInv /\ LatencyInv

\* Nothing was sent, disturbed or counted at the start.
LEMMA NetInitInv == LabInit => NetInv
<1> SUFFICES ASSUME LabInit PROVE NetInv
  OBVIOUS
<1>1. NetemInit(lab = "network")
  BY DEF LabInit
<1>2. /\ part = 1 /\ rule \in BOOLEAN /\ replies = <<>> /\ sent = 0
      /\ measured = [n \in 1 .. 3 |-> Nothing] /\ fates = {} /\ mishaps = 0
      /\ netem \in DOMAIN FateOf \cup {"none"} /\ (netem = "none" => netAt = "off")
      /\ netAt \in {"start", "off"}
  <2>1. CASE lab = "network"
    BY <1>1, <2>1 DEF NetemInit, FateOf
  <2>2. CASE lab # "network"
    BY <1>1, <2>2 DEF NetemInit
  <2> QED
    BY <2>1, <2>2
<1>3. Nothing \in [DOMAIN Nothing -> Nat] /\ \A c \in DOMAIN Nothing : Nothing[c] = 0
  BY DEF Nothing
<1>4. NetTypeInv
  BY <1>2, <1>3, FewerMishaps DEF NetTypeInv
<1>5. RuleInv /\ LatencyInv
  BY <1>2 DEF RuleInv, LatencyInv
<1>6. CountInv
  <2>1. \A n \in 1 .. 3 : measured[n] = Nothing /\ Fates(n) = {}
    BY <1>2 DEF Fates
  <2>2. /\ "missing" \in DOMAIN Nothing
        /\ netem \in DOMAIN MarkOf => MarkOf[netem] \in DOMAIN Nothing
    BY DEF Nothing, MarkOf
  <2>3. \A c \in DOMAIN Nothing : ~(Nothing[c] > 0)
    BY <1>3
  <2> QED
    BY <2>1, <2>2, <2>3 DEF CountInv
<1> QED
  BY <1>4, <1>5, <1>6 DEF NetInv

\* The steps of the other laboratories leave the counters alone.
LEMMA NetIdle == NetInv /\ UNCHANGED netemVars => NetInv'
<1> SUFFICES ASSUME NetInv, UNCHANGED netemVars PROVE NetInv'
  OBVIOUS
<1>1. Causes' = Causes /\ \A n : Fates(n)' = Fates(n)
  BY DEF netemVars, Causes, Fates
<1>2. NetTypeInv' /\ RuleInv' /\ CountInv'
  BY <1>1 DEF netemVars, NetInv, NetTypeInv, RuleInv, CountInv
<1>3. LatencyInv'
  BY <1>1 DEF netemVars, NetInv, LatencyInv
<1> QED
  BY <1>2, <1>3 DEF NetInv

\* The names of the counters, fates and rules differ from each other.
LEMMA NetNames ==
  /\ DOMAIN Nothing = {"missing", "wrong", "copies", "inversions", "slow", "retransmitted", "rejected"}
  /\ DOMAIN FateOf = {"loss", "duplication", "reordering", "corruption", "jitter", "latency",
                      "lossTcp", "corruptionTcp"}
  /\ FateOf["loss"] = "lost" /\ FateOf["duplication"] = "twice" /\ FateOf["reordering"] = "swapped"
  /\ FateOf["corruption"] = "changed" /\ FateOf["jitter"] = "varied" /\ FateOf["latency"] = "late"
  /\ FateOf["lossTcp"] = "lost" /\ FateOf["corruptionTcp"] = "changed"
  /\ DOMAIN CountOf = {"loss", "duplication", "reordering", "corruption"}
  /\ CountOf["loss"] = "missing" /\ CountOf["duplication"] = "copies"
  /\ CountOf["reordering"] = "inversions" /\ CountOf["corruption"] = "wrong"
  /\ DOMAIN MarkOf = {"duplication", "reordering", "jitter", "lossTcp", "corruptionTcp"}
  /\ MarkOf["duplication"] = "copies" /\ MarkOf["reordering"] = "inversions"
  /\ MarkOf["jitter"] = "slow" /\ MarkOf["lossTcp"] = "retransmitted"
  /\ MarkOf["corruptionTcp"] = "rejected"
BY DEF Nothing, FateOf, CountOf, MarkOf

\* What a packet of some fate may be counted as.
Fits(names, fate) ==
  /\ names \subseteq DOMAIN Nothing
  /\ netem \in DOMAIN CountOf /\ fate = FateOf[netem] => CountOf[netem] \in names
  /\ netem \in DOMAIN MarkOf /\ MarkOf[netem] \in names => fate \in Causes

\* What a burst of datagrams counts fits the fate of its sample,
LEMMA BurstFits ==
  ASSUME netem \in Bursts, NEW fate, MayBe(fate), NEW sample \in SampledInBurst(fate)
  PROVE  sample.queue = <<>> /\ \E names : sample.counts = Counts(names) /\ Fits(names, fate)
<1> DEFINE counted == CASE fate = "kept" -> {{}}
                        [] fate \in {"lost", "late"} -> {{"missing"}}
                        [] fate = "swapped" -> {{"inversions"}}
                        [] fate = "twice" -> IF netem = "reordering" THEN {{}, {"copies", "missing"}}
                                                                     ELSE {{"copies"}}
<1>1. PICK names \in counted : sample = [counts |-> Counts(names), queue |-> <<>>]
  BY DEF SampledInBurst
<1>2. netem \in {"duplication", "reordering"}
  BY DEF Bursts
<1>3. fate \in {"kept", "lost", "late", "twice", "swapped"}
  BY <1>2, NetNames DEF MayBe, Bursts
<1>4. names \in CASE fate = "kept" -> {{}}
                  [] fate \in {"lost", "late"} -> {{"missing"}}
                  [] fate = "swapped" -> {{"inversions"}}
                  [] fate = "twice" -> IF netem = "reordering" THEN {{}, {"copies", "missing"}}
                                                               ELSE {{"copies"}}
  OBVIOUS
<1>5. \/ fate = "kept" /\ names = {}
      \/ fate \in {"lost", "late"} /\ names = {"missing"}
      \/ fate = "swapped" /\ names = {"inversions"}
      \/ fate = "twice" /\ netem = "reordering" /\ (names = {} \/ names = {"copies", "missing"})
      \/ fate = "twice" /\ netem = "duplication" /\ names = {"copies"}
  BY <1>2, <1>3, <1>4
<1> HIDE DEF counted
<1>6. Fits(names, fate)
  <2>1. CASE netem = "duplication"
    BY <1>3, <1>5, <2>1, NetNames DEF Fits, MayBe, Causes, Bursts
  <2>2. CASE netem = "reordering"
    BY <1>3, <1>5, <2>2, NetNames DEF Fits, MayBe, Causes, Bursts
  <2> QED
    BY <1>2, <2>1, <2>2
<1> QED
  BY <1>1, <1>6

\* what a stream counts does too,
LEMMA StreamFits ==
  ASSUME netem \in Streams, NEW fate, MayBe(fate), NEW sample \in SampledOnStream(fate)
  PROVE  sample.queue = <<>> /\ \E names : sample.counts = Counts(names) /\ Fits(names, fate)
<1>1. PICK names : /\ sample = [counts |-> Counts(names), queue |-> <<>>]
                   /\ names \in CASE fate = "lost" -> {{"slow", "retransmitted"}}
                                  [] fate = "changed" -> {{"slow", "retransmitted", "rejected"}}
                                  [] fate = "late" -> {{"slow"}, {"slow", "retransmitted"}}
                                  [] OTHER -> {{}}
  BY DEF SampledOnStream
<1>2. netem \in {"latency", "lossTcp", "corruptionTcp"}
  BY DEF Streams
<1>3. Fits(names, fate)
  BY <1>1, <1>2, NetNames DEF Fits, MayBe, Causes, Bursts
<1> QED
  BY <1>1, <1>3

\* and what a datagram sent alone counts.
LEMMA AloneFits ==
  ASSUME netem = "loss", NEW fate, NEW sample \in SampledAlone(fate)
  PROVE  sample.queue = <<>> /\ \E names : sample.counts = Counts(names) /\ Fits(names, fate)
<1>1. PICK names : /\ sample = [counts |-> Counts(names), queue |-> <<>>]
                   /\ names = IF fate \in {"lost", "late"} THEN {"missing"} ELSE {}
  BY DEF SampledAlone
<1>2. Fits(names, fate)
  BY <1>1, NetNames DEF Fits
<1> QED
  BY <1>1, <1>2

\* A reply still on its way answers a numbered request.
LEMMA RepliesAreNumbered ==
  ASSUME NEW queue \in Seq([to : Nat, intact : BOOLEAN])
  PROVE  \A i \in DOMAIN queue : queue[i].to \in Nat
<1> DEFINE Reply == [to : Nat, intact : BOOLEAN]
<1>1. \A r \in Reply : r.to \in Nat
  OBVIOUS
<1>2. \A i \in DOMAIN queue : queue[i] \in Reply
  <2>1. queue \in Seq(Reply)
    OBVIOUS
  <2> HIDE DEF Reply
  <2> QED
    BY <2>1
<1> QED
  BY <1>1, <1>2

\* On the one socket that the corruption and jitter probes share, replies answer requests
\* already sent, and what is counted fits the fate or an earlier one whose reply was left
\* behind.
LEMMA SocketFits ==
  ASSUME NetTypeInv, netem \in {"corruption", "jitter"}, NEW fate, MayBe(fate),
         NEW sample \in SampledOnOneSocket(fate)
  PROVE  /\ sample.queue \in Seq([to : Nat, intact : BOOLEAN])
         /\ \A i \in DOMAIN sample.queue : sample.queue[i].to <= sent
         /\ \E names : sample.counts = Counts(names) /\ Fits(names, fate)
<1> DEFINE waiting == replies \o Arrived(fate)
           isWrong == waiting # <<>> /\ Head(waiting) # [to |-> sent, intact |-> TRUE]
           late == IF fate = "late" THEN <<[to |-> sent, intact |-> TRUE]>> ELSE <<>>
           Reply == [to : Nat, intact : BOOLEAN]
<1>1. PICK names :
        /\ sample = [counts |-> Counts(names),
                     queue |-> (IF waiting = <<>> THEN <<>> ELSE Tail(waiting)) \o late]
        /\ names = CASE waiting = <<>> -> {"missing"}
                     [] isWrong -> {"wrong"}
                     [] fate = "varied" -> {"slow"}
                     [] OTHER -> {}
  BY DEF SampledOnOneSocket
<1>2. /\ Arrived(fate) \in Seq(Reply) /\ \A i \in DOMAIN Arrived(fate) : Arrived(fate)[i].to = sent
      /\ fate = "changed" => Len(Arrived(fate)) = 1 /\ ~Arrived(fate)[1].intact
  <2>1. \A b \in BOOLEAN : [to |-> sent, intact |-> b] \in Reply
    BY DEF NetTypeInv
  <2>2. CASE fate \in {"lost", "late"}
    BY <2>2 DEF Arrived
  <2>3. CASE fate = "twice"
    <3> DEFINE good == [to |-> sent, intact |-> TRUE]
    <3>1. good \in Reply /\ good.to = sent /\ Arrived(fate) = <<good, good>>
      BY <2>1, <2>3 DEF Arrived
    <3> HIDE DEF good, Reply
    <3>2. <<good, good>> \in Seq(Reply)
      BY <3>1
    <3>3. \A i \in DOMAIN <<good, good>> : <<good, good>>[i] = good
      OBVIOUS
    <3> QED
      BY <2>3, <3>1, <3>2, <3>3
  <2>4. CASE fate \notin {"lost", "late", "twice"}
    <3> DEFINE one == [to |-> sent, intact |-> fate # "changed"]
    <3>1. one \in Reply /\ one.to = sent /\ (fate = "changed" => ~one.intact)
          /\ Arrived(fate) = <<one>>
      BY <2>1, <2>4 DEF Arrived
    <3> HIDE DEF one, Reply
    <3> QED
      BY <3>1
  <2> QED
    BY <2>2, <2>3, <2>4
<1>3. /\ waiting \in Seq(Reply) /\ \A i \in DOMAIN waiting : waiting[i].to <= sent
      /\ replies = <<>> => waiting = Arrived(fate)
      /\ replies # <<>> => Len(waiting) >= 1 /\ waiting[1] = replies[1]
  <2>1. replies \in Seq(Reply) /\ sent \in Nat /\ \A i \in DOMAIN replies : replies[i].to < sent
    BY DEF NetTypeInv
  <2>2. \A i \in DOMAIN replies : replies[i].to <= sent
    <3>1. \A i \in DOMAIN replies : replies[i].to \in Nat
      BY <2>1, RepliesAreNumbered
    <3> QED
      BY <2>1, <3>1
  <2> HIDE DEF Reply
  <2>3. waiting \in Seq(Reply) /\ Len(waiting) = Len(replies) + Len(Arrived(fate))
        /\ \A i \in DOMAIN waiting :
             waiting[i] = IF i <= Len(replies) THEN replies[i] ELSE Arrived(fate)[i - Len(replies)]
    BY <1>2, <2>1
  <2>4. sent <= sent
    BY <2>1
  <2> HIDE DEF waiting
  <2>5. \A i \in DOMAIN waiting : waiting[i].to <= sent
    BY <1>2, <2>1, <2>2, <2>3, <2>4
  <2>6. replies # <<>> => Len(waiting) >= 1 /\ waiting[1] = replies[1]
    BY <1>2, <2>1, <2>3, SMTT(40)
  <2>7. replies = <<>> => waiting = Arrived(fate)
    BY <1>2 DEF waiting
  <2> QED
    BY <2>3, <2>5, <2>6, <2>7
<1>4. fate = "changed" => isWrong
  <2> SUFFICES ASSUME fate = "changed" PROVE isWrong
    OBVIOUS
  <2>1. \A b \in BOOLEAN : [to |-> sent, intact |-> b].to = sent /\ [to |-> sent, intact |-> b].intact = b
    OBVIOUS
  <2>2. waiting # <<>> /\ (~waiting[1].intact \/ waiting[1].to < sent)
    <3> HIDE DEF waiting, Reply
    <3>1. replies \in Seq(Reply) /\ \A i \in DOMAIN replies : replies[i].to < sent
      BY DEF NetTypeInv, Reply
    <3>2. replies # <<>> => 1 \in DOMAIN replies
      BY <3>1
    <3> QED
      BY <1>2, <1>3, <3>1, <3>2
  <2>3. Head(waiting) = waiting[1] /\ sent \in Nat
    BY <1>3, <2>2 DEF NetTypeInv
  <2> HIDE DEF waiting
  <2> QED
    BY <2>2, <2>3
<1>5. late \in Seq(Reply) /\ \A i \in DOMAIN late : late[i].to <= sent
  <2> DEFINE good == [to |-> sent, intact |-> TRUE]
  <2>1. good \in Reply /\ good.to <= sent
    BY DEF NetTypeInv
  <2>2. late = <<>> \/ late = <<good>>
    OBVIOUS
  <2> HIDE DEF good, late, Reply
  <2>3. <<good>> \in Seq(Reply) /\ <<>> \in Seq(Reply)
    BY <2>1
  <2>4. \A i \in DOMAIN <<good>> : <<good>>[i] = good
    OBVIOUS
  <2>5. CASE late = <<>>
    BY <2>3, <2>5
  <2>6. CASE late = <<good>>
    BY <2>1, <2>3, <2>4, <2>6
  <2> QED
    BY <2>2, <2>5, <2>6
<1>6. Fits(names, fate)
  <2>1. isWrong => waiting # <<>>
    OBVIOUS
  <2> HIDE DEF waiting, isWrong
  <2> QED
    BY <1>1, <1>4, <2>1, NetNames DEF Fits, Causes
<1> HIDE DEF waiting, late
<1>7. /\ (IF waiting = <<>> THEN <<>> ELSE Tail(waiting)) \in Seq(Reply)
      /\ \A i \in DOMAIN (IF waiting = <<>> THEN <<>> ELSE Tail(waiting)) :
           (IF waiting = <<>> THEN <<>> ELSE Tail(waiting))[i].to <= sent
  BY <1>3
<1> QED
  BY <1>1, <1>5, <1>6, <1>7

\* Whatever the laboratory measures, its counters fit the fates drawn so far.
LEMMA SampleFits ==
  ASSUME NetTypeInv, netem # "none", NEW fate, MayBe(fate), NEW sample \in Sampled(fate)
  PROVE  /\ sample.queue \in Seq([to : Nat, intact : BOOLEAN])
         /\ \A i \in DOMAIN sample.queue : sample.queue[i].to <= sent
         /\ \E names : sample.counts = Counts(names) /\ Fits(names, fate)
<1>1. CASE netem \in Bursts
  <2>1. sample.queue = <<>> /\ \E names : sample.counts = Counts(names) /\ Fits(names, fate)
    BY <1>1, BurstFits DEF Sampled
  <2> QED
    BY <2>1
<1>2. CASE netem \in Streams
  <2>1. netem \notin Bursts
    BY <1>2 DEF Bursts, Streams
  <2>2. sample.queue = <<>> /\ \E names : sample.counts = Counts(names) /\ Fits(names, fate)
    BY <1>2, <2>1, StreamFits DEF Sampled
  <2> QED
    BY <2>2
<1>3. CASE netem = "loss"
  <2>1. netem \notin Bursts /\ netem \notin Streams
    BY <1>3 DEF Bursts, Streams
  <2>2. sample.queue = <<>> /\ \E names : sample.counts = Counts(names) /\ Fits(names, fate)
    BY <1>3, <2>1, AloneFits DEF Sampled
  <2> QED
    BY <2>2
<1>4. CASE netem \in {"corruption", "jitter"}
  BY <1>4, SocketFits DEF Sampled, Bursts, Streams
<1> QED
  BY <1>1, <1>2, <1>3, <1>4, NetNames DEF NetTypeInv, Bursts, Streams

\* One measurement keeps the counters within what was disturbed.
LEMMA MeasuresOnceInv ==
  ASSUME NetInv, MeasuresOnce
  PROVE  NetInv'
<1>1. PICK fate :
        /\ MayBe(fate)
        /\ fates' = fates \cup {[part |-> part, fate |-> fate, rule |-> rule]}
        /\ mishaps' = IF IsMishap(fate) THEN mishaps + 1 ELSE mishaps
        /\ \E sample \in Sampled(fate) :
             /\ measured' = [measured EXCEPT ![part] = sample.counts]
             /\ replies' = sample.queue
             /\ netAt' = IF netem = "jitter" /\ sample.counts.wrong > 0 THEN "raise" ELSE netAt
  BY DEF MeasuresOnce
<1>2. /\ netAt = "measure" /\ sent' = sent + 1 /\ sent < NetSamples
      /\ UNCHANGED <<netem, part, rule, shown>>
  BY DEF MeasuresOnce, Measures
<1>3. netem # "none" /\ part \in 1 .. 3 /\ sent \in Nat /\ rule \in BOOLEAN
      /\ measured \in [1 .. 3 -> [DOMAIN Nothing -> Nat]]
  BY <1>2 DEF NetInv, NetTypeInv
<1>4. PICK sample \in Sampled(fate) :
        /\ measured' = [measured EXCEPT ![part] = sample.counts]
        /\ replies' = sample.queue
        /\ netAt' = "raise" \/ netAt' = netAt
  BY <1>1
<1>5. /\ sample.queue \in Seq([to : Nat, intact : BOOLEAN])
      /\ \A i \in DOMAIN sample.queue : sample.queue[i].to <= sent
  BY <1>1, <1>3, <1>4, SampleFits DEF NetInv
<1>6. PICK names : sample.counts = Counts(names) /\ Fits(names, fate)
  BY <1>1, <1>3, <1>4, SampleFits DEF NetInv
<1>7. /\ measured' \in [1 .. 3 -> [DOMAIN Nothing -> Nat]]
      /\ \A n \in 1 .. 3 \ {part} : measured'[n] = measured[n]
      /\ \A c \in DOMAIN Nothing :
           measured'[part][c] = IF c \in names THEN measured[part][c] + 1 ELSE measured[part][c]
  <2>1. /\ Counts(names) \in [DOMAIN Nothing -> Nat]
        /\ \A c \in DOMAIN Nothing :
             Counts(names)[c] = IF c \in names THEN measured[part][c] + 1 ELSE measured[part][c]
    BY <1>3 DEF Counts
  <2> QED
    BY <1>3, <1>4, <1>6, <2>1
<1>8. mishaps' \in Nat /\ mishaps <= mishaps' /\ mishaps' <= MaxMishaps
      /\ (IsMishap(fate) => mishaps' = mishaps + 1)
  BY <1>1, FewerMishaps DEF IsMishap, MayBe, NetInv, NetTypeInv
<1>9. NetTypeInv'
  <2>1. \A i \in DOMAIN replies' : replies'[i].to < sent'
    <3>1. \A i \in DOMAIN replies' : replies'[i].to \in Nat
      BY <1>4, <1>5, RepliesAreNumbered
    <3> QED
      BY <1>2, <1>3, <1>4, <1>5, <3>1
  <2> QED
    BY <1>2, <1>3, <1>4, <1>5, <1>7, <1>8, <2>1 DEF NetInv, NetTypeInv
<1> DEFINE new == [part |-> part, fate |-> fate, rule |-> rule]
<1>10. new.part = part /\ new.fate = fate /\ new.rule = rule /\ fates' = fates \cup {new}
  BY <1>1
<1> HIDE DEF new
<1>11. /\ fate \in Fates(part)' /\ \A n \in 1 .. 3 : Fates(n) \subseteq Fates(n)'
       /\ \A n \in 1 .. 3 \ {part} : Fates(n)' = Fates(n)
       /\ Fates(part)' = Fates(part) \cup {fate}
  BY <1>2, <1>3, <1>10 DEF Fates
<1>12. RuleInv'
  <2>1. part = 2 => rule
    BY <1>2 DEF NetInv, RuleInv
  <2>2. part = 2 /\ netem = "loss" => fate = "lost"
    BY <1>1, <2>1, NetNames DEF MayBe, IsCertain
  <2> QED
    BY <1>2, <1>3, <1>4, <1>10, <2>1, <2>2 DEF NetInv, RuleInv
<1>13. CountInv'
  <2>1. ASSUME NEW n \in 1 .. 3, n # part
        PROVE  /\ measured'[n].missing > 0 => Fates(n)' # {}
               /\ netem \in DOMAIN CountOf /\ FateOf[netem] \in Fates(n)' => measured'[n][CountOf[netem]] > 0
               /\ netem \in DOMAIN MarkOf /\ measured'[n][MarkOf[netem]] > 0 => Causes \cap Fates(n)' # {}
    BY <1>7, <1>11, <2>1 DEF NetInv, CountInv
  <2>2. /\ netem \in DOMAIN CountOf => CountOf[netem] \in DOMAIN Nothing
        /\ netem \in DOMAIN MarkOf => MarkOf[netem] \in DOMAIN Nothing
    BY NetNames
  <2>3. netem \in DOMAIN CountOf /\ FateOf[netem] \in Fates(part)' => measured'[part][CountOf[netem]] > 0
    <3> SUFFICES ASSUME netem \in DOMAIN CountOf, FateOf[netem] \in Fates(part)'
                 PROVE  measured'[part][CountOf[netem]] > 0
      OBVIOUS
    <3>1. measured[part][CountOf[netem]] \in Nat
      BY <1>3, <2>2
    <3>2. CASE FateOf[netem] \in Fates(part)
      <4>1. measured[part][CountOf[netem]] > 0
        BY <1>3, <3>2 DEF NetInv, CountInv
      <4> QED
        BY <1>7, <2>2, <3>1, <4>1
    <3>3. CASE FateOf[netem] = fate
      <4>1. CountOf[netem] \in names
        BY <1>6, <3>3 DEF Fits
      <4> QED
        BY <1>7, <2>2, <3>1, <4>1
    <3> QED
      BY <1>11, <3>2, <3>3
  <2>4. netem \in DOMAIN MarkOf /\ measured'[part][MarkOf[netem]] > 0 => Causes \cap Fates(part)' # {}
    <3> SUFFICES ASSUME netem \in DOMAIN MarkOf, measured'[part][MarkOf[netem]] > 0
                 PROVE  Causes \cap Fates(part)' # {}
      OBVIOUS
    <3>1. CASE MarkOf[netem] \in names
      BY <1>6, <1>11, <3>1 DEF Fits
    <3>2. CASE MarkOf[netem] \notin names
      <4>1. measured[part][MarkOf[netem]] > 0
        BY <1>7, <2>2, <3>2
      <4> QED
        BY <1>3, <1>11, <4>1 DEF NetInv, CountInv
    <3> QED
      BY <3>1, <3>2
  <2>5. Fates(part)' # {}
    BY <1>11
  <2> QED
    BY <1>2, <1>3, <2>1, <2>3, <2>4, <2>5 DEF CountInv, Causes
<1>14. LatencyInv'
  <2> SUFFICES ASSUME netem = "latency", netAt' \in {"measure", "done"}, part # 1, "late" \notin Fates(2)'
               PROVE  (part = 2 /\ mishaps' >= sent') \/ (part = 3 /\ mishaps' >= NetSamples)
    BY <1>2 DEF LatencyInv
  <2>1. "late" \notin Fates(2)
    BY <1>11
  <2>2. CASE part = 2
    <3>1. rule /\ fate # "late"
      BY <1>2, <1>11, <2>2 DEF NetInv, RuleInv
    <3>2. IsMishap(fate)
      BY <1>1, <3>1, NetNames DEF MayBe, IsMishap, IsCertain
    <3>3. mishaps >= sent /\ mishaps \in Nat
      BY <1>2, <2>1, <2>2 DEF NetInv, LatencyInv, NetTypeInv
    <3> QED
      BY <1>2, <1>3, <1>8, <2>2, <3>2, <3>3
  <2>3. CASE part = 3
    <3>1. mishaps >= NetSamples /\ mishaps \in Nat
      BY <1>2, <2>1, <2>3 DEF NetInv, LatencyInv, NetTypeInv
    <3> QED
      BY <1>8, <2>3, <3>1, FewerMishaps
  <2> QED
    BY <1>3, <2>2, <2>3
<1> QED
  BY <1>9, <1>12, <1>13, <1>14 DEF NetInv

\* A phase starts with an empty socket, and nothing else that counts is touched.
LEMMA NetStepInv ==
  ASSUME NetInv, ClearsNetem \/ AppliesRule \/ RemovesRule \/ Concludes \/ NetFails \/ Raises
  PROVE  NetInv'
<1>1. UNCHANGED <<netem, measured, fates>>
  BY DEF ClearsNetem, AppliesRule, RemovesRule, Concludes, NetFails, Raises
<1>2. \A n : Fates(n)' = Fates(n)
  BY <1>1 DEF Fates
<1>3. CountInv'
  BY <1>1, <1>2 DEF NetInv, CountInv, Causes
<1>4. rule' \in BOOLEAN /\ mishaps' \in Nat /\ mishaps <= mishaps' /\ mishaps' <= MaxMishaps
  <2>1. rule \in BOOLEAN /\ mishaps \in Nat /\ mishaps <= MaxMishaps
    BY DEF NetInv, NetTypeInv
  <2>2. rule' \in BOOLEAN
    <3>1. rule' = rule \/ rule' = FALSE \/ rule' = TRUE
      BY Zenon DEF ClearsNetem, AppliesRule, RemovesRule, Concludes, NetFails, Raises, Removes
    <3> QED
      BY <2>1, <3>1, Zenon
  <2>3. mishaps' = mishaps \/ (mishaps < MaxMishaps /\ mishaps' = mishaps + 1)
    <3>1. Removes => mishaps' = mishaps \/ (mishaps < MaxMishaps /\ mishaps' = mishaps + 1)
      BY Zenon DEF Removes
    <3> QED
      BY <3>1, Zenon DEF ClearsNetem, AppliesRule, RemovesRule, Concludes, NetFails, Raises
  <2>4. mishaps' \in Nat /\ mishaps <= mishaps' /\ mishaps' <= MaxMishaps
    BY <2>1, <2>3, FewerMishaps
  <2> QED
    BY <2>2, <2>4
<1>5. /\ netem \in DOMAIN FateOf \cup {"none"} /\ (netem = "none" => netAt = "off")
      /\ part \in 1 .. 3 /\ sent \in Nat
      /\ replies \in Seq([to : Nat, intact : BOOLEAN])
      /\ \A i \in DOMAIN replies : replies[i].to < sent
  BY DEF NetInv, NetTypeInv
<1>6. netem' # "none"
  BY <1>1, <1>5 DEF ClearsNetem, AppliesRule, RemovesRule, Concludes, NetFails, Raises
<1>7. NetTypeInv'
  <2>1. part' \in 1 .. 3
    BY <1>5 DEF ClearsNetem, AppliesRule, RemovesRule, Concludes, NetFails, Raises, StartsPhase
  <2>2. \/ UNCHANGED <<sent, replies>>
        \/ sent' = 0 /\ replies' = <<>>
    BY DEF ClearsNetem, AppliesRule, RemovesRule, Concludes, NetFails, Raises, StartsPhase
  <2>3. /\ sent' \in Nat /\ replies' \in Seq([to : Nat, intact : BOOLEAN])
        /\ \A i \in DOMAIN replies' : replies'[i].to < sent'
    <3> DEFINE reply == [to : Nat, intact : BOOLEAN]
    <3>0. replies \in Seq(reply)
      BY <1>5
    <3> HIDE DEF reply
    <3>1. CASE UNCHANGED <<sent, replies>>
      BY <1>5, <3>0, <3>1 DEF reply
    <3>2. CASE sent' = 0 /\ replies' = <<>>
      BY <3>2
    <3> QED
      BY <2>2, <3>1, <3>2
  <2>4. measured' \in [1 .. 3 -> [DOMAIN Nothing -> Nat]]
    BY <1>1 DEF NetInv, NetTypeInv
  <2> QED
    BY <1>1, <1>4, <1>5, <1>6, <2>1, <2>3, <2>4 DEF NetTypeInv
<1>8. RuleInv' /\ LatencyInv'
  <2>1. CASE ClearsNetem
    BY <1>1, <2>1 DEF ClearsNetem, StartsPhase, NetInv, RuleInv, LatencyInv
  <2>2. CASE AppliesRule
    <3>1. netem = "latency" => netAt' = "measure" /\ part' = 2 /\ sent' = 0
      BY <2>2 DEF AppliesRule, ClearsFirst, StartsPhase
    <3>2. LatencyInv'
      BY <1>1, <1>4, <3>1 DEF LatencyInv
    <3>3. \A f \in fates : f.part = 1
      BY <2>2 DEF AppliesRule, NetInv, RuleInv
    <3>4. RuleInv'
      <4>1. /\ part' = 2 /\ netAt' \in {"raise", "measure"} /\ UNCHANGED shown
            /\ netAt' = "measure" => rule'
        BY <2>2 DEF AppliesRule, StartsPhase
      <4> QED
        BY <1>1, <3>3, <4>1 DEF RuleInv
    <3> QED
      BY <3>2, <3>4
  <2>3. CASE RemovesRule
    <3>1. /\ netAt = "measure" /\ part = 2 /\ sent = NetSamples
          /\ netAt' = "measure" /\ part' = 3
      BY <2>3 DEF RemovesRule, StartsPhase
    <3>2. \A f \in fates : f.part \in 1 .. 2
      BY <3>1 DEF NetInv, RuleInv
    <3>3. RuleInv'
      BY <1>1, <3>1, <3>2 DEF NetInv, RuleInv
    <3>4. LatencyInv'
      BY <1>1, <1>2, <1>4, <3>1, FewerMishaps DEF NetInv, NetTypeInv, LatencyInv
    <3> QED
      BY <3>3, <3>4
  <2>4. CASE Concludes
    BY <1>1, <1>2, <2>4 DEF Concludes, NetInv, RuleInv, LatencyInv
  <2>5. CASE NetFails
    BY <1>1, <2>5 DEF NetFails, NetInv, RuleInv, LatencyInv
  <2>6. CASE Raises
    BY <1>1, <2>6 DEF Raises, NetInv, RuleInv, LatencyInv
  <2> QED
    BY <2>1, <2>2, <2>3, <2>4, <2>5, <2>6
<1> QED
  BY <1>3, <1>7, <1>8 DEF NetInv

\* The steps of the other laboratories leave the network alone.
LEMMA NetNextInv == NetInv /\ [LabNext]_labVars => NetInv'
<1> SUFFICES ASSUME NetInv, [LabNext]_labVars PROVE NetInv'
  OBVIOUS
<1>1. CASE UNCHANGED netemVars
  BY <1>1, NetIdle
<1>2. CASE MeasuresOnce
  BY <1>2, MeasuresOnceInv
<1>3. CASE ClearsNetem \/ AppliesRule \/ RemovesRule \/ Concludes \/ NetFails \/ Raises
  BY <1>3, NetStepInv
<1> QED
  BY <1>1, <1>2, <1>3 DEF LabNext, NetemNext, NetemProbe, labVars

\* A supported network fault was injected: each counter it rests on saw a disturbed sample.
LEMMA NetworkIsEarned == NetInv => NetworkEarned
<1> SUFFICES ASSUME NetInv, NetemSupports PROVE EffectHappened
  BY DEF NetworkEarned
<1>1. /\ netem \in DOMAIN FateOf /\ netAt = "done" /\ part = 3 /\ shown.after = rule
      /\ NetSamples \in Nat /\ NetSamples > 0 /\ MaxMishaps < NetSamples
      /\ \A f \in fates : f.part = 2 => f.rule
      /\ NetAssertions
  BY FewerMishaps DEF NetInv, NetTypeInv, RuleInv, NetemSupports
<1>2. \A n \in 1 .. 3 : measured[n] \in [DOMAIN Nothing -> Nat]
  BY DEF NetInv, NetTypeInv
<1>3. \A n \in 1 .. 3 :
        /\ measured[n].missing > 0 => Fates(n) # {}
        /\ netem \in DOMAIN CountOf /\ FateOf[netem] \in Fates(n) => measured[n][CountOf[netem]] > 0
        /\ netem \in DOMAIN MarkOf /\ measured[n][MarkOf[netem]] > 0 => Causes \cap Fates(n) # {}
  BY DEF NetInv, CountInv
<1>4. 1 \in 1 .. 3 /\ 2 \in 1 .. 3 /\ 3 \in 1 .. 3
  OBVIOUS
<1>5. ASSUME netem \in {"jitter", "lossTcp", "corruptionTcp"}
      PROVE  \A f \in fates : f.part = 3 => ~f.rule
  <2>1. ~shown.after
    BY <1>1, <1>5 DEF NetAssertions, JitterSeen, LossRepaired, DamageRepaired, IsRemoved
  <2> QED
    BY <1>1, <2>1 DEF NetInv, RuleInv
<1>6. CASE netem = "loss"
  <2>1. /\ measured[1].missing = 0 /\ measured[3].missing = 0
        /\ measured[2].missing = NetSamples
    BY <1>1, <1>6 DEF NetAssertions, LossSeen, Complete
  <2>2. Fates(2) # {} /\ "lost" \notin Fates(1) /\ "lost" \notin Fates(3)
    BY <1>1, <1>3, <1>4, <1>6, <2>1, NetNames
  <2>3. \A f \in fates : f.part = 2 => f.fate = "lost"
    BY <1>6 DEF NetInv, RuleInv
  <2>4. Fates(2) = {"lost"}
    BY <2>2, <2>3 DEF Fates
  <2> QED
    BY <1>1, <1>6, <2>2, <2>4, NetNames DEF EffectHappened, Causes
<1>7. CASE netem \in {"duplication", "reordering"}
  <2>1. /\ measured[1][MarkOf[netem]] = 0 /\ measured[2][MarkOf[netem]] > 0
        /\ measured[3][MarkOf[netem]] = 0 /\ CountOf[netem] = MarkOf[netem]
    BY <1>1, <1>7, NetNames, ZenonT(60) DEF NetAssertions, DuplicationSeen, ReorderingSeen, OnlyDuring
  <2>2. /\ FateOf[netem] \in Fates(2) /\ FateOf[netem] \notin Fates(1)
        /\ FateOf[netem] \notin Fates(3)
    BY <1>3, <1>4, <1>7, <2>1, NetNames DEF Causes
  <2> QED
    BY <1>1, <1>7, <2>2 DEF EffectHappened, Causes
<1>8. CASE netem = "corruption"
  <2>1. measured[1].wrong = 0 /\ measured[3].wrong = 0
    BY <1>1, <1>8 DEF NetAssertions, CorruptionSeen, OnlyDuring
  <2>2. FateOf[netem] \notin Fates(1) /\ FateOf[netem] \notin Fates(3)
    BY <1>3, <1>4, <1>8, <2>1, NetNames
  <2> QED
    BY <1>1, <1>8, <2>2 DEF EffectHappened
<1>9. CASE netem \in {"jitter", "lossTcp", "corruptionTcp"}
  <2>1. measured[2][MarkOf[netem]] > 0
    <3>1. CASE netem = "jitter"
      <4>1. measured[2].slow > measured[1].slow
        BY <1>1, <3>1 DEF NetAssertions, JitterSeen, Increases
      <4>2. measured[2].slow \in Nat /\ measured[1].slow \in Nat
        BY <1>2, <1>4, NetNames
      <4> QED
        BY <3>1, <4>1, <4>2, NetNames
    <3>2. CASE netem \in {"lossTcp", "corruptionTcp"}
      BY <1>1, <3>2, NetNames DEF NetAssertions, LossRepaired, DamageRepaired
    <3> QED
      BY <1>9, <3>1, <3>2
  <2>2. Causes \cap Fates(2) # {}
    BY <1>3, <1>4, <1>9, <2>1, NetNames
  <2> QED
    BY <1>1, <1>5, <1>9, <2>2 DEF EffectHappened
<1>10. CASE netem = "latency"
  <2>1. "late" \in Fates(2)
    <3>1. mishaps \in Nat /\ mishaps <= MaxMishaps
      BY DEF NetInv, NetTypeInv
    <3>2. ~(mishaps >= NetSamples)
      BY <3>1, FewerMishaps
    <3>3. LatencyInv
      BY DEF NetInv
    <3>4. "late" \in Fates(2) \/ mishaps >= NetSamples
      BY <1>1, <1>10, <3>3 DEF LatencyInv
    <3> QED
      BY <3>2, <3>4
  <2> QED
    BY <1>1, <1>10, <2>1, NetNames DEF EffectHappened, Causes
<1> QED
  BY <1>1, <1>6, <1>7, <1>8, <1>9, <1>10, NetNames

-----------------------------------------------------------------------------
(***************************************************************************)
(* The transaction probes. A proof in three parts: what their programs are *)
(* made of, what the operations of the database do to the transaction of one *)
(* session, and what the history says of every phase that was begun.       *)
(***************************************************************************)

\* What the programs of the probes are put together from: parts that write nothing
\* and do not commit, and a write followed by a commit.
IsSequence(p) == \E S : p \in Seq(S)

WriteOps == {"add", "set", "leave", "lock"}

IsPrelude(p) ==
  IsSequence(p) /\ \A i \in 1 .. Len(p) : p[i][1] # "commit" /\ p[i][1] \notin WriteOps

\* A program that writes one row at its step w, after it began and read, and commits
\* at its end.
WritesAt(p, w) ==
  /\ IsSequence(p) /\ w \in Nat /\ 1 <= w /\ w < Len(p)
  /\ p[w][1] \in {"set", "leave"} /\ p[w][2] \in Row
  /\ \A i \in 1 .. Len(p) :
       /\ p[i][1] = "commit" <=> i = Len(p)
       /\ p[i][1] \in {"begin", "read"} => i < w
       /\ p[i][1] \in WriteOps => i = w
       /\ p[i][1] = "leave" => lab = "skew"

\* What a concatenation consists of.
LEMMA Concatenated ==
  ASSUME NEW p, NEW q, IsSequence(p), IsSequence(q)
  PROVE  /\ IsSequence(p \o q) /\ Len(p) \in Nat /\ Len(q) \in Nat
         /\ Len(p \o q) = Len(p) + Len(q)
         /\ \A i \in 1 .. Len(p) : (p \o q)[i] = p[i]
         /\ \A i \in 1 .. Len(q) : (p \o q)[Len(p) + i] = q[i]
<1>1. PICK S : p \in Seq(S)
  BY DEF IsSequence
<1>2. PICK T : q \in Seq(T)
  BY DEF IsSequence
<1>3. p \in Seq(S \cup T) /\ q \in Seq(S \cup T)
  BY <1>1, <1>2
<1>4. p \o q \in Seq(S \cup T)
  BY <1>3
<1>5. IsSequence(p \o q)
  BY <1>4 DEF IsSequence
<1> QED
  BY <1>3, <1>5

\* Two parts without a write, one after the other, have no write.
LEMMA PreludesCompose ==
  ASSUME NEW p, NEW q, IsPrelude(p), IsPrelude(q)
  PROVE  IsPrelude(p \o q)
<1>1. /\ IsSequence(p \o q) /\ Len(p) \in Nat /\ Len(q) \in Nat
      /\ Len(p \o q) = Len(p) + Len(q)
      /\ \A i \in 1 .. Len(p) : (p \o q)[i] = p[i]
      /\ \A i \in 1 .. Len(q) : (p \o q)[Len(p) + i] = q[i]
  BY Concatenated DEF IsPrelude
<1>2. ASSUME NEW i \in 1 .. Len(p \o q)
      PROVE  (p \o q)[i][1] # "commit" /\ (p \o q)[i][1] \notin WriteOps
  <2>1. CASE i \in 1 .. Len(p)
    BY <1>1, <2>1 DEF IsPrelude
  <2>2. CASE i \notin 1 .. Len(p)
    <3> DEFINE j == i - Len(p)
    <3>1. j \in 1 .. Len(q) /\ i = Len(p) + j
      BY <1>1, <2>2
    <3> HIDE DEF j
    <3>2. (p \o q)[i] = q[j]
      BY <1>1, <3>1
    <3> QED
      BY <3>1, <3>2 DEF IsPrelude
  <2> QED
    BY <2>1, <2>2
<1> QED
  BY <1>1, <1>2 DEF IsPrelude

\* A part without a write only delays the write of the next.
LEMMA PreludeWrites ==
  ASSUME NEW p, NEW q, NEW w, IsPrelude(p), WritesAt(q, w)
  PROVE  WritesAt(p \o q, Len(p) + w)
<1>1. /\ IsSequence(p \o q) /\ Len(p) \in Nat /\ Len(q) \in Nat
      /\ Len(p \o q) = Len(p) + Len(q)
      /\ \A i \in 1 .. Len(p) : (p \o q)[i] = p[i]
      /\ \A i \in 1 .. Len(q) : (p \o q)[Len(p) + i] = q[i]
  BY Concatenated DEF IsPrelude, WritesAt
<1>2. w \in 1 .. Len(q) /\ w \in Nat /\ 1 <= w /\ w < Len(q)
  BY <1>1 DEF WritesAt
<1>3. (p \o q)[Len(p) + w] = q[w]
  BY <1>1, <1>2
<1>4. ASSUME NEW i \in 1 .. Len(p \o q)
      PROVE  /\ (p \o q)[i][1] = "commit" <=> i = Len(p \o q)
             /\ (p \o q)[i][1] \in {"begin", "read"} => i < Len(p) + w
             /\ (p \o q)[i][1] \in WriteOps => i = Len(p) + w
             /\ (p \o q)[i][1] = "leave" => lab = "skew"
  <2>1. CASE i \in 1 .. Len(p)
    <3>1. (p \o q)[i][1] # "commit" /\ (p \o q)[i][1] \notin WriteOps
      BY <1>1, <2>1 DEF IsPrelude
    <3>2. i < Len(p) + w /\ i # Len(p \o q)
      BY <1>1, <1>2, <2>1
    <3> QED
      BY <3>1, <3>2 DEF WriteOps
  <2>2. CASE i \notin 1 .. Len(p)
    <3> DEFINE j == i - Len(p)
    <3>1. j \in 1 .. Len(q) /\ i = Len(p) + j
      BY <1>1, <2>2
    <3> HIDE DEF j
    <3>2. (p \o q)[i] = q[j]
      BY <1>1, <3>1
    <3>3. /\ q[j][1] = "commit" <=> j = Len(q)
          /\ q[j][1] \in {"begin", "read"} => j < w
          /\ q[j][1] \in WriteOps => j = w
          /\ q[j][1] = "leave" => lab = "skew"
      BY <3>1 DEF WritesAt
    <3>4. /\ i = Len(p \o q) <=> j = Len(q)
          /\ i < Len(p) + w <=> j < w
          /\ i = Len(p) + w <=> j = w
      <4>1. /\ Len(p \o q) = Len(p) + Len(q) /\ i = Len(p) + j
            /\ Len(p) \in Nat /\ Len(q) \in Nat /\ w \in Nat /\ j \in Nat
        BY <1>1, <1>2, <3>1
      <4>2. \A m, l, n \in Nat : /\ m + n = m + l <=> n = l
                                /\ m + n < m + l <=> n < l
        OBVIOUS
      <4> QED
        BY <4>1, <4>2
    <3> QED
      BY <3>2, <3>3, <3>4, Zenon
  <2> QED
    BY <2>1, <2>2
<1> QED
  BY <1>1, <1>2, <1>3, <1>4 DEF WritesAt

\* Waiting for the other session first delays a write by one statement.
LEMMA AfterWrites ==
  ASSUME NEW p, NEW w, NEW s, NEW n, WritesAt(p, w)
  PROVE  WritesAt(After(s, n, p), w + 1)
<1>1. <<<<"until", s, n>>>> \in Seq({<<"until", s, n>>}) /\ Len(<<<<"until", s, n>>>>) = 1
  OBVIOUS
<1>2. IsPrelude(<<<<"until", s, n>>>>)
  <2>1. IsSequence(<<<<"until", s, n>>>>)
    BY <1>1 DEF IsSequence
  <2>2. \A i \in 1 .. 1 : <<<<"until", s, n>>>>[i][1] = "until"
    OBVIOUS
  <2> QED
    BY <1>1, <2>1, <2>2 DEF IsPrelude, WriteOps
<1>3. WritesAt(<<<<"until", s, n>>>> \o p, 1 + w)
  BY <1>1, <1>2, PreludeWrites
<1>4. 1 + w = w + 1
  BY DEF WritesAt
<1> QED
  BY <1>3, <1>4 DEF After

\* The increment writes at its fourth statement.
LEMMA IncrementsWrite == lab # "skew" => WritesAt(Increments, 4)
<1> DEFINE ops == {<<"connect">>, <<"begin", "SERIALIZABLE">>, <<"read">>, <<"set", "x">>, <<"commit">>}
<1>1. Increments \in Seq(ops) /\ Len(Increments) = 5
  BY DEF Increments
<1>2. IsSequence(Increments)
  BY <1>1 DEF IsSequence
<1> QED
  BY <1>1, <1>2, TwoSessions DEF WritesAt, Increments, WriteOps

\* The first session of the second phase of the serialization probe, which updates only
\* after the other session ended.
LEMMA DividedIncrementsWrite ==
  ASSUME lab # "skew"
  PROVE  WritesAt(SubSeq(Increments, 1, 3) \o After("B", 9, SubSeq(Increments, 4, 5)), 5)
<1> DEFINE ops == {<<"connect">>, <<"begin", "SERIALIZABLE">>, <<"read">>, <<"set", "x">>, <<"commit">>}
           head == SubSeq(Increments, 1, 3)
           tail == SubSeq(Increments, 4, 5)
<1>1. Increments \in Seq(ops) /\ Len(Increments) = 5
  BY DEF Increments
<1>2. \A i \in 1 .. 5 : Increments[i] \in ops
  BY DEF Increments
<1>3. /\ head \in Seq(ops) /\ Len(head) = 3
      /\ head[1] = Increments[1] /\ head[2] = Increments[2] /\ head[3] = Increments[3]
      /\ tail \in Seq(ops) /\ Len(tail) = 2
      /\ tail[1] = Increments[4] /\ tail[2] = Increments[5]
  <2> HIDE DEF ops
  <2>1. /\ head \in Seq(ops)
        /\ Len(head) = (IF 1 <= 3 THEN 3 - 1 + 1 ELSE 0)
        /\ \A i \in 1 .. 3 - 1 + 1 : head[i] = Increments[1 + i - 1]
    <3>1. \A i \in 1 .. 3 : Increments[i] \in ops
      BY <1>2
    <3> QED
      BY <3>1, SubSeqProperties
  <2>2. /\ tail \in Seq(ops)
        /\ Len(tail) = (IF 4 <= 5 THEN 5 - 4 + 1 ELSE 0)
        /\ \A i \in 1 .. 5 - 4 + 1 : tail[i] = Increments[4 + i - 1]
    <3>1. \A i \in 4 .. 5 : Increments[i] \in ops
      BY <1>2
    <3> QED
      BY <3>1, SubSeqProperties
  <2> HIDE DEF head, tail
  <2> QED
    BY <2>1, <2>2
<1>4. IsSequence(head) /\ IsSequence(tail)
  BY <1>3 DEF IsSequence
<1>5. Increments[1][1] = "connect" /\ Increments[2][1] = "begin" /\ Increments[3][1] = "read"
      /\ Increments[4] = <<"set", "x">> /\ Increments[5] = <<"commit">>
  BY DEF Increments
<1> HIDE DEF head, tail
<1>6. IsPrelude(head)
  BY <1>3, <1>4, <1>5 DEF IsPrelude, WriteOps
<1>7. WritesAt(tail, 1)
  BY <1>3, <1>4, <1>5, TwoSessions DEF WritesAt, WriteOps
<1>8. WritesAt(After("B", 9, tail), 2)
  BY <1>7, AfterWrites
<1>9. WritesAt(head \o After("B", 9, tail), Len(head) + 2)
  BY <1>6, <1>8, PreludeWrites
<1> QED
  BY <1>3, <1>9 DEF head, tail

\* A doctor who goes off call writes, with or without the lock.
LEMMA GoesOffCallWrites ==
  ASSUME lab = "skew", NEW row \in Row, NEW level
  PROVE  /\ \E w : WritesAt(GoesOffCall(row, level, FALSE), w)
         /\ \E w : WritesAt(GoesOffCall(row, level, TRUE), w)
<1> DEFINE first == <<<<"connect">>, <<"begin", level>>, <<"read">>>>
           middle == <<<<"meet", "read">>>>
           tail == <<<<"leave", row>>, <<"commit">>>>
<1>1. IsPrelude(first)
  <2>1. first \in Seq({<<"connect">>, <<"begin", level>>, <<"read">>}) /\ Len(first) = 3
    OBVIOUS
  <2>2. IsSequence(first)
    BY <2>1 DEF IsSequence
  <2>3. \A i \in 1 .. 3 : first[i][1] \in {"connect", "begin", "read"}
    OBVIOUS
  <2> QED
    BY <2>1, <2>2, <2>3 DEF IsPrelude, WriteOps
<1>2. IsPrelude(middle) /\ IsPrelude(<<>>)
  <2>1. middle \in Seq({<<"meet", "read">>}) /\ <<>> \in Seq({}) /\ Len(<<>>) = 0
    OBVIOUS
  <2>2. IsSequence(middle) /\ IsSequence(<<>>)
    BY <2>1 DEF IsSequence
  <2>3. \A i \in 1 .. Len(middle) : middle[i] = <<"meet", "read">>
    OBVIOUS
  <2> QED
    BY <2>1, <2>2, <2>3 DEF IsPrelude, WriteOps
<1>3. WritesAt(tail, 1)
  <2>1. tail \in Seq({<<"leave", row>>, <<"commit">>}) /\ Len(tail) = 2
    OBVIOUS
  <2>2. IsSequence(tail)
    BY <2>1 DEF IsSequence
  <2> QED
    BY <2>1, <2>2 DEF WritesAt, WriteOps
<1>4. /\ GoesOffCall(row, level, FALSE) = (first \o <<>>) \o tail
      /\ GoesOffCall(row, level, TRUE) = (first \o middle) \o tail
  BY Zenon DEF GoesOffCall
<1> HIDE DEF first, middle, tail
<1>5. /\ WritesAt((first \o <<>>) \o tail, Len(first \o <<>>) + 1)
      /\ WritesAt((first \o middle) \o tail, Len(first \o middle) + 1)
  BY <1>1, <1>2, <1>3, PreludesCompose, PreludeWrites
<1> QED
  BY <1>4, <1>5

\* Each phase of the write-skew probe starts afresh, and each of its sessions writes.
LEMMA SkewPhases ==
  ASSUME lab = "skew"
  PROVE  /\ Len(Phases) = 3
         /\ \A n \in 1 .. 3 : Phases[n].reset = TRUE
         /\ \A n \in 1 .. 3, s \in Session : \E w : WritesAt(Phases[n].run[s], w)
<1> DEFINE Off(level, together) == Pair(GoesOffCall("x", level, together), GoesOffCall("y", level, together))
           base == Off("REPEATABLE READ", FALSE)
<1>1. Phases = <<[reset |-> TRUE, run |-> [base EXCEPT !.B = After("A", 9, @)]],
                 [reset |-> TRUE, run |-> Off("REPEATABLE READ", TRUE)],
                 [reset |-> TRUE, run |-> Off("SERIALIZABLE", TRUE)]>>
  BY DEF Phases
<1>2. /\ Phases[1].run.A = GoesOffCall("x", "REPEATABLE READ", FALSE)
      /\ Phases[1].run.B = After("A", 9, GoesOffCall("y", "REPEATABLE READ", FALSE))
      /\ Phases[2].run.A = GoesOffCall("x", "REPEATABLE READ", TRUE)
      /\ Phases[2].run.B = GoesOffCall("y", "REPEATABLE READ", TRUE)
      /\ Phases[3].run.A = GoesOffCall("x", "SERIALIZABLE", TRUE)
      /\ Phases[3].run.B = GoesOffCall("y", "SERIALIZABLE", TRUE)
  BY <1>1 DEF Pair
<1> HIDE DEF Off, base
<1>3. Len(Phases) = 3 /\ \A n \in 1 .. 3 : Phases[n].reset = TRUE
  <2>1. Len(Phases) = 3
    BY <1>1
  <2>2. Phases[1].reset = TRUE /\ Phases[2].reset = TRUE /\ Phases[3].reset = TRUE
    BY <1>1
  <2> QED
    BY <2>1, <2>2
<1>4. ASSUME NEW n \in 1 .. 3, NEW s \in Session
      PROVE  \E w : WritesAt(Phases[n].run[s], w)
  <2>1. "x" \in Row /\ "y" \in Row /\ s \in {"A", "B"}
    BY TwoSessions
  <2>2. \A level : \A row \in Row :
          /\ \E w : WritesAt(GoesOffCall(row, level, FALSE), w)
          /\ \E w : WritesAt(GoesOffCall(row, level, TRUE), w)
    BY GoesOffCallWrites
  <2>3. \E w : WritesAt(After("A", 9, GoesOffCall("y", "REPEATABLE READ", FALSE)), w)
    <3>1. PICK w : WritesAt(GoesOffCall("y", "REPEATABLE READ", FALSE), w)
      BY <2>1, <2>2
    <3> QED
      BY <3>1, AfterWrites
  <2>4. \E w : WritesAt(Phases[1].run.A, w)
    BY <1>2, <2>1, <2>2
  <2>5. \E w : WritesAt(Phases[1].run.B, w)
    BY <1>2, <2>3
  <2>6. \E w : WritesAt(Phases[2].run.A, w)
    BY <1>2, <2>1, <2>2
  <2>7. \E w : WritesAt(Phases[2].run.B, w)
    BY <1>2, <2>1, <2>2
  <2>8. \E w : WritesAt(Phases[3].run.A, w)
    BY <1>2, <2>1, <2>2
  <2>9. \E w : WritesAt(Phases[3].run.B, w)
    BY <1>2, <2>1, <2>2
  <2> QED
    BY <2>1, <2>4, <2>5, <2>6, <2>7, <2>8, <2>9
<1> QED
  BY <1>3, <1>4

\* The sessions of the serialization probe write in every phase they take part in.
LEMMA SerializationPhases ==
  ASSUME lab = "serialization"
  PROVE  /\ Len(Phases) = 3
         /\ Phases[3].run["B"] = <<>>
         /\ \A n \in 1 .. 3, s \in Session :
              Phases[n].run[s] # <<>> => \E w : WritesAt(Phases[n].run[s], w)
<1> DEFINE divided == SubSeq(Increments, 1, 3) \o After("B", 9, SubSeq(Increments, 4, 5))
<1>1. Phases = <<[reset |-> TRUE, run |-> Pair(Increments, After("A", 9, Increments))],
                 [reset |-> TRUE, run |-> Pair(divided, After("A", 4, Increments))],
                 [reset |-> FALSE, run |-> Pair(Increments, <<>>)]>>
  BY DEF Phases
<1> HIDE DEF divided
<1>2. /\ Phases[1].run.A = Increments /\ Phases[1].run.B = After("A", 9, Increments)
      /\ Phases[2].run.A = divided /\ Phases[2].run.B = After("A", 4, Increments)
      /\ Phases[3].run.A = Increments /\ Phases[3].run.B = <<>>
  BY <1>1 DEF Pair
<1>3. Len(Phases) = 3
  BY <1>1
<1>4. /\ WritesAt(Increments, 4) /\ WritesAt(After("A", 9, Increments), 5)
      /\ WritesAt(After("A", 4, Increments), 5) /\ WritesAt(divided, 5)
  <2>1. WritesAt(Increments, 4) /\ WritesAt(divided, 5)
    BY IncrementsWrite, DividedIncrementsWrite DEF divided
  <2>2. \A n : WritesAt(After("A", n, Increments), 4 + 1)
    BY <2>1, AfterWrites
  <2> QED
    BY <2>1, <2>2
<1> QED
  BY <1>2, <1>3, <1>4, TwoSessions

\* The lock probe runs its session B alone before and after the phase that contends.
LEMMA LockPhases ==
  ASSUME lab = "lock"
  PROVE  Len(Phases) = 3 /\ Phases[1].run["A"] = <<>> /\ Phases[3].run["A"] = <<>>
BY DEF Phases, Pair

\* The deadlock probe has three phases as well.
LEMMA DeadlockPhases == lab = "deadlock" => Len(Phases) = 3
BY DEF Phases

-----------------------------------------------------------------------------
\* The laboratories that run in phases and say of each of them what the database did.
TxProbe == TransactionLab \ {"concrete"}

OutcomeAt(i, s) == IF i \in DOMAIN results THEN results[i].outcomes[s] ELSE work[s].outcome
SeenAt(i, s) == IF i \in DOMAIN results THEN results[i].seen[s] ELSE work[s].seen
ObservedAt(i) == IF i \in DOMAIN results THEN results[i].observed ELSE observed

IsDb(d) ==
  /\ DOMAIN d = {"value", "stamp", "clock", "tx", "waits", "closed"}
  /\ d.stamp \in [Row -> Nat] /\ d.clock \in Nat
  /\ DOMAIN d.tx = Session /\ DOMAIN d.waits = Session
  /\ \A s \in Session :
       DOMAIN d.tx[s] = {"level", "at", "read", "wrote"} /\ d.tx[s].at \in Nat \cup {-1}

\* An operation of one session leaves the other one's transaction and wait alone.
Spares(d, e, s) ==
  \A t \in Session \ {s} : e.tx[t] = d.tx[t] /\ e.waits[t] = d.waits[t]

SameCommits(d, e) == e.stamp = d.stamp /\ e.closed = d.closed
IsIdle(d, s) == d.tx[s] = FreshTx /\ d.waits[s] = NoRow

\* A fresh transaction has begun nothing, read nothing and written nothing.
LEMMA FreshTxIs ==
  /\ DOMAIN FreshTx = {"level", "at", "read", "wrote"} /\ FreshTx.at = -1
  /\ DOMAIN FreshTx.wrote = {} /\ FreshTx.level = "READ COMMITTED"
BY DEF FreshTx

\* A transaction reads as of some commit.
LEMMA SnapshotIs ==
  ASSUME NEW d, IsDb(d), NEW s \in Session
  PROVE  Snapshot(d, s) \in Nat
BY DEF Snapshot, IsDb

\* A fresh database is one, with both sessions idle and nothing committed.
LEMMA FreshDbIs ==
  ASSUME NEW values
  PROVE  /\ IsDb(FreshDb(values)) /\ \A s \in Session : IsIdle(FreshDb(values), s)
         /\ \A r \in Row : FreshDb(values).stamp[r] = 0
         /\ FreshDb(values).closed = {}
BY FreshTxIs DEF FreshDb, IsDb, IsIdle

\* Beginning touches the transaction of its own session alone.
LEMMA BeginDb ==
  ASSUME NEW d, IsDb(d), NEW s \in Session, NEW level
  PROVE  /\ IsDb(Begin(d, s, level)) /\ Spares(d, Begin(d, s, level), s)
         /\ SameCommits(d, Begin(d, s, level)) /\ Begin(d, s, level).waits = d.waits
<1> DEFINE new == [FreshTx EXCEPT !.level = level]
<1>1. DOMAIN new = {"level", "at", "read", "wrote"} /\ new.at \in Nat \cup {-1}
  BY FreshTxIs
<1>2. Begin(d, s, level) = [d EXCEPT !.tx[s] = new]
  BY DEF Begin
<1> HIDE DEF new
<1> QED
  BY <1>1, <1>2 DEF IsDb, Spares, SameCommits

\* Reading does too.
LEMMA ReadDb ==
  ASSUME NEW d, IsDb(d), NEW s \in Session, NEW rows
  PROVE  /\ IsDb(Read(d, s, rows)) /\ Spares(d, Read(d, s, rows), s)
         /\ SameCommits(d, Read(d, s, rows)) /\ Read(d, s, rows).waits = d.waits
<1> DEFINE new == [d.tx[s] EXCEPT !.at = Snapshot(d, s), !.read = rows]
<1>1. DOMAIN new = {"level", "at", "read", "wrote"} /\ new.at \in Nat
  BY SnapshotIs DEF IsDb
<1>2. Read(d, s, rows) = [d EXCEPT !.tx[s] = new]
  BY DEF Read, IsDb
<1> HIDE DEF new
<1> QED
  BY <1>1, <1>2 DEF IsDb, Spares, SameCommits

\* Waiting for a row changes only whom the session waits for.
LEMMA AwaitDb ==
  ASSUME NEW d, IsDb(d), NEW s \in Session, NEW row
  PROVE  /\ IsDb(Await(d, s, row)) /\ Spares(d, Await(d, s, row), s)
         /\ SameCommits(d, Await(d, s, row)) /\ Await(d, s, row).tx = d.tx
BY DEF Await, IsDb, Spares, SameCommits

\* Writing leaves a write in the session's transaction, and it waits no more.
LEMMA WriteDb ==
  ASSUME NEW d, IsDb(d), NEW s \in Session, NEW row, NEW value
  PROVE  /\ IsDb(Write(d, s, row, value)) /\ Spares(d, Write(d, s, row, value), s)
         /\ SameCommits(d, Write(d, s, row, value))
         /\ DOMAIN Write(d, s, row, value).tx[s].wrote # {}
         /\ Write(d, s, row, value).waits[s] = NoRow
<1> DEFINE wrote == [r \in {row} \cup DOMAIN d.tx[s].wrote |-> IF r = row THEN value ELSE d.tx[s].wrote[r]]
           new == [d.tx[s] EXCEPT !.at = Snapshot(d, s), !.wrote = wrote]
<1>1. row \in DOMAIN wrote
  OBVIOUS
<1> HIDE DEF wrote
<1>2. DOMAIN new = {"level", "at", "read", "wrote"} /\ new.at \in Nat /\ new.wrote = wrote
  BY SnapshotIs DEF IsDb
<1>3. Write(d, s, row, value) = [d EXCEPT !.waits[s] = NoRow, !.tx[s] = new]
  BY DEF Write, wrote
<1> HIDE DEF new
<1> QED
  BY <1>1, <1>2, <1>3 DEF IsDb, Spares, SameCommits

\* Rolling back leaves the session idle and commits nothing.
LEMMA RollbackDb ==
  ASSUME NEW d, IsDb(d), NEW s \in Session
  PROVE  /\ IsDb(Rollback(d, s)) /\ Spares(d, Rollback(d, s), s)
         /\ SameCommits(d, Rollback(d, s)) /\ IsIdle(Rollback(d, s), s)
BY FreshTxIs DEF Rollback, IsDb, Spares, SameCommits, IsIdle

\* A transaction that wrote nothing leaves no trace.
LEMMA CommitDb ==
  ASSUME NEW d, IsDb(d), NEW s \in Session
  PROVE  /\ IsDb(Commit(d, s)) /\ Spares(d, Commit(d, s), s) /\ IsIdle(Commit(d, s), s)
         /\ DOMAIN d.tx[s].wrote = {} =>
              /\ Commit(d, s).stamp = d.stamp
              /\ \A t \in Commit(d, s).closed : t \in d.closed \/ t.wrote = {}
<1> DEFINE tx == d.tx[s]
           back == Rollback(d, s)
           stamp == [r \in Row |-> IF r \in DOMAIN tx.wrote THEN d.clock + 1 ELSE d.stamp[r]]
           value == [r \in Row |-> IF r \in DOMAIN tx.wrote THEN tx.wrote[r] ELSE d.value[r]]
           closed == IF tx.level # "SERIALIZABLE" THEN d.closed
                     ELSE d.closed \cup {[commit |-> d.clock + 1, read |-> tx.read, wrote |-> DOMAIN tx.wrote]}
<1>1. /\ IsDb(back) /\ Spares(d, back, s) /\ IsIdle(back, s)
      /\ back.stamp = d.stamp /\ back.closed = d.closed /\ back.value = d.value
  BY RollbackDb DEF SameCommits, Rollback, IsDb
<1>2. Commit(d, s) = [back EXCEPT !.clock = d.clock + 1, !.value = value, !.stamp = stamp, !.closed = closed]
  BY <1>1 DEF Commit, IsDb
<1>3. stamp \in [Row -> Nat] /\ d.clock + 1 \in Nat
  BY DEF IsDb
<1>4. DOMAIN tx.wrote = {} => stamp = d.stamp /\ \A t \in closed : t \in d.closed \/ t.wrote = {}
  BY DEF IsDb
<1> HIDE DEF stamp, value, closed, back
<1>5. IsDb(Commit(d, s)) /\ Commit(d, s).stamp = stamp /\ Commit(d, s).closed = closed
      /\ Commit(d, s).tx = back.tx /\ Commit(d, s).waits = back.waits
  BY <1>1, <1>2, <1>3 DEF IsDb
<1> QED
  BY <1>1, <1>4, <1>5 DEF Spares, IsIdle

-----------------------------------------------------------------------------
\* Every phase that was begun has its results or is the one that runs.
PhaseInv ==
  /\ phase \in 1 .. 3 /\ IsSequence(results)
  /\ main = "join" => Len(results) = phase - 1
  /\ main = "done" => phase = 3 /\ Len(results) = 3

\* A session that ended has no transaction and waits for nothing, one that waits for a
\* row was recorded, and in the skew laboratory a row or a committed transaction shows a
\* write only if this phase has one.
DbInv ==
  /\ IsDb(db)
  /\ \A s \in Session : work[s].outcome # "running" => IsIdle(db, s)
  /\ db.waits["B"] # NoRow => Waits(phase)
  /\ lab = "skew" /\ Wrote(phase) = {} =>
       (\A r \in Row : db.stamp[r] = 0) /\ \A t \in db.closed : t.wrote = {}

\* A session that updates has its write ahead, has made it or saw that it need not.
ProgramInv ==
  lab \in {"skew", "serialization"} =>
    \A s \in Session : work[s].outcome = "running" =>
      \E w : /\ WritesAt(work[s].program, w)
             /\ work[s].at \in 1 .. Len(work[s].program)
             /\ \/ work[s].at <= w \/ DOMAIN db.tx[s].wrote # {}
                \/ lab = "skew" /\ work[s].seen <= 1

\* The outcomes of each phase and what the database did in it.
EventsInv == \A h \in history : h.phase \in 1 .. phase /\ h.session \in Session

AbortedInv ==
  lab = "deadlock" => \A i \in 1 .. phase, s \in Session :
    OutcomeAt(i, s) = "deadlock_aborted" <=> \E h \in Deadlocks : h.phase = i /\ h.session = s

CommittedInv ==
  /\ \A i \in 1 .. phase : \A s \in Wrote(i) : OutcomeAt(i, s) = "committed"
  /\ lab \in {"skew", "serialization"} => \A i \in 1 .. phase, s \in Session :
       OutcomeAt(i, s) = "committed" => s \in Wrote(i) \/ (lab = "skew" /\ SeenAt(i, s) <= 1)
  /\ lab = "skew" => \A i \in 1 .. phase, s \in Session :
       OutcomeAt(i, s) = "serialization_aborted" => Wrote(i) # {}
  /\ lab = "serialization" /\ phase = 3 => OutcomeAt(3, "B") = "none"

WaitedInv ==
  lab = "lock" => \A i \in 1 .. phase :
    /\ i # 2 => ~Waits(i) /\ OutcomeAt(i, "A") = "none"
    /\ ObservedAt(i) => Waits(i)

HistoryInv == EventsInv /\ AbortedInv /\ CommittedInv /\ WaitedInv

ProbeInv ==
  lab \in TxProbe =>
    /\ main \in {"start", "join", "done", "failed"}
    /\ main = "start" =>
         /\ phase = 1 /\ results = <<>> /\ history = {} /\ observed = FALSE
         /\ db = FreshDb(Initially)
    /\ main \in {"join", "done"} => PhaseInv /\ HistoryInv
    /\ main = "join" => DbInv /\ ProgramInv

\* Nothing has run at the start.
LEMMA ProbeInitInv == LabInit => ProbeInv
BY DEF LabInit, TxInit, ProbeInv, TxProbe

\* What leaves the phases, the database and the sessions alone keeps the invariant.
LEMMA ProbeIdle ==
  ASSUME ProbeInv, UNCHANGED <<lab, main, phase, results, history, observed, db, work>>
  PROVE  ProbeInv'
<1>1. UNCHANGED <<lab, main, phase, results, history, observed, db, work>>
  OBVIOUS
<1>2. \A i : Wrote(i)' = Wrote(i) /\ Waits(i)' = Waits(i)
  BY <1>1 DEF Wrote, Waits
<1>3. \A i, s : OutcomeAt(i, s)' = OutcomeAt(i, s) /\ SeenAt(i, s)' = SeenAt(i, s)
                /\ ObservedAt(i)' = ObservedAt(i)
  BY <1>1 DEF OutcomeAt, SeenAt, ObservedAt
<1>4. Deadlocks' = Deadlocks
  BY <1>1 DEF Deadlocks
<1>5. HistoryInv => HistoryInv'
  BY <1>1, <1>2, <1>3, <1>4 DEF HistoryInv, EventsInv, AbortedInv, CommittedInv, WaitedInv
<1>6. (DbInv => DbInv') /\ (PhaseInv => PhaseInv')
  BY <1>1, <1>2 DEF DbInv, PhaseInv
<1>7. ProgramInv => ProgramInv'
  BY <1>1 DEF ProgramInv, WritesAt
<1>8. Initially' = Initially
  BY <1>1 DEF Initially
<1> QED
  BY <1>1, <1>5, <1>6, <1>7, <1>8 DEF ProbeInv

\* An event of a session in the phase that runs, or none.
Noted(what, s) == IF what = "nothing" THEN UNCHANGED history ELSE Notes(what, s)

\* What an event adds to those of its phase.
LEMMA NotedAdds ==
  ASSUME NEW what, NEW s \in Session, Noted(what, s), phase \in 1 .. 3, phase' = phase, EventsInv
  PROVE  /\ \A i : Wrote(i)' = IF i = phase /\ what = "wrote" THEN Wrote(i) \cup {s} ELSE Wrote(i)
         /\ \A i : Waits(i)' <=> Waits(i) \/ (i = phase /\ what = "waited" /\ s = "B")
         /\ \A i, t : (\E h \in Deadlocks' : h.phase = i /\ h.session = t) <=>
                        \/ \E h \in Deadlocks : h.phase = i /\ h.session = t
                        \/ what = "deadlocked" /\ i = phase /\ t = s
         /\ EventsInv'
<1> DEFINE new == [phase |-> phase, what |-> what, session |-> s]
<1>1. CASE what = "nothing"
  <2>1. UNCHANGED history
    BY <1>1 DEF Noted
  <2> QED
    BY <1>1, <2>1 DEF Wrote, Waits, Deadlocks, EventsInv
<1>2. CASE what # "nothing"
  <2>1. new.phase = phase /\ new.what = what /\ new.session = s /\ history' = history \cup {new}
    BY <1>2 DEF Noted, Notes
  <2> HIDE DEF new
  <2>2. \A i : Wrote(i)' = IF i = phase /\ what = "wrote" THEN Wrote(i) \cup {s} ELSE Wrote(i)
    BY <2>1 DEF Wrote
  <2>3. \A i : Waits(i)' <=> Waits(i) \/ (i = phase /\ what = "waited" /\ s = "B")
    BY <2>1 DEF Waits
  <2>4. \A i, t : (\E h \in Deadlocks' : h.phase = i /\ h.session = t) <=>
                    \/ \E h \in Deadlocks : h.phase = i /\ h.session = t
                    \/ what = "deadlocked" /\ i = phase /\ t = s
    BY <2>1 DEF Deadlocks
  <2>5. EventsInv'
    BY <2>1 DEF EventsInv
  <2> QED
    BY <2>2, <2>3, <2>4, <2>5
<1> QED
  BY <1>1, <1>2

\* A step of one session concerns its own outcome of the phase that runs.
LEMMA StepOutcomes ==
  ASSUME main = "join", PhaseInv, UNCHANGED <<phase, results, observed>>
  PROVE  /\ \A t : /\ OutcomeAt(phase, t) = work[t].outcome
                   /\ SeenAt(phase, t) = work[t].seen
         /\ \A i \in 1 .. phase, t \in Session :
              /\ i = phase => /\ OutcomeAt(i, t)' = work'[t].outcome
                              /\ SeenAt(i, t)' = work'[t].seen
              /\ i # phase => /\ OutcomeAt(i, t)' = OutcomeAt(i, t)
                              /\ SeenAt(i, t)' = SeenAt(i, t)
         /\ \A i : ObservedAt(i)' = ObservedAt(i)
<1>1. DOMAIN results = 1 .. phase - 1
  BY DEF PhaseInv, IsSequence
<1>2. phase \in 1 .. 3
  BY DEF PhaseInv
<1> QED
  BY <1>1, <1>2 DEF OutcomeAt, SeenAt, ObservedAt

-----------------------------------------------------------------------------
\* A probe runs its sessions.
Runs == lab \in TxProbe /\ main = "join" /\ WorkInv /\ PhaseInv /\ DbInv /\ ProgramInv /\ HistoryInv

\* A step of one session in the phase that runs.
StepOf(s) ==
  /\ s \in Session /\ work[s].outcome = "running"
  /\ \A t \in Session \ {s} : work'[t] = work[t]
  /\ UNCHANGED <<lab, main, phase, results, observed>>

\* A session that goes on notes at most a wait, in the phase that can have one.
LEMMA GoesOnHistory ==
  ASSUME Runs, NEW s, StepOf(s), work'[s].outcome = "running",
         NEW what \in {"nothing", "waited"}, Noted(what, s),
         lab = "lock" /\ s = "B" /\ what = "waited" => phase = 2
  PROVE  HistoryInv'
<1>1. /\ \A t : OutcomeAt(phase, t) = work[t].outcome /\ SeenAt(phase, t) = work[t].seen
      /\ \A i \in 1 .. phase, t \in Session :
           /\ i = phase => OutcomeAt(i, t)' = work'[t].outcome /\ SeenAt(i, t)' = work'[t].seen
           /\ i # phase => OutcomeAt(i, t)' = OutcomeAt(i, t) /\ SeenAt(i, t)' = SeenAt(i, t)
      /\ \A i : ObservedAt(i)' = ObservedAt(i)
  BY StepOutcomes DEF Runs, StepOf
<1>2. /\ \A i : Wrote(i)' = Wrote(i)
      /\ \A i : Waits(i) => Waits(i)'
      /\ \A i : lab = "lock" /\ i # 2 /\ Waits(i)' => Waits(i)
      /\ \A i, t : (\E h \in Deadlocks' : h.phase = i /\ h.session = t)
                   <=> \E h \in Deadlocks : h.phase = i /\ h.session = t
      /\ EventsInv'
  <2>1. s \in Session /\ phase \in 1 .. 3 /\ phase' = phase /\ EventsInv
    BY DEF StepOf, Runs, HistoryInv, PhaseInv
  <2>2. /\ \A i : Wrote(i)' = IF i = phase /\ what = "wrote" THEN Wrote(i) \cup {s} ELSE Wrote(i)
        /\ \A i : Waits(i)' <=> Waits(i) \/ (i = phase /\ what = "waited" /\ s = "B")
        /\ \A i, t : (\E h \in Deadlocks' : h.phase = i /\ h.session = t) <=>
                       \/ \E h \in Deadlocks : h.phase = i /\ h.session = t
                       \/ what = "deadlocked" /\ i = phase /\ t = s
        /\ EventsInv'
    BY <2>1, NotedAdds
  <2>3. what # "wrote" /\ what # "deadlocked"
    OBVIOUS
  <2> QED
    BY <2>2, <2>3
<1>3. \A i \in 1 .. phase, t \in Session :
        /\ OutcomeAt(i, t)' = OutcomeAt(i, t)
        /\ OutcomeAt(i, t) # "running" => SeenAt(i, t)' = SeenAt(i, t)
  <2> TAKE i \in 1 .. phase, t \in Session
  <2>1. CASE i # phase
    BY <1>1, <2>1
  <2>2. CASE i = phase /\ t # s
    BY <1>1, <2>2 DEF StepOf
  <2>3. CASE i = phase /\ t = s
    BY <1>1, <2>3 DEF StepOf
  <2> QED
    BY <2>1, <2>2, <2>3
<1>4. UNCHANGED <<lab, phase>>
  BY DEF StepOf
<1>5. AbortedInv'
  BY <1>2, <1>3, <1>4 DEF Runs, HistoryInv, AbortedInv
<1>6. CommittedInv'
  <2>1. \A i \in 1 .. phase : \A t \in Wrote(i) : t \in Session
    BY DEF Wrote, Runs, HistoryInv, EventsInv
  <2>2. phase \in 1 .. 3 /\ "B" \in Session
    BY TwoSessions DEF Runs, PhaseInv
  <2> QED
    BY <1>2, <1>3, <1>4, <2>1, <2>2 DEF Runs, HistoryInv, CommittedInv
<1>7. WaitedInv'
  <2>1. "A" \in Session
    BY TwoSessions
  <2> QED
    BY <1>1, <1>2, <1>3, <1>4, <2>1 DEF Runs, HistoryInv, WaitedInv
<1> QED
  BY <1>2, <1>5, <1>6, <1>7 DEF HistoryInv

\* A session ends with an outcome and, perhaps, an event.
LEMMA EndsHistory ==
  ASSUME Runs, NEW s, StepOf(s), NEW outcome, work'[s].outcome = outcome,
         work'[s].seen = work[s].seen,
         NEW what \in {"nothing", "deadlocked", "wrote"}, Noted(what, s),
         lab = "deadlock" => (outcome = "deadlock_aborted" <=> what = "deadlocked"),
         what = "wrote" => outcome = "committed",
         outcome = "committed" /\ lab \in {"skew", "serialization"} =>
           what = "wrote" \/ (lab = "skew" /\ work[s].seen <= 1),
         lab = "skew" /\ outcome = "serialization_aborted" => Wrote(phase) # {}
  PROVE  HistoryInv'
<1>1. /\ \A t : OutcomeAt(phase, t) = work[t].outcome /\ SeenAt(phase, t) = work[t].seen
      /\ \A i \in 1 .. phase, t \in Session :
           /\ i = phase => OutcomeAt(i, t)' = work'[t].outcome /\ SeenAt(i, t)' = work'[t].seen
           /\ i # phase => OutcomeAt(i, t)' = OutcomeAt(i, t) /\ SeenAt(i, t)' = SeenAt(i, t)
      /\ \A i : ObservedAt(i)' = ObservedAt(i)
  BY StepOutcomes DEF Runs, StepOf
<1>2. \A i \in 1 .. phase, t \in Session :
        /\ SeenAt(i, t)' = SeenAt(i, t)
        /\ i = phase /\ t = s => OutcomeAt(i, t)' = outcome /\ OutcomeAt(i, t) = "running"
        /\ ~(i = phase /\ t = s) => OutcomeAt(i, t)' = OutcomeAt(i, t)
  <2> TAKE i \in 1 .. phase, t \in Session
  <2>1. CASE i # phase
    BY <1>1, <2>1
  <2>2. CASE i = phase /\ t # s
    BY <1>1, <2>2 DEF StepOf
  <2>3. CASE i = phase /\ t = s
    BY <1>1, <2>3 DEF StepOf
  <2> QED
    BY <2>1, <2>2, <2>3
<1>3. UNCHANGED <<lab, phase>> /\ phase \in 1 .. 3 /\ s \in Session
  BY DEF StepOf, Runs, PhaseInv
<1>4. /\ \A i : Wrote(i)' = IF i = phase /\ what = "wrote" THEN Wrote(i) \cup {s} ELSE Wrote(i)
      /\ \A i : Waits(i)' <=> Waits(i)
      /\ \A i, t : (\E h \in Deadlocks' : h.phase = i /\ h.session = t) <=>
                     \/ \E h \in Deadlocks : h.phase = i /\ h.session = t
                     \/ what = "deadlocked" /\ i = phase /\ t = s
      /\ EventsInv'
  <2>1. EventsInv
    BY DEF Runs, HistoryInv
  <2>2. /\ \A i : Wrote(i)' = IF i = phase /\ what = "wrote" THEN Wrote(i) \cup {s} ELSE Wrote(i)
        /\ \A i : Waits(i)' <=> Waits(i) \/ (i = phase /\ what = "waited" /\ s = "B")
        /\ \A i, t : (\E h \in Deadlocks' : h.phase = i /\ h.session = t) <=>
                       \/ \E h \in Deadlocks : h.phase = i /\ h.session = t
                       \/ what = "deadlocked" /\ i = phase /\ t = s
        /\ EventsInv'
    BY <1>3, <2>1, NotedAdds
  <2>3. what # "waited"
    OBVIOUS
  <2> QED
    BY <2>2, <2>3
<1>5. AbortedInv'
  <2> SUFFICES ASSUME lab = "deadlock", NEW i \in 1 .. phase, NEW t \in Session
               PROVE  OutcomeAt(i, t)' = "deadlock_aborted"
                      <=> \E h \in Deadlocks' : h.phase = i /\ h.session = t
    BY <1>3 DEF AbortedInv
  <2>1. OutcomeAt(i, t) = "deadlock_aborted"
        <=> \E h \in Deadlocks : h.phase = i /\ h.session = t
    BY DEF Runs, HistoryInv, AbortedInv
  <2>2. i = phase /\ t = s =>
          (OutcomeAt(i, t)' = "deadlock_aborted" <=> what = "deadlocked")
          /\ OutcomeAt(i, t) = "running"
    BY <1>2
  <2>3. ~(i = phase /\ t = s) => OutcomeAt(i, t)' = OutcomeAt(i, t)
    BY <1>2
  <2>4. CASE i = phase /\ t = s
    BY <1>4, <2>1, <2>2, <2>4
  <2>5. CASE ~(i = phase /\ t = s)
    BY <1>4, <2>1, <2>3, <2>5
  <2> QED
    BY <2>4, <2>5
<1>6. CommittedInv'
  <2>1. \A i \in 1 .. phase : \A t \in Wrote(i) : t \in Session /\ OutcomeAt(i, t) = "committed"
    BY DEF Wrote, Runs, HistoryInv, EventsInv, CommittedInv
  <2>2. \A i \in 1 .. phase : \A t \in Wrote(i)' : OutcomeAt(i, t)' = "committed"
    <3> SUFFICES ASSUME NEW i \in 1 .. phase, NEW t \in Wrote(i)' PROVE OutcomeAt(i, t)' = "committed"
      OBVIOUS
    <3>1. CASE t \in Wrote(i)
      BY <1>2, <2>1, <3>1
    <3>2. CASE t \notin Wrote(i)
      <4>1. i = phase /\ what = "wrote" /\ t = s
        BY <1>4, <3>2
      <4> QED
        BY <1>2, <1>3, <4>1
    <3> QED
      BY <3>1, <3>2
  <2>3. lab \in {"skew", "serialization"} => \A i \in 1 .. phase, t \in Session :
          OutcomeAt(i, t)' = "committed" => t \in Wrote(i)' \/ (lab = "skew" /\ SeenAt(i, t)' <= 1)
    <3> SUFFICES ASSUME lab \in {"skew", "serialization"}, NEW i \in 1 .. phase, NEW t \in Session,
                        OutcomeAt(i, t)' = "committed"
                 PROVE  t \in Wrote(i)' \/ (lab = "skew" /\ SeenAt(i, t)' <= 1)
      OBVIOUS
    <3>1. CASE i = phase /\ t = s
      BY <1>1, <1>2, <1>4, <3>1
    <3>2. CASE ~(i = phase /\ t = s)
      BY <1>2, <1>4, <3>2 DEF Runs, HistoryInv, CommittedInv
    <3> QED
      BY <3>1, <3>2
  <2>4. lab = "skew" => \A i \in 1 .. phase, t \in Session :
          OutcomeAt(i, t)' = "serialization_aborted" => Wrote(i)' # {}
    BY <1>2, <1>4 DEF Runs, HistoryInv, CommittedInv
  <2>5. lab = "serialization" /\ phase = 3 => OutcomeAt(3, "B")' = "none"
    BY <1>2, TwoSessions DEF Runs, HistoryInv, CommittedInv
  <2> QED
    BY <1>3, <2>2, <2>3, <2>4, <2>5 DEF CommittedInv
<1>7. WaitedInv'
  <2>1. "A" \in Session
    BY TwoSessions
  <2> QED
    BY <1>1, <1>2, <1>3, <1>4, <2>1 DEF Runs, HistoryInv, WaitedInv
<1> QED
  BY <1>4, <1>5, <1>6, <1>7 DEF HistoryInv

-----------------------------------------------------------------------------
\* A step of one session keeps the database's part of the invariant if it spares the other's
\* transaction.
LEMMA StepDb ==
  ASSUME Runs, NEW s, StepOf(s), IsDb(db'), Spares(db, db', s),
         work'[s].outcome # "running" => IsIdle(db', s),
         Waits(phase) => Waits(phase)',
         db'.waits[s] = db.waits[s] \/ db'.waits[s] = NoRow \/ (s = "B" => Waits(phase)'),
         Wrote(phase) \subseteq Wrote(phase)',
         lab = "skew" /\ Wrote(phase)' = {} =>
           db'.stamp = db.stamp /\ \A t \in db'.closed : t \in db.closed \/ t.wrote = {}
  PROVE  DbInv'
<1>1. phase' = phase /\ s \in Session /\ lab' = lab /\ "B" \in Session
  BY TwoSessions DEF StepOf
<1>2. \A t \in Session : work'[t].outcome # "running" => IsIdle(db', t)
  BY DEF Runs, DbInv, StepOf, Spares, IsIdle
<1>3. db'.waits["B"] # NoRow => Waits(phase)'
  BY <1>1 DEF Runs, DbInv, Spares
<1>4. lab' = "skew" /\ Wrote(phase)' = {} =>
        (\A r \in Row : db'.stamp[r] = 0) /\ \A t \in db'.closed : t.wrote = {}
  BY <1>1 DEF Runs, DbInv
<1>5. \A t \in Session : work'[t].outcome # "running" => IsIdle(db, t)'
  BY <1>2 DEF IsIdle
<1>6. IsDb(db)'
  BY DEF IsDb
<1> QED
  BY <1>3, <1>4, <1>5, <1>6 DEF DbInv

\* A step of one session keeps the programs' part if it passes a write only by writing.
LEMMA StepProgram ==
  ASSUME Runs, NEW s, StepOf(s), Spares(db, db', s),
         lab \in {"skew", "serialization"} /\ work'[s].outcome = "running" =>
           /\ work'[s].program = work[s].program
           /\ \A w : WritesAt(work[s].program, w) /\ work[s].at \in 1 .. Len(work[s].program) =>
                \/ UNCHANGED work /\ db'.tx[s] = db.tx[s]
                \/ /\ work'[s].at \in 1 .. Len(work[s].program)
                   /\ (work'[s].at <= w \/ DOMAIN db'.tx[s].wrote # {}
                       \/ (lab = "skew" /\ work'[s].seen <= 1))
                \/ /\ work'[s].at \in 1 .. Len(work[s].program) /\ work[s].at > w
                   /\ db'.tx[s] = db.tx[s] /\ work'[s].seen = work[s].seen
  PROVE  ProgramInv'
<1> SUFFICES ASSUME lab \in {"skew", "serialization"}, NEW t \in Session, work'[t].outcome = "running"
             PROVE  \E w : /\ WritesAt(work[t].program, w)'
                           /\ work'[t].at \in 1 .. Len(work'[t].program)
                           /\ \/ work'[t].at <= w \/ DOMAIN db'.tx[t].wrote # {}
                              \/ lab = "skew" /\ work'[t].seen <= 1
  BY DEF ProgramInv, StepOf
<1>1. \A p, w : WritesAt(p, w)' <=> WritesAt(p, w)
  BY DEF WritesAt, StepOf
<1>2. work[t].outcome = "running"
  BY DEF StepOf
<1>3. PICK w : /\ WritesAt(work[t].program, w)
               /\ work[t].at \in 1 .. Len(work[t].program)
               /\ \/ work[t].at <= w \/ DOMAIN db.tx[t].wrote # {}
                  \/ lab = "skew" /\ work[t].seen <= 1
  BY <1>2 DEF Runs, ProgramInv
<1>4. w \in Nat
  BY <1>3 DEF WritesAt
<1>5. work'[t].program = work[t].program
  BY DEF StepOf
<1>6. WritesAt(work[t].program, w)'
  BY <1>3, <1>5 DEF WritesAt, StepOf
<1>7. CASE t # s
  BY <1>3, <1>5, <1>6, <1>7 DEF StepOf, Spares
<1>8. CASE t = s
  BY <1>3, <1>4, <1>5, <1>6, <1>8
<1> QED
  BY <1>7, <1>8

\* What the outcomes of the probes say of the errors that stopped their sessions.
LEMMA OutcomesOfErrors ==
  ASSUME NEW error
  PROVE  /\ OutcomeOf(error) \notin {"running", "committed", "none"}
         /\ OutcomeOf(error) = "serialization_aborted" => error = "40001"
         /\ lab = "deadlock" => (OutcomeOf(error) = "deadlock_aborted" <=> error = "40P01")
BY DEF OutcomeOf

Keeps == PhaseInv /\ HistoryInv /\ DbInv /\ ProgramInv

\* A session that fails is rolled back, and a deadlock is noted with the error that names
\* it.
LEMMA FailsKeeps ==
  ASSUME Runs, NEW s, StepOf(s), NEW error, Fails(s, error),
         NEW what \in {"nothing", "deadlocked"}, Noted(what, s),
         what = "deadlocked" <=> error = "40P01",
         lab = "skew" /\ error = "40001" => Wrote(phase) # {}
  PROVE  Keeps'
<1>1. /\ work'[s].outcome = OutcomeOf(error) /\ work'[s].seen = work[s].seen
      /\ work'[s].program = work[s].program /\ s \in Session
  BY DEF Fails, Ends, Runs, WorkInv, StepOf
<1>2. PhaseInv'
  BY DEF Runs, PhaseInv, StepOf
<1>3. HistoryInv'
  BY <1>1, OutcomesOfErrors, EndsHistory
<1>4. /\ IsDb(db') /\ Spares(db, db', s) /\ IsIdle(db', s) /\ SameCommits(db, db')
  BY <1>1, RollbackDb DEF Fails, Runs, DbInv
<1>5. /\ Waits(phase) => Waits(phase)'
      /\ Wrote(phase)' = Wrote(phase)
  <2>1. phase \in 1 .. 3 /\ phase' = phase /\ EventsInv
    BY DEF Runs, PhaseInv, StepOf, HistoryInv
  <2>2. /\ \A i : Wrote(i)' = IF i = phase /\ what = "wrote" THEN Wrote(i) \cup {s} ELSE Wrote(i)
        /\ \A i : Waits(i)' <=> Waits(i) \/ (i = phase /\ what = "waited" /\ s = "B")
    BY <1>1, <2>1, NotedAdds
  <2> QED
    BY <2>1, <2>2
<1>6. DbInv'
  BY <1>4, <1>5, StepDb DEF IsIdle, SameCommits
<1>7. ProgramInv'
  BY <1>1, <1>4, OutcomesOfErrors, StepProgram
<1> QED
  BY <1>2, <1>3, <1>6, <1>7 DEF Keeps

\* A step of a session that goes on, at one place of its program.
LEMMA GoesOnKeeps ==
  ASSUME Runs, NEW s, StepOf(s), work'[s].outcome = "running",
         work'[s].program = work[s].program, UNCHANGED history,
         IsDb(db'), Spares(db, db', s), SameCommits(db, db'),
         db'.waits[s] = db.waits[s] \/ db'.waits[s] = NoRow,
         \/ UNCHANGED work /\ db'.tx[s] = db.tx[s]
         \/ /\ work'[s].at = work[s].at + 1
            /\ \/ Op(s)[1] \in {"begin", "read"}
               \/ /\ Op(s)[1] \notin WriteOps \cup {"commit"}
                  /\ db'.tx[s] = db.tx[s] /\ work'[s].seen = work[s].seen
               \/ Op(s)[1] = "leave" /\ work[s].seen <= 1 /\ work'[s].seen = work[s].seen
               \/ Op(s)[1] \in WriteOps /\ DOMAIN db'.tx[s].wrote # {}
  PROVE  Keeps'
<1>1. PhaseInv'
  BY DEF Runs, PhaseInv, StepOf
<1>2. Noted("nothing", s) /\ s \in Session /\ phase' = phase
  BY DEF Noted, StepOf
<1>3. HistoryInv'
  BY <1>2, GoesOnHistory
<1>4. DbInv'
  <2>1. Wrote(phase)' = Wrote(phase) /\ (Waits(phase)' <=> Waits(phase))
    BY <1>2 DEF Wrote, Waits
  <2> QED
    BY <2>1, StepDb DEF SameCommits
<1>5. ProgramInv'
  <2>1. ASSUME NEW w, WritesAt(work[s].program, w), work[s].at \in 1 .. Len(work[s].program)
        PROVE  \/ UNCHANGED work /\ db'.tx[s] = db.tx[s]
               \/ /\ work'[s].at \in 1 .. Len(work[s].program)
                  /\ (work'[s].at <= w \/ DOMAIN db'.tx[s].wrote # {}
                      \/ (lab = "skew" /\ work'[s].seen <= 1))
               \/ /\ work'[s].at \in 1 .. Len(work[s].program) /\ work[s].at > w
                  /\ db'.tx[s] = db.tx[s] /\ work'[s].seen = work[s].seen
    <3> DEFINE at == work[s].at
               end == Len(work[s].program)
               op == Op(s)[1]
    <3>1. /\ w \in Nat /\ 1 <= w /\ w < end /\ end \in Nat /\ at \in Nat
          /\ op = "commit" <=> at = end
          /\ op \in {"begin", "read"} => at < w
          /\ op \in WriteOps => at = w
          /\ op = "leave" => lab = "skew"
      <4>1. end \in Nat
        BY <2>1 DEF WritesAt, IsSequence
      <4> QED
        BY <2>1, <4>1 DEF WritesAt, Op
    <3>2. work[s].program[w][1] \in WriteOps
      BY <2>1 DEF WritesAt, WriteOps
    <3>3. at = w => op \in WriteOps
      BY <3>2 DEF Op
    <3>4. "commit" \notin WriteOps /\ "begin" \notin WriteOps /\ "read" \notin WriteOps
          /\ "leave" \in WriteOps
      BY DEF WriteOps
    <3>5. at \in 1 .. end
      BY <2>1
    <3> HIDE DEF at, end, op
    <3>6. CASE UNCHANGED work /\ db'.tx[s] = db.tx[s]
      BY <3>6
    <3>7. CASE work'[s].at = at + 1 /\ op \in {"begin", "read"}
      <4>1. at + 1 \in 1 .. end /\ at + 1 <= w
        BY <3>1, <3>5, <3>7
      <4>2. work'[s].at \in 1 .. end /\ work'[s].at <= w
        BY <3>7, <4>1
      <4> QED
        BY <4>2 DEF end
    <3>8. CASE /\ work'[s].at = at + 1 /\ op \notin WriteOps \cup {"commit"}
               /\ db'.tx[s] = db.tx[s] /\ work'[s].seen = work[s].seen
      <4>1. at + 1 \in 1 .. end /\ (at + 1 <= w \/ at > w)
        <5>1. at # end /\ at # w
          BY <3>1, <3>3, <3>8
        <5> QED
          BY <3>1, <3>5, <5>1
      <4>2. work'[s].at \in 1 .. end /\ (work'[s].at <= w \/ at > w)
        BY <3>8, <4>1
      <4> QED
        BY <3>8, <4>2 DEF at, end
    <3>9. CASE /\ work'[s].at = at + 1 /\ op = "leave" /\ work[s].seen <= 1
               /\ work'[s].seen = work[s].seen
      BY <3>1, <3>4, <3>5, <3>9 DEF at, end
    <3>10. CASE work'[s].at = at + 1 /\ op \in WriteOps /\ DOMAIN db'.tx[s].wrote # {}
      <4>1. at + 1 \in 1 .. end
        <5>1. at # end
          BY <3>1, <3>4, <3>10
        <5> QED
          BY <3>1, <3>5, <5>1
      <4>2. work'[s].at \in 1 .. end
        BY <3>10, <4>1
      <4> QED
        BY <3>10, <4>2 DEF end
    <3> QED
      BY <3>6, <3>7, <3>8, <3>9, <3>10 DEF at, op
  <2> QED
    BY <2>1, StepProgram
<1> QED
  BY <1>1, <1>3, <1>4, <1>5 DEF Keeps

-----------------------------------------------------------------------------
\* What a session that runs shares with the steps of the others.
LEMMA RunningStep ==
  ASSUME Runs, NEW s \in Session, IsRunning(s),
         UNCHANGED <<lab, main, phase, results, observed>>,
         \/ UNCHANGED work \/ Advances(s) \/ \E outcome : Ends(s, outcome)
         \/ \E seen : work' = [work EXCEPT ![s].at = @ + 1, ![s].seen = seen]
  PROVE  /\ StepOf(s) /\ work'[s].program = work[s].program
         /\ UNCHANGED work => work'[s].outcome = "running"
         /\ Advances(s) => /\ work'[s].outcome = "running" /\ work'[s].at = work[s].at + 1
                           /\ work'[s].seen = work[s].seen
         /\ \A seen : work' = [work EXCEPT ![s].at = @ + 1, ![s].seen = seen] =>
              work'[s].outcome = "running" /\ work'[s].at = work[s].at + 1
         /\ \A outcome : Ends(s, outcome) =>
              work'[s].outcome = outcome /\ work'[s].seen = work[s].seen
BY DEF StepOf, IsRunning, Runs, WorkInv, Advances, Ends

\* A conflict under serializable isolation needs a write that a session of this phase
\* committed.
LEMMA SkewNeedsWrites ==
  ASSUME Runs, NEW s \in Session, lab = "skew"
  PROVE  /\ \A row \in Row : IsOutdated(db, s, row) => Wrote(phase) # {}
         /\ IsSkewed(db, s) => Wrote(phase) # {}
<1>1. ASSUME NEW row \in Row, IsOutdated(db, s, row) PROVE Wrote(phase) # {}
  <2>1. db.stamp[row] > Snapshot(db, s) /\ Snapshot(db, s) \in Nat
    BY <1>1, SnapshotIs DEF IsOutdated, Runs, DbInv
  <2> QED
    BY <2>1 DEF Runs, DbInv
<1>2. ASSUME IsSkewed(db, s) PROVE Wrote(phase) # {}
  <2>1. \E t \in db.closed : t.wrote # {}
    BY <1>2 DEF IsSkewed
  <2> QED
    BY <2>1 DEF Runs, DbInv
<1> QED
  BY <1>1, <1>2

\* An unchanged history notes nothing.
LEMMA NothingIsNoted == ASSUME NEW s, UNCHANGED history PROVE Noted("nothing", s)
BY DEF Noted

\* Beginning, waiting for the other session and rolling back keep the invariant.
LEMMA StepsKeeps ==
  ASSUME Runs, NEW s \in Session, Steps(s)
  PROVE  Keeps'
<1>1. IsRunning(s) /\ Advances(s) /\ UNCHANGED <<lab, main, phase, results, observed, history>>
  BY DEF Steps
<1>2. /\ StepOf(s) /\ work'[s].program = work[s].program
      /\ work'[s].outcome = "running" /\ work'[s].at = work[s].at + 1
      /\ work'[s].seen = work[s].seen
  BY <1>1, RunningStep
<1>3. IsDb(db)
  BY DEF Runs, DbInv
<1>4. CASE Op(s)[1] \in {"connect", "sleep", "until", "register"} /\ UNCHANGED db
  <2>1. Op(s)[1] \notin WriteOps \cup {"commit"}
    BY <1>4 DEF WriteOps
  <2>2. IsDb(db') /\ Spares(db, db', s) /\ SameCommits(db, db')
        /\ db'.waits[s] = db.waits[s] /\ db'.tx[s] = db.tx[s]
    BY <1>3, <1>4 DEF Spares, SameCommits
  <2> QED
    BY <1>1, <1>2, <2>1, <2>2, GoesOnKeeps
<1>5. CASE Op(s)[1] = "begin" /\ db' = Begin(db, s, Op(s)[2])
  <2>1. IsDb(db') /\ Spares(db, db', s) /\ SameCommits(db, db') /\ db'.waits[s] = db.waits[s]
    BY <1>3, <1>5, BeginDb
  <2> QED
    BY <1>1, <1>2, <1>5, <2>1, GoesOnKeeps
<1>6. CASE Op(s)[1] = "leave" /\ work[s].seen <= 1 /\ UNCHANGED db
  <2>1. IsDb(db') /\ Spares(db, db', s) /\ SameCommits(db, db')
        /\ db'.waits[s] = db.waits[s]
    BY <1>3, <1>6 DEF Spares, SameCommits
  <2> QED
    BY <1>1, <1>2, <1>6, <2>1, GoesOnKeeps
<1> QED
  BY <1>4, <1>5, <1>6 DEF Steps

\* So does reading, which may meet a conflict.
LEMMA ReadsKeeps ==
  ASSUME Runs, NEW s \in Session, Reads(s)
  PROVE  Keeps'
<1>1. IsRunning(s) /\ Op(s)[1] = "read" /\ UNCHANGED <<lab, main, phase, results, observed, history>>
      /\ (\E seen : work' = [work EXCEPT ![s].at = @ + 1, ![s].seen = seen])
      /\ \E rows : db' = Read(db, s, rows)
  BY DEF Reads
<1>2. /\ StepOf(s) /\ work'[s].program = work[s].program
      /\ work'[s].outcome = "running" /\ work'[s].at = work[s].at + 1
  BY <1>1, RunningStep
<1>3. IsDb(db') /\ Spares(db, db', s) /\ SameCommits(db, db') /\ db'.waits[s] = db.waits[s]
  BY <1>1, ReadDb DEF Runs, DbInv
<1> QED
  BY <1>1, <1>2, <1>3, GoesOnKeeps

\* The wait of the second session of the lock laboratory takes the first one to hold
\* a row, which it does in the second phase only.
LEMMA WaitsForOther ==
  ASSUME Runs, NEW row, lab = "lock", IsLocked(db, "B", row)
  PROVE  phase = 2
<1>1. PICK t \in Session \ {"B"} : row \in DOMAIN db.tx[t].wrote
  BY DEF IsLocked
<1>2. t = "A" /\ t \in Session
  BY TwoSessions
<1>3. db.tx[t] # FreshTx
  BY <1>1, FreshTxIs
<1>4. work[t].outcome = "running"
  BY <1>2, <1>3 DEF Runs, DbInv, IsIdle
<1>5. OutcomeAt(phase, "A") = "running" /\ phase \in 1 .. 3
  <2>1. phase \notin DOMAIN results
    BY DEF Runs, PhaseInv, IsSequence
  <2> QED
    BY <1>2, <1>4, <2>1 DEF OutcomeAt, Runs, PhaseInv
<1> QED
  BY <1>5 DEF Runs, HistoryInv, WaitedInv

\* So does writing, which may wait, meet a conflict or go through.
LEMMA WritesKeeps ==
  ASSUME Runs, NEW s \in Session, Writes(s)
  PROVE  Keeps'
<1>1. IsRunning(s) /\ Op(s)[1] \in WriteOps /\ UNCHANGED <<lab, main, phase, results, observed>>
  BY DEF Writes, WriteOps
<1>2. IsDb(db) /\ EventsInv /\ phase \in 1 .. 3 /\ phase' = phase
  BY <1>1 DEF Runs, DbInv, HistoryInv, PhaseInv
<1>3. CASE IsLocked(db, s, Op(s)[2]) /\ db' = Await(db, s, Op(s)[2]) /\ Notes("waited", s) /\ UNCHANGED work
  <2>1. /\ StepOf(s) /\ work'[s].outcome = "running"
    BY <1>1, <1>3, RunningStep
  <2>2. Noted("waited", s)
    BY <1>3 DEF Noted
  <2>3. HistoryInv'
    <3>1. lab = "lock" /\ s = "B" => phase = 2
      BY <1>3, WaitsForOther
    <3> QED
      BY <2>1, <2>2, <3>1, GoesOnHistory
  <2>4. /\ IsDb(db') /\ Spares(db, db', s) /\ SameCommits(db, db') /\ db'.tx = db.tx
    BY <1>2, <1>3, AwaitDb
  <2>5. /\ \A i : Wrote(i)' = IF i = phase /\ "waited" = "wrote" THEN Wrote(i) \cup {s} ELSE Wrote(i)
        /\ \A i : Waits(i)' <=> Waits(i) \/ (i = phase /\ "waited" = "waited" /\ s = "B")
    BY <1>2, <2>2, NotedAdds
  <2>6. /\ Wrote(phase)' = Wrote(phase) /\ (Waits(phase) => Waits(phase)')
        /\ s = "B" => Waits(phase)'
    BY <1>2, <2>5
  <2>7. DbInv'
    BY <2>1, <2>4, <2>6, StepDb DEF SameCommits
  <2>8. ProgramInv'
    <3>1. work'[s].program = work[s].program /\ UNCHANGED work /\ db'.tx[s] = db.tx[s]
      BY <1>3, <2>4
    <3> QED
      BY <2>1, <2>4, <3>1, StepProgram
  <2>9. PhaseInv'
    BY <1>1 DEF Runs, PhaseInv
  <2> QED
    BY <2>3, <2>7, <2>8, <2>9 DEF Keeps
<1>4. CASE db' = Write(db, s, Op(s)[2], NewValue(s)) /\ Advances(s) /\ UNCHANGED history
  <2>1. /\ StepOf(s) /\ work'[s].program = work[s].program
        /\ work'[s].outcome = "running" /\ work'[s].at = work[s].at + 1
    BY <1>1, <1>4, RunningStep
  <2>2. /\ IsDb(db') /\ Spares(db, db', s) /\ SameCommits(db, db')
        /\ DOMAIN db'.tx[s].wrote # {} /\ db'.waits[s] = NoRow
    BY <1>2, <1>4, WriteDb
  <2> QED
    BY <1>1, <1>4, <2>1, <2>2, GoesOnKeeps
<1>5. CASE IsOutdated(db, s, Op(s)[2]) /\ Fails(s, "40001") /\ UNCHANGED history
  <2>1. StepOf(s)
    BY <1>1, <1>5, RunningStep DEF Fails
  <2>2. Noted("nothing", s)
    BY <1>5, NothingIsNoted
  <2>3. lab = "skew" => Wrote(phase) # {}
    <3> SUFFICES ASSUME lab = "skew" PROVE Wrote(phase) # {}
      OBVIOUS
    <3>1. PICK w : WritesAt(work[s].program, w) /\ work[s].at \in 1 .. Len(work[s].program)
      BY <1>1 DEF Runs, ProgramInv, IsRunning
    <3>2. Op(s)[2] \in Row
      BY <1>1, <3>1 DEF WritesAt, Op
    <3> QED
      BY <1>5, <3>2, SkewNeedsWrites
  <2> QED
    BY <1>5, <2>1, <2>2, <2>3, FailsKeeps
<1> QED
  BY <1>3, <1>4, <1>5 DEF Writes

-----------------------------------------------------------------------------
\* So does committing, which the history notes if something was written.
LEMMA CommitsKeeps ==
  ASSUME Runs, NEW s \in Session, Commits(s)
  PROVE  Keeps'
<1>1. IsRunning(s) /\ Op(s)[1] = "commit" /\ UNCHANGED <<lab, main, phase, results, observed>>
  BY DEF Commits
<1>2. IsDb(db) /\ EventsInv /\ phase \in 1 .. 3 /\ phase' = phase
  BY <1>1 DEF Runs, DbInv, HistoryInv, PhaseInv
<1>3. CASE IsSkewed(db, s) /\ Fails(s, "40001") /\ UNCHANGED history
  <2>1. StepOf(s)
    BY <1>1, <1>3, RunningStep DEF Fails
  <2>2. Noted("nothing", s)
    BY <1>3, NothingIsNoted
  <2> QED
    BY <1>3, <2>1, <2>2, SkewNeedsWrites, FailsKeeps
<1>4. ASSUME db' = Commit(db, s), Ends(s, "committed"),
             NEW what \in {"nothing", "wrote"}, Noted(what, s),
             what = "nothing" => DOMAIN db.tx[s].wrote = {}
      PROVE  Keeps'
  <2>1. /\ StepOf(s) /\ work'[s].outcome = "committed" /\ work'[s].seen = work[s].seen
    BY <1>1, <1>4, RunningStep
  <2>2. lab \in {"skew", "serialization"} => what = "wrote" \/ (lab = "skew" /\ work[s].seen <= 1)
    <3> SUFFICES ASSUME lab \in {"skew", "serialization"}, what = "nothing"
                 PROVE  lab = "skew" /\ work[s].seen <= 1
      OBVIOUS
    <3>1. PICK w : /\ WritesAt(work[s].program, w)
                   /\ work[s].at \in 1 .. Len(work[s].program)
                   /\ \/ work[s].at <= w \/ DOMAIN db.tx[s].wrote # {}
                      \/ lab = "skew" /\ work[s].seen <= 1
      BY <1>1 DEF Runs, ProgramInv, IsRunning
    <3>2. work[s].at = Len(work[s].program) /\ w < Len(work[s].program) /\ w \in Nat
      BY <1>1, <3>1 DEF WritesAt, Op
    <3>3. ~(work[s].at <= w)
      BY <3>1, <3>2
    <3> QED
      BY <1>4, <3>1, <3>3
  <2>3. HistoryInv'
    BY <1>4, <2>1, <2>2, EndsHistory
  <2>4. /\ IsDb(db') /\ Spares(db, db', s) /\ IsIdle(db', s)
        /\ DOMAIN db.tx[s].wrote = {} =>
             /\ db'.stamp = db.stamp
             /\ \A t \in db'.closed : t \in db.closed \/ t.wrote = {}
    BY <1>2, <1>4, CommitDb
  <2>5. /\ \A i : Wrote(i)' = IF i = phase /\ what = "wrote" THEN Wrote(i) \cup {s} ELSE Wrote(i)
        /\ \A i : Waits(i)' <=> Waits(i) \/ (i = phase /\ what = "waited" /\ s = "B")
    BY <1>2, <1>4, NotedAdds
  <2>6. /\ Wrote(phase) \subseteq Wrote(phase)' /\ (Waits(phase) => Waits(phase)')
        /\ Wrote(phase)' = {} => what = "nothing"
    BY <1>2, <2>5
  <2>7. DbInv'
    BY <1>4, <2>1, <2>4, <2>6, StepDb DEF IsIdle
  <2>8. ProgramInv'
    BY <2>1, <2>4, StepProgram
  <2>9. PhaseInv'
    BY <1>1 DEF Runs, PhaseInv
  <2> QED
    BY <2>3, <2>7, <2>8, <2>9 DEF Keeps
<1>5. CASE db' = Commit(db, s) /\ Ends(s, "committed") /\ Notes("wrote", s)
  <2>1. Noted("wrote", s)
    BY <1>5 DEF Noted
  <2> QED
    BY <1>4, <1>5, <2>1
<1>6. CASE db' = Commit(db, s) /\ Ends(s, "committed") /\ UNCHANGED history /\ DOMAIN db.tx[s].wrote = {}
  <2>1. Noted("nothing", s)
    BY <1>6, NothingIsNoted
  <2> QED
    BY <1>4, <1>6, <2>1
<1> QED
  BY <1>3, <1>5, <1>6 DEF Commits

\* So do a detected deadlock, an answer of the barrier and a fault of the server.
LEMMA OthersKeepProbe ==
  ASSUME Runs, NEW s \in Session, Detects(s) \/ Meets(s) \/ Faulty(s)
  PROVE  Keeps'
<1>1. IsRunning(s) /\ UNCHANGED <<lab, main, phase, results, observed>>
  BY DEF Detects, Meets, Faulty
<1>2. ASSUME NEW error, error \notin {"40P01", "40001"}, Fails(s, error), UNCHANGED history
      PROVE  Keeps'
  <2>1. StepOf(s)
    BY <1>1, <1>2, RunningStep DEF Fails
  <2>2. Noted("nothing", s)
    BY <1>2, NothingIsNoted
  <2> QED
    BY <1>2, <2>1, <2>2, FailsKeeps
<1>3. CASE Detects(s)
  <2>1. Fails(s, "40P01") /\ Notes("deadlocked", s)
    BY <1>3 DEF Detects
  <2>2. StepOf(s)
    BY <1>1, <2>1, RunningStep DEF Fails
  <2>3. Noted("deadlocked", s)
    BY <2>1 DEF Noted
  <2> QED
    BY <2>1, <2>2, <2>3, FailsKeeps
<1>4. CASE Meets(s)
  <2>1. Op(s)[1] = "meet" /\ UNCHANGED history /\ IsDb(db)
    BY <1>4 DEF Meets, Runs, DbInv
  <2>2. CASE UNCHANGED <<work, db>>
    <3>1. StepOf(s) /\ work'[s].outcome = "running" /\ work'[s].program = work[s].program
      BY <1>1, <2>2, RunningStep
    <3>2. IsDb(db') /\ Spares(db, db', s) /\ SameCommits(db, db')
          /\ db'.waits[s] = db.waits[s] /\ db'.tx[s] = db.tx[s]
      BY <2>1, <2>2 DEF Spares, SameCommits
    <3> QED
      BY <2>1, <2>2, <3>1, <3>2, GoesOnKeeps
  <2>3. CASE Advances(s) /\ UNCHANGED db
    <3>1. /\ StepOf(s) /\ work'[s].program = work[s].program
          /\ work'[s].outcome = "running" /\ work'[s].at = work[s].at + 1
          /\ work'[s].seen = work[s].seen
      BY <1>1, <2>3, RunningStep
    <3>2. IsDb(db') /\ Spares(db, db', s) /\ SameCommits(db, db')
          /\ db'.waits[s] = db.waits[s] /\ db'.tx[s] = db.tx[s]
      BY <2>1, <2>3 DEF Spares, SameCommits
    <3>3. Op(s)[1] \notin WriteOps \cup {"commit"}
      BY <2>1 DEF WriteOps
    <3> QED
      BY <2>1, <2>3, <3>1, <3>2, <3>3, GoesOnKeeps
  <2>4. CASE Fails(s, "meet")
    BY <1>2, <2>1, <2>4
  <2> QED
    BY <1>4, <2>2, <2>3, <2>4 DEF Meets
<1>5. CASE Faulty(s)
  <2>1. UNCHANGED history /\ (Fails(s, "connect") \/ Fails(s, "other"))
    BY <1>5 DEF Faulty
  <2> QED
    BY <1>2, <2>1
<1> QED
  BY <1>3, <1>4, <1>5

\* Every step of a session of a probe.
LEMMA SessionProbeInv ==
  ASSUME ProbeInv, TxInv, NEW s \in Session,
         Steps(s) \/ Reads(s) \/ Writes(s) \/ Commits(s) \/ Detects(s) \/ Meets(s) \/ Faulty(s)
  PROVE  ProbeInv'
<1> SUFFICES ASSUME lab \in TxProbe PROVE ProbeInv'
  BY DEF ProbeInv, Steps, Reads, Writes, Commits, Detects, Meets, Faulty
<1>1. IsRunning(s) /\ UNCHANGED <<lab, main>>
  BY DEF Steps, Reads, Writes, Commits, Detects, Meets, Faulty
<1>2. main = "join"
  BY <1>1 DEF IsRunning, ProbeInv
<1>3. Runs
  BY <1>2 DEF Runs, ProbeInv, TxInv
<1>4. Keeps'
  BY <1>3, StepsKeeps, ReadsKeeps, WritesKeeps, CommitsKeeps, OthersKeepProbe
<1> QED
  BY <1>1, <1>2, <1>4 DEF ProbeInv, Keeps

-----------------------------------------------------------------------------
\* Every transaction probe has three phases.
LEMMA ThreePhases == lab \in TxProbe => Len(Phases) = 3
BY SkewPhases, SerializationPhases, LockPhases, DeadlockPhases DEF TxProbe, TransactionLab

\* What a phase begins with.
LEMMA BegunPhase ==
  ASSUME lab \in TxProbe, NEW n \in 1 .. 3, UNCHANGED lab, work' = Started(Phases[n].run)
  PROVE  /\ ProgramInv'
         /\ \A s \in Session : work'[s].outcome \in {"running", "none"}
         /\ lab = "serialization" /\ n = 3 => work'["B"].outcome = "none"
         /\ lab = "lock" /\ n # 2 => work'["A"].outcome = "none"
<1>1. \A s \in Session : /\ work'[s].program = Phases[n].run[s] /\ work'[s].at = 1
                         /\ work'[s].outcome = IF Phases[n].run[s] = <<>> THEN "none" ELSE "running"
  BY DEF Started
<1>2. lab \in {"skew", "serialization"} => \A s \in Session :
        work'[s].outcome = "running" => \E w : WritesAt(Phases[n].run[s], w)
  BY <1>1, SkewPhases, SerializationPhases
<1>3. ASSUME lab \in {"skew", "serialization"}, NEW s \in Session, work'[s].outcome = "running"
      PROVE  \E w : /\ WritesAt(work[s].program, w)'
                    /\ work'[s].at \in 1 .. Len(work'[s].program)
                    /\ work'[s].at <= w
  <2>1. PICK w : WritesAt(Phases[n].run[s], w)
    BY <1>2, <1>3
  <2>2. WritesAt(work[s].program, w)'
    BY <1>1, <2>1, SMTT(40) DEF WritesAt
  <2>3. w \in Nat /\ 1 <= w /\ w < Len(Phases[n].run[s]) /\ Len(Phases[n].run[s]) \in Nat
    BY <2>1 DEF WritesAt, IsSequence
  <2> QED
    BY <1>1, <2>2, <2>3
<1>4. ProgramInv'
  BY <1>3 DEF ProgramInv
<1>5. "A" \in Session /\ "B" \in Session
  BY TwoSessions
<1>6. lab = "serialization" /\ n = 3 => work'["B"].outcome = "none"
  BY <1>1, <1>5, SerializationPhases
<1>7. lab = "lock" /\ n # 2 => work'["A"].outcome = "none"
  BY <1>1, <1>5, LockPhases
<1> QED
  BY <1>1, <1>4, <1>6, <1>7

\* A probe starts its first phase on a fresh database.
LEMMA StartsProbeInv ==
  ASSUME ProbeInv, StartsProbe
  PROVE  ProbeInv'
<1>1. /\ lab \in TxProbe /\ main = "start" /\ main' = "join" /\ work' = Started(Phases[1].run)
      /\ UNCHANGED <<lab, phase, db, history, observed, results>>
  BY DEF StartsProbe, TxProbe
<1>2. /\ phase = 1 /\ results = <<>> /\ history = {} /\ observed = FALSE
      /\ db = FreshDb(Initially)
  BY <1>1 DEF ProbeInv
<1>3. /\ ProgramInv' /\ \A s \in Session : work'[s].outcome \in {"running", "none"}
      /\ lab = "lock" => work'["A"].outcome = "none"
  BY <1>1, BegunPhase
<1>4. PhaseInv'
  <2>1. <<>> \in Seq({}) /\ Len(<<>>) = 0
    OBVIOUS
  <2> QED
    BY <1>1, <1>2, <2>1 DEF PhaseInv, IsSequence
<1>5. DbInv'
  <2>1. /\ IsDb(db') /\ \A s \in Session : IsIdle(db', s)
        /\ (\A r \in Row : db'.stamp[r] = 0) /\ db'.closed = {}
    BY <1>1, <1>2, FreshDbIs
  <2>2. "B" \in Session
    BY TwoSessions
  <2>3. db'.waits["B"] = NoRow
    BY <2>1, <2>2 DEF IsIdle
  <2>4. IsDb(db)' /\ \A s \in Session : IsIdle(db, s)'
    BY <2>1 DEF IsDb, IsIdle
  <2> QED
    BY <2>1, <2>3, <2>4 DEF DbInv
<1>6. HistoryInv'
  <2>1. DOMAIN results' = {}
    BY <1>1, <1>2
  <2>2. \A i, s : OutcomeAt(i, s)' = work'[s].outcome /\ ObservedAt(i)' = observed'
    BY <2>1 DEF OutcomeAt, ObservedAt
  <2>3. Deadlocks' = {} /\ \A i : Wrote(i)' = {} /\ ~Waits(i)'
    BY <1>1, <1>2 DEF Deadlocks, Wrote, Waits
  <2>4. EventsInv' /\ phase' = 1
    BY <1>1, <1>2 DEF EventsInv
  <2>5. AbortedInv'
    BY <1>1, <1>3, <2>2, <2>3 DEF AbortedInv
  <2>6. CommittedInv'
    BY <1>1, <1>3, <2>2, <2>3, <2>4 DEF CommittedInv
  <2>7. WaitedInv'
    BY <1>1, <1>2, <1>3, <2>2, <2>3, <2>4 DEF WaitedInv
  <2> QED
    BY <2>4, <2>5, <2>6, <2>7 DEF HistoryInv
<1> QED
  BY <1>1, <1>3, <1>4, <1>5, <1>6 DEF ProbeInv

\* A step of main that goes on leaves what counts alone; what the observer saw of a
\* wait happened.
LEMMA ObservesInv ==
  ASSUME ProbeInv, Observes
  PROVE  ProbeInv'
<1>1. /\ lab = "lock" /\ main = "join" /\ phase = 2 /\ db.waits["B"] # NoRow /\ observed' = TRUE
      /\ UNCHANGED <<lab, phase, main, work, db, history, results>>
  BY DEF Observes, LooksForLock
<1>2. lab \in TxProbe /\ PhaseInv /\ HistoryInv /\ DbInv /\ ProgramInv
  BY <1>1 DEF ProbeInv, TxProbe, TransactionLab
<1>3. Waits(2)
  BY <1>1, <1>2 DEF DbInv
<1>4. /\ Deadlocks' = Deadlocks
      /\ \A i : Wrote(i)' = Wrote(i) /\ (Waits(i)' <=> Waits(i))
      /\ \A i, s : OutcomeAt(i, s)' = OutcomeAt(i, s) /\ SeenAt(i, s)' = SeenAt(i, s)
  BY <1>1 DEF Deadlocks, Wrote, Waits, OutcomeAt, SeenAt
<1>5. \A i \in 1 .. phase : ObservedAt(i)' => ObservedAt(i) \/ i = 2
  <2>1. DOMAIN results = 1 .. phase - 1
    BY <1>1, <1>2 DEF PhaseInv, IsSequence
  <2> QED
    BY <1>1, <2>1 DEF ObservedAt
<1>6. EventsInv' /\ AbortedInv' /\ CommittedInv'
  BY <1>1, <1>2, <1>4 DEF HistoryInv, EventsInv, AbortedInv, CommittedInv
<1>7. WaitedInv'
  BY <1>1, <1>2, <1>3, <1>4, <1>5 DEF HistoryInv, WaitedInv
<1>8. DbInv' /\ ProgramInv' /\ PhaseInv'
  BY <1>1, <1>2, <1>4 DEF DbInv, IsDb, IsIdle, ProgramInv, PhaseInv, WritesAt
<1> QED
  BY <1>1, <1>6, <1>7, <1>8 DEF ProbeInv, HistoryInv

-----------------------------------------------------------------------------
\* The results of the phase that ended are those of its sessions.
LEMMA ResultsAppended ==
  ASSUME Runs, NEW count, results' = Append(results, Result(count))
  PROVE  /\ IsSequence(results)' /\ Len(results') = phase
         /\ \A i \in 1 .. phase, s \in Session :
              /\ OutcomeAt(i, s)' = OutcomeAt(i, s) /\ SeenAt(i, s)' = SeenAt(i, s)
              /\ ObservedAt(i)' = ObservedAt(i)
         /\ \A n, s : n = phase + 1 =>
              OutcomeAt(n, s)' = work'[s].outcome /\ ObservedAt(n)' = observed'
<1> DEFINE new == Result(count)
<1>1. PICK S : results \in Seq(S)
  BY DEF Runs, PhaseInv, IsSequence
<1>2. /\ results \in Seq(S \cup {new}) /\ Len(results) = phase - 1 /\ phase \in 1 .. 3
      /\ results' = Append(results, new)
  BY <1>1 DEF Runs, PhaseInv
<1>3. /\ \A s \in Session : new.outcomes[s] = work[s].outcome /\ new.seen[s] = work[s].seen
      /\ new.observed = observed
  BY DEF Result
<1> HIDE DEF new
<1>4. /\ results' \in Seq(S \cup {new}) /\ Len(results') = phase
      /\ DOMAIN results = 1 .. phase - 1 /\ DOMAIN results' = 1 .. phase
      /\ \A i \in 1 .. phase - 1 : results'[i] = results[i]
      /\ results'[phase] = new
  BY <1>2
<1>5. IsSequence(results)'
  BY <1>4 DEF IsSequence
<1>6. \A i \in 1 .. phase, s \in Session :
        /\ OutcomeAt(i, s)' = OutcomeAt(i, s) /\ SeenAt(i, s)' = SeenAt(i, s)
        /\ ObservedAt(i)' = ObservedAt(i)
  <2> TAKE i \in 1 .. phase, s \in Session
  <2>1. CASE i = phase
    BY <1>2, <1>3, <1>4, <2>1 DEF OutcomeAt, SeenAt, ObservedAt
  <2>2. CASE i # phase
    <3>1. i \in 1 .. phase - 1 /\ i \in 1 .. phase
      BY <1>2, <2>2
    <3> QED
      BY <1>4, <3>1 DEF OutcomeAt, SeenAt, ObservedAt
  <2> QED
    BY <2>1, <2>2
<1>7. phase + 1 \notin DOMAIN results'
  BY <1>2, <1>4
<1>8. \A n, s : n = phase + 1 =>
        OutcomeAt(n, s)' = work'[s].outcome /\ ObservedAt(n)' = observed'
  BY <1>7 DEF OutcomeAt, ObservedAt
<1> QED
  BY <1>4, <1>5, <1>6, <1>8

\* The end of a phase turns what the sessions have shown into a result, and the next phase
\* starts.
LEMMA EndsPhaseProbeInv ==
  ASSUME ProbeInv, TxInv, EndsPhase
  PROVE  ProbeInv'
<1>1. /\ lab \in TxProbe /\ main = "join" /\ observed' = FALSE /\ UNCHANGED <<lab, history>>
      /\ \A s \in Session : work[s].outcome # "running"
      /\ \E count : results' = Append(results, Result(count))
  BY DEF EndsPhase, TxProbe, AllEnded
<1>2. Runs
  BY <1>1 DEF Runs, ProbeInv, TxInv
<1>3. PICK count : results' = Append(results, Result(count))
  BY <1>1
<1>4. /\ IsSequence(results)' /\ Len(results') = phase
      /\ \A i \in 1 .. phase, s \in Session :
           /\ OutcomeAt(i, s)' = OutcomeAt(i, s) /\ SeenAt(i, s)' = SeenAt(i, s)
           /\ ObservedAt(i)' = ObservedAt(i)
      /\ \A n, s : n = phase + 1 =>
           OutcomeAt(n, s)' = work'[s].outcome /\ ObservedAt(n)' = observed'
  BY <1>2, <1>3, ResultsAppended
<1>5. /\ Deadlocks' = Deadlocks
      /\ \A i : Wrote(i)' = Wrote(i) /\ (Waits(i)' <=> Waits(i))
  BY <1>1 DEF Deadlocks, Wrote, Waits
<1>6. Len(Phases) = 3 /\ phase \in 1 .. 3 /\ EventsInv
  BY <1>1, <1>2, ThreePhases DEF Runs, PhaseInv, HistoryInv
<1>7. \A i \in 1 .. phase : \A s \in Wrote(i) : s \in Session
  BY <1>6 DEF Wrote, EventsInv
<1>8. "A" \in Session /\ "B" \in Session
  BY TwoSessions
<1>9. CASE main' = "failed"
  BY <1>1, <1>9 DEF ProbeInv
<1>10. CASE main' = "done" /\ phase = 3 /\ UNCHANGED phase
  <2>1. AbortedInv'
    BY <1>1, <1>2, <1>4, <1>5, <1>10 DEF Runs, HistoryInv, AbortedInv
  <2>2. CommittedInv'
    BY <1>1, <1>2, <1>4, <1>5, <1>7, <1>8, <1>10 DEF Runs, HistoryInv, CommittedInv
  <2>3. WaitedInv'
    BY <1>1, <1>2, <1>4, <1>5, <1>8, <1>10 DEF Runs, HistoryInv, WaitedInv
  <2>4. EventsInv' /\ PhaseInv'
    BY <1>1, <1>4, <1>6, <1>10 DEF EventsInv, PhaseInv
  <2> QED
    BY <1>1, <1>10, <2>1, <2>2, <2>3, <2>4 DEF ProbeInv, HistoryInv
<1>11. CASE /\ phase # 3 /\ phase' = phase + 1 /\ UNCHANGED main
            /\ work' = Started(Phases[phase + 1].run)
            /\ db' = IF Phases[phase + 1].reset THEN FreshDb(Initially) ELSE db
  <2>1. PICK next \in 2 .. 3 : next = phase + 1
    BY <1>6, <1>11
  <2>2. /\ phase' = next /\ work' = Started(Phases[next].run) /\ main' = "join"
        /\ db' = IF Phases[next].reset THEN FreshDb(Initially) ELSE db
    BY <1>1, <1>11, <2>1
  <2>3. \A s : OutcomeAt(next, s)' = work'[s].outcome /\ ObservedAt(next)' = FALSE
    BY <1>1, <1>4, <2>1
  <2>4. \A i \in 1 .. next : i \in 1 .. phase \/ i = next
    BY <1>6, <2>1
  <2>5. /\ ProgramInv'
        /\ \A s \in Session : work'[s].outcome \in {"running", "none"}
        /\ lab = "serialization" /\ next = 3 => work'["B"].outcome = "none"
        /\ lab = "lock" /\ next # 2 => work'["A"].outcome = "none"
    BY <1>1, <2>2, BegunPhase
  <2>6. /\ Wrote(next) = {} /\ ~Waits(next)
        /\ ~\E h \in Deadlocks : h.phase = next
    <3>1. \A h \in history : h.phase # next
      BY <1>6, <2>1 DEF EventsInv
    <3> QED
      BY <3>1 DEF Wrote, Waits, Deadlocks
  <2>7. EventsInv' /\ PhaseInv'
    BY <1>1, <1>4, <1>6, <2>1, <2>2 DEF EventsInv, PhaseInv
  <2>8. AbortedInv'
    <3> SUFFICES ASSUME lab = "deadlock", NEW i \in 1 .. next, NEW s \in Session
                 PROVE  OutcomeAt(i, s)' = "deadlock_aborted"
                        <=> \E h \in Deadlocks : h.phase = i /\ h.session = s
      BY <1>1, <1>5, <2>2 DEF AbortedInv
    <3>1. CASE i \in 1 .. phase
      BY <1>2, <1>4, <3>1 DEF Runs, HistoryInv, AbortedInv
    <3>2. CASE i = next
      BY <2>3, <2>5, <2>6, <3>2
    <3> QED
      BY <2>4, <3>1, <3>2
  <2>9. CommittedInv'
    <3>1. \A i \in 1 .. next : \A s \in Wrote(i) : OutcomeAt(i, s)' = "committed"
      <4> SUFFICES ASSUME NEW i \in 1 .. next, NEW s \in Wrote(i)
                   PROVE  OutcomeAt(i, s)' = "committed"
        OBVIOUS
      <4>1. i \in 1 .. phase
        BY <2>4, <2>6
      <4> QED
        BY <1>2, <1>4, <1>7, <4>1 DEF Runs, HistoryInv, CommittedInv
    <3>2. lab \in {"skew", "serialization"} => \A i \in 1 .. next, s \in Session :
            OutcomeAt(i, s)' = "committed" => s \in Wrote(i) \/ (lab = "skew" /\ SeenAt(i, s)' <= 1)
      <4> SUFFICES ASSUME lab \in {"skew", "serialization"}, NEW i \in 1 .. next, NEW s \in Session,
                          OutcomeAt(i, s)' = "committed"
                   PROVE  s \in Wrote(i) \/ (lab = "skew" /\ SeenAt(i, s)' <= 1)
        OBVIOUS
      <4>1. i \in 1 .. phase
        BY <2>3, <2>4, <2>5
      <4> QED
        BY <1>2, <1>4, <4>1 DEF Runs, HistoryInv, CommittedInv
    <3>3. lab = "skew" => \A i \in 1 .. next, s \in Session :
            OutcomeAt(i, s)' = "serialization_aborted" => Wrote(i) # {}
      <4> SUFFICES ASSUME lab = "skew", NEW i \in 1 .. next, NEW s \in Session,
                          OutcomeAt(i, s)' = "serialization_aborted"
                   PROVE  Wrote(i) # {}
        OBVIOUS
      <4>1. i \in 1 .. phase
        BY <2>3, <2>4, <2>5
      <4> QED
        BY <1>2, <1>4, <4>1 DEF Runs, HistoryInv, CommittedInv
    <3>4. lab = "serialization" /\ next = 3 => OutcomeAt(3, "B")' = "none"
      BY <2>3, <2>5
    <3> QED
      BY <1>1, <1>5, <2>2, <3>1, <3>2, <3>3, <3>4 DEF CommittedInv
  <2>10. WaitedInv'
    <3> SUFFICES ASSUME lab = "lock", NEW i \in 1 .. next
                 PROVE  /\ i # 2 => ~Waits(i) /\ OutcomeAt(i, "A")' = "none"
                        /\ ObservedAt(i)' => Waits(i)
      BY <1>1, <1>5, <2>2 DEF WaitedInv
    <3>1. CASE i \in 1 .. phase
      BY <1>2, <1>4, <1>8, <3>1 DEF Runs, HistoryInv, WaitedInv
    <3>2. CASE i = next
      BY <2>3, <2>5, <2>6, <3>2
    <3> QED
      BY <2>4, <3>1, <3>2
  <2>11. DbInv'
    <3>1. CASE db' = FreshDb(Initially)
      <4>1. /\ IsDb(db') /\ \A s \in Session : IsIdle(db', s)
            /\ (\A r \in Row : db'.stamp[r] = 0) /\ db'.closed = {}
        BY <3>1, FreshDbIs
      <4>2. db'.waits["B"] = NoRow
        BY <1>8, <4>1 DEF IsIdle
      <4>3. IsDb(db)' /\ \A s \in Session : IsIdle(db, s)'
        BY <4>1 DEF IsDb, IsIdle
      <4> QED
        BY <4>1, <4>2, <4>3 DEF DbInv
    <3>2. CASE db' = db /\ lab # "skew"
      <4>1. IsDb(db) /\ \A s \in Session : IsIdle(db, s)
        BY <1>1, <1>2 DEF Runs, DbInv
      <4>2. db'.waits["B"] = NoRow
        BY <1>8, <3>2, <4>1 DEF IsIdle
      <4>3. IsDb(db)' /\ \A s \in Session : IsIdle(db, s)'
        BY <3>2, <4>1 DEF IsDb, IsIdle
      <4> QED
        BY <1>1, <3>2, <4>2, <4>3 DEF DbInv
    <3>3. lab = "skew" => Phases[next].reset = TRUE
      <4>1. next \in 1 .. 3
        BY <2>1
      <4> QED
        BY <4>1, SkewPhases, Zenon
    <3> QED
      BY <2>2, <3>1, <3>2, <3>3
  <2> QED
    BY <1>1, <2>2, <2>5, <2>7, <2>8, <2>9, <2>10, <2>11 DEF ProbeInv, HistoryInv
<1> QED
  BY <1>6, <1>9, <1>10, <1>11 DEF EndsPhase

-----------------------------------------------------------------------------
\* Every step of a laboratory keeps the history true of every phase.
LEMMA ProbeNextInv == ProbeInv /\ TxInv /\ [LabNext]_labVars => ProbeInv'
<1> SUFFICES ASSUME ProbeInv, TxInv, [LabNext]_labVars PROVE ProbeInv'
  OBVIOUS
<1>1. CASE TxSessionStep \/ \E s \in Session : Faulty(s)
  BY <1>1, SessionProbeInv DEF TxSessionStep
<1>2. CASE StartsProbe
  BY <1>2, StartsProbeInv
<1>3. CASE EndsPhase
  BY <1>3, EndsPhaseProbeInv
<1>4. CASE Observes
  BY <1>4, ObservesInv
<1>5. CASE \E name \in DOMAIN Unmet : Breaks(name)
  BY <1>5, ProbeIdle DEF Breaks
<1>6. CASE UNCHANGED <<lab, txVars>>
  BY <1>6, ProbeIdle DEF txVars
<1>7. CASE StartsConcrete \/ Publishes
  BY <1>7 DEF StartsConcrete, Publishes, ProbeInv, TxProbe
<1>8. CASE Ready \/ Released \/ Monitors
  BY <1>8 DEF Ready, Released, Monitors, ProbeInv
<1>9. CASE TimesOut
  BY <1>9 DEF TimesOut, ProbeInv
<1> QED
  BY <1>1, <1>2, <1>3, <1>4, <1>5, <1>6, <1>7, <1>8, <1>9
  DEF LabNext, TxNext, TxMain, labVars

\* How many of the two sessions there are in a set of them.
LEMMA SessionCounts ==
  ASSUME NEW S \in SUBSET Session
  PROVE  /\ Cardinality(S) = 2 <=> S = Session
         /\ Cardinality(S) = 1 <=> \E s \in Session : S = {s}
<1>1. Cardinality({}) = 0
  BY FS_EmptySet
<1>2. \A x : Cardinality({x}) = 1
  BY FS_Singleton
<1>3. Cardinality({"A", "B"}) = 2
  <2>1. IsFiniteSet({"A"}) /\ Cardinality({"A"}) = 1
    BY FS_Singleton
  <2>2. Cardinality({"A"} \cup {"B"}) = Cardinality({"A"}) + 1
    BY <2>1, FS_AddElement
  <2>3. {"A"} \cup {"B"} = {"A", "B"}
    OBVIOUS
  <2> QED
    BY <2>1, <2>2, <2>3
<1>4. S = {} \/ S = {"A"} \/ S = {"B"} \/ S = {"A", "B"}
  BY TwoSessions
<1>5. CASE S = {}
  BY <1>1, <1>5, TwoSessions
<1>6. CASE S = {"A"} \/ S = {"B"}
  <2>1. Cardinality(S) = 1
    BY <1>2, <1>6
  <2>2. S # Session
    BY <1>6, TwoSessions
  <2>3. \E s \in Session : S = {s}
    BY <1>6, TwoSessions
  <2> QED
    BY <2>1, <2>2, <2>3
<1>7. CASE S = {"A", "B"}
  <2>1. Cardinality(S) = 2 /\ S = Session
    BY <1>3, <1>7, TwoSessions
  <2>2. ~\E s \in Session : S = {s}
    BY <1>7
  <2> QED
    BY <2>1, <2>2
<1> QED
  BY <1>4, <1>5, <1>6, <1>7

\* The results a probe concludes from are in its history, phase by phase.
LEMMA ProbesConclude == ProbeInv => TransactionsEarned
<1> SUFFICES ASSUME ProbeInv, Concluded
             PROVE  CASE lab = "deadlock" -> {h.phase : h \in Deadlocks} = {2}
                      [] lab = "skew" -> Wrote(2) = Session /\ Cardinality(Wrote(3)) = 1
                      [] lab = "serialization" -> Wrote(1) = Session /\ Wrote(2) = {"B"} /\ Wrote(3) = {"A"}
                      [] lab = "lock" -> Waits(2) /\ ~Waits(1) /\ ~Waits(3)
  BY DEF TransactionsEarned
<1>1. lab \in TxProbe /\ main = "done" /\ Supports
  BY DEF Concluded, TxProbe
<1>2. PhaseInv /\ HistoryInv /\ phase = 3
  BY <1>1 DEF ProbeInv, PhaseInv
<1>3. DOMAIN results = 1 .. 3
  BY <1>1, <1>2 DEF PhaseInv, IsSequence
<1>4. \A i \in 1 .. 3 : \A s :
                           /\ OutcomeAt(i, s) = results[i].outcomes[s]
                           /\ SeenAt(i, s) = results[i].seen[s]
                           /\ ObservedAt(i) = results[i].observed
  BY <1>3 DEF OutcomeAt, SeenAt, ObservedAt
<1>5. ASSUME NEW i \in 1 .. 3, NEW outcome
      PROVE  /\ Number(i, outcome) = 2 <=> {s \in Session : OutcomeAt(i, s) = outcome} = Session
             /\ Number(i, outcome) = 1 <=>
                  \E s \in Session : {t \in Session : OutcomeAt(i, t) = outcome} = {s}
  <2> DEFINE S == {s \in Session : OutcomeAt(i, s) = outcome}
  <2>1. Number(i, outcome) = Cardinality(S)
    BY <1>4 DEF Number
  <2>2. S \in SUBSET Session
    OBVIOUS
  <2> HIDE DEF S
  <2>3. /\ Cardinality(S) = 2 <=> S = Session
        /\ Cardinality(S) = 1 <=> \E s \in Session : S = {s}
    BY <2>2, SessionCounts
  <2> QED
    BY <2>1, <2>3 DEF S
<1>6. /\ \A h \in history : h.phase \in 1 .. 3 /\ h.session \in Session
      /\ \A i \in 1 .. 3 : Wrote(i) \subseteq Session
  BY <1>2 DEF HistoryInv, EventsInv, Wrote
<1>7. "A" \in Session /\ "B" \in Session /\ 1 \in 1 .. 3 /\ 2 \in 1 .. 3 /\ 3 \in 1 .. 3
  BY TwoSessions
<1>8. CASE lab = "deadlock"
  <2>1. Number(1, "committed") = 2 /\ Number(3, "committed") = 2 /\ Number(2, "deadlock_aborted") = 1
    BY <1>1, <1>8 DEF Supports
  <2>2. \A s \in Session : OutcomeAt(1, s) = "committed" /\ OutcomeAt(3, s) = "committed"
    BY <1>5, <1>7, <2>1
  <2>3. PICK s \in Session : OutcomeAt(2, s) = "deadlock_aborted"
    BY <1>5, <1>7, <2>1
  <2>4. \A i \in 1 .. 3, t \in Session :
          OutcomeAt(i, t) = "deadlock_aborted" <=> \E h \in Deadlocks : h.phase = i /\ h.session = t
    BY <1>2, <1>8 DEF HistoryInv, AbortedInv
  <2>5. \E h \in Deadlocks : h.phase = 2
    BY <1>7, <2>3, <2>4
  <2>6. \A h \in Deadlocks : h.phase = 2
    <3> TAKE h \in Deadlocks
    <3>1. h.phase \in 1 .. 3 /\ h.session \in Session
      BY <1>6 DEF Deadlocks
    <3>2. OutcomeAt(h.phase, h.session) = "deadlock_aborted"
      BY <2>4, <3>1
    <3> QED
      BY <2>2, <3>1, <3>2
  <2> QED
    BY <1>8, <2>5, <2>6
<1>9. CASE lab = "skew"
  <2>1. /\ Number(2, "committed") = 2 /\ \A s \in Session : results[2].seen[s] = 2
        /\ Number(3, "committed") = 1 /\ Number(3, "serialization_aborted") = 1
    BY <1>1, <1>9 DEF Supports
  <2>2. /\ \A i \in 1 .. 3 : \A s \in Wrote(i) : OutcomeAt(i, s) = "committed"
        /\ \A i \in 1 .. 3, s \in Session :
             OutcomeAt(i, s) = "committed" => s \in Wrote(i) \/ SeenAt(i, s) <= 1
        /\ \A i \in 1 .. 3, s \in Session :
             OutcomeAt(i, s) = "serialization_aborted" => Wrote(i) # {}
    BY <1>2, <1>9 DEF HistoryInv, CommittedInv
  <2>3. Wrote(2) = Session
    <3>1. \A s \in Session : OutcomeAt(2, s) = "committed" /\ SeenAt(2, s) = 2
      BY <1>4, <1>5, <1>7, <2>1
    <3>2. \A s \in Session : s \in Wrote(2)
      BY <1>7, <2>2, <3>1
    <3> QED
      BY <1>6, <1>7, <3>2
  <2>4. Cardinality(Wrote(3)) = 1
    <3>1. PICK s \in Session : {t \in Session : OutcomeAt(3, t) = "committed"} = {s}
      BY <1>5, <1>7, <2>1
    <3>2. \E t \in Session : OutcomeAt(3, t) = "serialization_aborted"
      BY <1>5, <1>7, <2>1
    <3>3. Wrote(3) # {} /\ Wrote(3) \subseteq {s}
      BY <1>6, <1>7, <2>2, <3>1, <3>2
    <3>4. Wrote(3) = {s}
      BY <3>3
    <3> QED
      BY <3>4, FS_Singleton
  <2> QED
    BY <1>9, <2>3, <2>4
<1>10. CASE lab = "serialization"
  <2>1. /\ Number(1, "committed") = 2
        /\ results[2].outcomes = Pair("serialization_aborted", "committed")
        /\ results[3].outcomes["A"] = "committed"
    BY <1>1, <1>10 DEF Supports
  <2>2. /\ \A i \in 1 .. 3 : \A s \in Wrote(i) : OutcomeAt(i, s) = "committed"
        /\ \A i \in 1 .. 3, s \in Session : OutcomeAt(i, s) = "committed" => s \in Wrote(i)
        /\ OutcomeAt(3, "B") = "none"
    BY <1>2, <1>10 DEF HistoryInv, CommittedInv
  <2>3. /\ \A s \in Session : OutcomeAt(1, s) = "committed"
        /\ OutcomeAt(2, "A") = "serialization_aborted" /\ OutcomeAt(2, "B") = "committed"
        /\ OutcomeAt(3, "A") = "committed"
    BY <1>4, <1>5, <1>7, <2>1 DEF Pair
  <2>4. Wrote(1) = Session
    BY <1>6, <1>7, <2>2, <2>3
  <2>5. Wrote(2) = {"B"}
    BY <1>6, <1>7, <2>2, <2>3, TwoSessions
  <2>6. Wrote(3) = {"A"}
    BY <1>6, <1>7, <2>2, <2>3, TwoSessions
  <2> QED
    BY <1>10, <2>4, <2>5, <2>6
<1>11. CASE lab = "lock"
  <2>1. ObservedAt(2)
    BY <1>1, <1>4, <1>7, <1>11 DEF Supports
  <2>2. \A i \in 1 .. 3 : (i # 2 => ~Waits(i)) /\ (ObservedAt(i) => Waits(i))
    BY <1>2, <1>11 DEF HistoryInv, WaitedInv
  <2>3. Waits(2)
    BY <1>7, <2>1, <2>2
  <2>4. ~Waits(1) /\ ~Waits(3)
    BY <1>7, <2>2
  <2> QED
    BY <1>11, <2>3, <2>4
<1> QED
  BY <1>1, <1>8, <1>9, <1>10, <1>11 DEF TxProbe, TransactionLab

\* A transaction probe's support is earned by what its sessions met in the phases it
\* compares (the probes of transaction_lab.py).
LEMMA TransactionsAreEarned == LabSpec => []TransactionsEarned
<1>1. LabInit => TxInv /\ ProbeInv
  BY TxInitInv, ProbeInitInv
<1>2. (TxInv /\ ProbeInv) /\ [LabNext]_labVars => (TxInv /\ ProbeInv)'
  BY TxNextInv, ProbeNextInv
<1>3. TxInv /\ ProbeInv => TransactionsEarned
  BY ProbesConclude
<1> QED
  BY <1>1, <1>2, <1>3, PTL DEF LabSpec

-----------------------------------------------------------------------------
(***************************************************************************)
(* The messaging laboratories: a probe that is run again does what a first *)
(* run does.  Its steps are of one stream after the other, each begins by  *)
(* creating its stream, and what an earlier run left in it is then gone,   *)
(* but for marks that this probe does not look at.                         *)
(***************************************************************************)

Ops == {"create", "publish", "read", "claim", "ack", "pending", "apply", "applyOnce", "process",
        "effects", "entries", "bury", "graves"}

\* A part of a probe on one stream, which it creates first if isNew, and whose marks
\* are looked at only if isMarked.
IsPart(p, stream, isNew, isMarked) ==
  /\ IsSequence(p)
  /\ \A i \in 1 .. Len(p) :
       /\ p[i].stream = stream /\ p[i].op \in Ops
       /\ p[i].op = "create" <=> i = 1 /\ isNew
       /\ p[i].op = "create" => p[i].arg = isMarked
       /\ p[i].op = "applyOnce" => isMarked = TRUE
  /\ isNew => Len(p) > 0

\* The streams that the first k steps of a probe have created.
Created(p, k) == {p[i].stream : i \in {i \in 1 .. k : p[i].op = "create"}}

\* A probe uses a stream after it has created it, and looks only at marks that it has
\* deleted then.
IsOrdered(p, marked) ==
  /\ IsSequence(p)
  /\ \A i \in 1 .. Len(p) :
       /\ p[i].stream \in DOMAIN EmptyRedis /\ p[i].op \in Ops
       /\ p[i].op # "create" => p[i].stream \in Created(p, i - 1)
       /\ p[i].op = "create" => p[i].arg = (p[i].stream \in marked)
       /\ p[i].op = "applyOnce" => p[i].stream \in marked

\* A part after a part on the same stream.
LEMMA PartGoesOn ==
  ASSUME NEW p, NEW q, NEW s, NEW isNew, NEW isMarked,
         IsPart(p, s, isNew, isMarked), IsPart(q, s, FALSE, isMarked)
  PROVE  IsPart(p \o q, s, isNew, isMarked)
<1>1. /\ IsSequence(p \o q) /\ Len(p) \in Nat /\ Len(q) \in Nat
      /\ Len(p \o q) = Len(p) + Len(q)
      /\ \A i \in 1 .. Len(p) : (p \o q)[i] = p[i]
      /\ \A i \in 1 .. Len(q) : (p \o q)[Len(p) + i] = q[i]
  BY Concatenated DEF IsPart
<1>2. ASSUME NEW i \in 1 .. Len(p \o q)
      PROVE  /\ (p \o q)[i].stream = s /\ (p \o q)[i].op \in Ops
             /\ (p \o q)[i].op = "create" <=> i = 1 /\ isNew
             /\ (p \o q)[i].op = "create" => (p \o q)[i].arg = isMarked
             /\ (p \o q)[i].op = "applyOnce" => isMarked = TRUE
  <2>1. CASE i \in 1 .. Len(p)
    <3>1. (p \o q)[i] = p[i]
      BY <1>1, <2>1
    <3> QED
      BY <2>1, <3>1, Zenon DEF IsPart
  <2>2. CASE i \notin 1 .. Len(p)
    <3> DEFINE j == i - Len(p)
    <3>1. j \in 1 .. Len(q) /\ i = Len(p) + j
      BY <1>1, <2>2
    <3>2. i = 1 => Len(p) = 0
      BY <1>1, <3>1
    <3>3. ~ (i = 1 /\ isNew)
      BY <1>1, <3>2 DEF IsPart
    <3> HIDE DEF j
    <3>4. (p \o q)[i] = q[j]
      BY <1>1, <3>1
    <3>5. /\ q[j].stream = s /\ q[j].op \in Ops /\ q[j].op # "create"
          /\ q[j].op = "applyOnce" => isMarked = TRUE
      BY <3>1, Zenon DEF IsPart
    <3>6. (p \o q)[i].op # "create" /\ ((p \o q)[i].op = "applyOnce" => isMarked = TRUE)
      BY <3>4, <3>5, Zenon
    <3>7. (p \o q)[i].stream = s /\ (p \o q)[i].op \in Ops
      BY <3>4, <3>5, Zenon
    <3> QED
      BY <3>3, <3>6, <3>7, Zenon
  <2> QED
    BY <2>1, <2>2
<1>3. isNew => Len(p \o q) > 0
  BY <1>1 DEF IsPart
<1> QED
  BY <1>1, <1>2, <1>3 DEF IsPart

\* A part after what already uses streams in order.
LEMMA OrderGoesOn ==
  ASSUME NEW p, NEW q, NEW s \in DOMAIN EmptyRedis, NEW marked, NEW isNew \in BOOLEAN,
         NEW isMarked, isMarked = (s \in marked),
         IsOrdered(p, marked), IsPart(q, s, isNew, isMarked),
         isNew \/ s \in Created(p, Len(p))
  PROVE  /\ IsOrdered(p \o q, marked)
         /\ isNew => s \in Created(p \o q, Len(p \o q))
         /\ Created(p, Len(p)) \subseteq Created(p \o q, Len(p \o q))
<1>1. /\ IsSequence(p \o q) /\ Len(p) \in Nat /\ Len(q) \in Nat
      /\ Len(p \o q) = Len(p) + Len(q)
      /\ \A i \in 1 .. Len(p) : (p \o q)[i] = p[i]
      /\ \A i \in 1 .. Len(q) : (p \o q)[Len(p) + i] = q[i]
  BY Concatenated DEF IsPart, IsOrdered
<1>2. \A k \in 0 .. Len(p) : Created(p, k) \subseteq Created(p \o q, k)
  BY <1>1 DEF Created
<1>3. \A k, l \in Nat : k <= l => Created(p \o q, k) \subseteq Created(p \o q, l)
  <2> SUFFICES ASSUME NEW k \in Nat, NEW l \in Nat, k <= l
               PROVE  Created(p \o q, k) \subseteq Created(p \o q, l)
    OBVIOUS
  <2>1. 1 .. k \subseteq 1 .. l
    OBVIOUS
  <2> QED
    BY <2>1, Zenon DEF Created
<1>4. ASSUME NEW i \in 1 .. Len(p \o q), i \notin 1 .. Len(p)
      PROVE  /\ i - Len(p) \in 1 .. Len(q) /\ (p \o q)[i] = q[i - Len(p)]
             /\ i - 1 \in Nat /\ Len(p) <= i - 1
  <2>1. i - Len(p) \in 1 .. Len(q) /\ i = Len(p) + (i - Len(p))
    BY <1>1, <1>4
  <2> QED
    BY <1>1, <1>4, <2>1
<1>5. ASSUME isNew PROVE Len(p) + 1 \in 1 .. Len(p \o q) /\ (p \o q)[Len(p) + 1].op = "create"
                         /\ (p \o q)[Len(p) + 1].stream = s
  <2>1. 1 \in 1 .. Len(q)
    BY <1>1, <1>5 DEF IsPart
  <2>2. q[1].op = "create" /\ q[1].stream = s
    BY <1>5, <2>1, Zenon DEF IsPart
  <2> QED
    BY <1>1, <2>1, <2>2
<1>6. \A k \in Nat : isNew /\ Len(p) + 1 <= k => s \in Created(p \o q, k)
  BY <1>1, <1>5 DEF Created
<1>7. \A k \in Nat : ~isNew /\ Len(p) <= k => s \in Created(p \o q, k)
  BY <1>1, <1>2, <1>3
<1>8. ASSUME NEW i \in 1 .. Len(p \o q)
      PROVE  /\ (p \o q)[i].stream \in DOMAIN EmptyRedis /\ (p \o q)[i].op \in Ops
             /\ (p \o q)[i].op # "create" => (p \o q)[i].stream \in Created(p \o q, i - 1)
             /\ (p \o q)[i].op = "create" => (p \o q)[i].arg = ((p \o q)[i].stream \in marked)
             /\ (p \o q)[i].op = "applyOnce" => (p \o q)[i].stream \in marked
  <2>1. CASE i \in 1 .. Len(p)
    <3>1. (p \o q)[i] = p[i] /\ Created(p, i - 1) \subseteq Created(p \o q, i - 1)
      BY <1>1, <1>2, <2>1
    <3> QED
      BY <2>1, <3>1, Zenon DEF IsOrdered
  <2>2. CASE i \notin 1 .. Len(p)
    <3> DEFINE j == i - Len(p)
    <3>1. /\ j \in 1 .. Len(q) /\ (p \o q)[i] = q[j]
          /\ i - 1 \in Nat /\ Len(p) <= i - 1 /\ (j # 1 => Len(p) + 1 <= i - 1)
      <4>1. j \in 1 .. Len(q) /\ (p \o q)[i] = q[j] /\ i - 1 \in Nat /\ Len(p) <= i - 1
        BY <1>4, <2>2
      <4>2. i \in Nat /\ Len(p) \in Nat /\ Len(q) \in Nat /\ j = i - Len(p)
        BY <1>1
      <4> HIDE DEF j
      <4>3. j # 1 => Len(p) + 1 <= i - 1
        BY <4>1, <4>2
      <4> QED
        BY <4>1, <4>3
    <3> HIDE DEF j
    <3>2. /\ q[j].stream = s /\ q[j].op \in Ops
          /\ q[j].op = "create" <=> j = 1 /\ isNew
          /\ q[j].op = "create" => q[j].arg = isMarked
          /\ q[j].op = "applyOnce" => isMarked = TRUE
      BY <3>1, Zenon DEF IsPart
    <3>3. q[j].op # "create" => s \in Created(p \o q, i - 1)
      BY <1>6, <1>7, <3>1, <3>2
    <3> QED
      BY <3>1, <3>2, <3>3, Zenon
  <2> QED
    BY <2>1, <2>2
<1>9. Len(p \o q) \in Nat
  BY <1>1
<1> QED
  BY <1>1, <1>2, <1>3, <1>5, <1>6, <1>8, <1>9 DEF IsOrdered

\* The fields of a step.
LEMMA StepIs ==
  ASSUME NEW s, NEW op, NEW arg, NEW expect
  PROVE  /\ Step(s, op, arg, expect).stream = s /\ Step(s, op, arg, expect).op = op
         /\ Step(s, op, arg, expect).arg = arg /\ Step(s, op, arg, expect).expect = expect
BY DEF Step

\* A step of a part after its first.
Goes(step, stream, isMarked) ==
  /\ step.stream = stream /\ step.op \in Ops \ {"create"}
  /\ step.op = "applyOnce" => isMarked = TRUE

\* Steps of one stream, none of which creates it, are a part.
LEMMA StepsArePart ==
  ASSUME NEW p, NEW n \in Nat, p = [i \in 1 .. n |-> p[i]], NEW s, NEW isMarked,
         \A i \in 1 .. n : Goes(p[i], s, isMarked)
  PROVE  IsPart(p, s, FALSE, isMarked)
<1>1. p \in Seq({p[i] : i \in 1 .. n})
  OBVIOUS
<1>2. Len([i \in 1 .. n |-> p[i]]) = n
  OBVIOUS
<1>3. IsSequence(p) /\ Len(p) = n
  BY <1>1, <1>2 DEF IsSequence
<1> QED
  BY <1>3 DEF IsPart, Goes

\* So is the step that creates a stream.
LEMMA CreatesPart ==
  ASSUME NEW s, NEW isMarked
  PROVE  IsPart(<<Step(s, "create", isMarked, "ok")>>, s, TRUE, isMarked)
<1> DEFINE p == <<Step(s, "create", isMarked, "ok")>>
<1>1. p \in Seq({Step(s, "create", isMarked, "ok")}) /\ Len(p) = 1
  OBVIOUS
<1>2. p[1].stream = s /\ p[1].op = "create" /\ p[1].arg = isMarked
  <2>1. p[1] = Step(s, "create", isMarked, "ok")
    OBVIOUS
  <2> HIDE DEF p
  <2> QED
    BY <2>1 DEF Step
<1>3. IsSequence(p)
  BY <1>1 DEF IsSequence
<1> HIDE DEF p
<1>4. \A i \in 1 .. Len(p) : i = 1
  BY <1>1
<1>5. \A i \in 1 .. Len(p) : p[i] = p[1]
  BY <1>4
<1>6. \A i \in 1 .. Len(p) :
        /\ p[i].stream = s /\ p[i].op \in Ops
        /\ p[i].op = "create" <=> i = 1 /\ TRUE
        /\ p[i].op = "create" => p[i].arg = isMarked
        /\ p[i].op = "applyOnce" => isMarked = TRUE
  BY <1>2, <1>4, <1>5 DEF Ops
<1> QED
  BY <1>1, <1>3, <1>6 DEF IsPart, p

\* So is publishing and reading (Delivered of MessagingLabs).
LEMMA DeliveredPart ==
  ASSUME NEW s, NEW n \in Nat, NEW isMarked
  PROVE  IsPart(Delivered(s, n), s, FALSE, isMarked)
<1> DEFINE p == [i \in 1 .. n |-> Step(s, "publish", "event", i)]
           q == <<Step(s, "read", n, 1 .. n)>>
<1>1. IsPart(p, s, FALSE, isMarked)
  <2>1. \A i \in 1 .. n : Goes(p[i], s, isMarked)
    BY DEF Goes, Step, Ops
  <2>2. p = [i \in 1 .. n |-> p[i]]
    OBVIOUS
  <2> HIDE DEF p
  <2> QED
    BY <2>1, <2>2, StepsArePart
<1>2. IsPart(q, s, FALSE, isMarked)
  <2>1. q = [i \in 1 .. 1 |-> q[i]] /\ \A i \in 1 .. 1 : Goes(q[i], s, isMarked)
    BY DEF Goes, Step, Ops
  <2> HIDE DEF q
  <2> QED
    BY <2>1, StepsArePart
<1> QED
  BY <1>1, <1>2, PartGoesOn DEF Delivered

\* So is the phase of a redelivered entry.
LEMMA RedeliveredPart == IsPart(RedeliveredOnce, "recovery", TRUE, TRUE)
<1> DEFINE q == <<Step("recovery", "applyOnce", "event", TRUE),
                  Step("recovery", "pending", 0, <<1, 1>>),
                  Step("recovery", "claim", 1, TRUE),
                  Step("recovery", "pending", 0, <<1, 2>>),
                  Step("recovery", "applyOnce", "event", FALSE),
                  Step("recovery", "effects", 0, 1),
                  Step("recovery", "ack", {1}, 1),
                  Step("recovery", "pending", 0, <<0, 0>>)>>
<1>1. IsPart(q, "recovery", FALSE, TRUE)
  <2>1. q = [i \in 1 .. 8 |-> q[i]]
    OBVIOUS
  <2>2. \A i \in 1 .. 8 : Goes(q[i], "recovery", TRUE)
    BY DEF Goes, Step, Ops
  <2> HIDE DEF q
  <2> QED
    BY <2>1, <2>2, StepsArePart
<1> HIDE DEF q
<1>2. /\ IsPart(<<Step("recovery", "create", TRUE, "ok")>>, "recovery", TRUE, TRUE)
      /\ IsPart(Delivered("recovery", 1), "recovery", FALSE, TRUE)
  BY CreatesPart, DeliveredPart
<1> QED
  BY <1>1, <1>2, PartGoesOn DEF RedeliveredOnce, q

\* A probe begins with a part that creates its stream,
LEMMA OrderBegins ==
  ASSUME NEW q, NEW s \in DOMAIN EmptyRedis, NEW marked,
         NEW isMarked, isMarked = (s \in marked), IsPart(q, s, TRUE, isMarked)
  PROVE  IsOrdered(q, marked) /\ s \in Created(q, Len(q))
<1>1. IsSequence(q) /\ Len(q) \in Nat /\ (Len(q) > 0)
  BY DEF IsPart, IsSequence
<1>2. q[1].op = "create" /\ q[1].stream = s
  BY <1>1 DEF IsPart
<1>3. \A k \in Nat : 1 <= k => s \in Created(q, k)
  BY <1>2 DEF Created
<1>4. ASSUME NEW i \in 1 .. Len(q)
      PROVE  /\ q[i].stream = s /\ q[i].op \in Ops
             /\ q[i].op # "create" => s \in Created(q, i - 1)
             /\ q[i].op = "create" => q[i].arg = isMarked
             /\ q[i].op = "applyOnce" => isMarked = TRUE
  BY <1>1, <1>3 DEF IsPart
<1>5. ASSUME NEW i \in 1 .. Len(q)
      PROVE  /\ q[i].stream \in DOMAIN EmptyRedis /\ q[i].op \in Ops
             /\ q[i].op # "create" => q[i].stream \in Created(q, i - 1)
             /\ q[i].op = "create" => q[i].arg = (q[i].stream \in marked)
             /\ q[i].op = "applyOnce" => q[i].stream \in marked
  BY <1>4, Zenon
<1>6. s \in Created(q, Len(q))
  BY <1>1, <1>3
<1> QED
  BY <1>1, <1>5, <1>6 DEF IsOrdered

\* goes on with one of a stream that it has created,
LEMMA OrderStays ==
  ASSUME NEW p, NEW q, NEW s \in DOMAIN EmptyRedis, NEW marked,
         NEW isMarked, isMarked = (s \in marked),
         IsOrdered(p, marked), IsPart(q, s, FALSE, isMarked), s \in Created(p, Len(p))
  PROVE  IsOrdered(p \o q, marked) /\ Created(p, Len(p)) \subseteq Created(p \o q, Len(p \o q))
BY OrderGoesOn

\* or creates another one.
LEMMA OrderOpens ==
  ASSUME NEW p, NEW q, NEW s \in DOMAIN EmptyRedis, NEW marked,
         NEW isMarked, isMarked = (s \in marked),
         IsOrdered(p, marked), IsPart(q, s, TRUE, isMarked)
  PROVE  IsOrdered(p \o q, marked) /\ s \in Created(p \o q, Len(p \o q))
BY OrderGoesOn

\* So is the phase that applies an effect and acknowledges its entry.
LEMMA AppliedPart ==
  ASSUME NEW op \in {"apply", "applyOnce", "process"}, NEW isMarked, NEW result,
         op = "applyOnce" => isMarked = TRUE
  PROVE  IsPart(AppliedThenAcknowledged(op, isMarked, result), "baseline", TRUE, isMarked)
<1> DEFINE q == <<Step("baseline", op, IF op = "process" THEN 1 ELSE "event", result),
                  Step("baseline", "ack", {1}, 1),
                  Step("baseline", "pending", 0, <<0, 0>>)>>
<1>1. IsPart(q, "baseline", FALSE, isMarked)
  <2>1. q = [i \in 1 .. 3 |-> q[i]]
    OBVIOUS
  <2>2. \A i \in 1 .. 3 : Goes(q[i], "baseline", isMarked)
    BY DEF Goes, Step, Ops
  <2> HIDE DEF q
  <2> QED
    BY <2>1, <2>2, StepsArePart
<1> HIDE DEF q
<1>2. /\ IsPart(<<Step("baseline", "create", isMarked, "ok")>>, "baseline", TRUE, isMarked)
      /\ IsPart(Delivered("baseline", 1), "baseline", FALSE, isMarked)
  BY CreatesPart, DeliveredPart
<1> QED
  BY <1>1, <1>2, PartGoesOn DEF AppliedThenAcknowledged, q

\* The probe of messaging-ack-before-durable-effect: all its phases look at the marks that
\* they have deleted.
LEMMA AckIsOrdered == IsOrdered(AckBeforeDurableEffect, {"baseline", "intervention", "recovery"})
<1> DEFINE marked == {"baseline", "intervention", "recovery"}
           q == <<Step("intervention", "pending", 0, <<1, 1>>),
                  Step("intervention", "ack", {1}, 1),
                  Step("intervention", "pending", 0, <<0, 0>>),
                  Step("intervention", "effects", 0, 0),
                  Step("intervention", "claim", 1, FALSE),
                  Step("intervention", "read", 1, {}),
                  Step("intervention", "entries", 0, 1)>>
           o == <<Step("baseline", "effects", 0, 1)>>
           c == <<Step("intervention", "create", TRUE, "ok")>>
           p1 == AppliedThenAcknowledged("applyOnce", TRUE, TRUE)
           p2 == p1 \o o
           p3 == p2 \o c
           p4 == p3 \o Delivered("intervention", 1)
           p5 == p4 \o q
           p6 == p5 \o RedeliveredOnce
<1>1. IsPart(q, "intervention", FALSE, TRUE)
  <2>1. q = [i \in 1 .. 7 |-> q[i]]
    OBVIOUS
  <2>2. \A i \in 1 .. 7 : Goes(q[i], "intervention", TRUE)
    BY DEF Goes, Step, Ops
  <2> HIDE DEF q
  <2> QED
    BY <2>1, <2>2, StepsArePart
<1>2. IsPart(o, "baseline", FALSE, TRUE)
  <2>1. o = [i \in 1 .. 1 |-> o[i]]
    OBVIOUS
  <2>2. \A i \in 1 .. 1 : Goes(o[i], "baseline", TRUE)
    BY DEF Goes, Step, Ops
  <2> HIDE DEF o
  <2> QED
    BY <2>1, <2>2, StepsArePart
<1>3. /\ IsPart(p1, "baseline", TRUE, TRUE) /\ IsPart(c, "intervention", TRUE, TRUE)
      /\ IsPart(Delivered("intervention", 1), "intervention", FALSE, TRUE)
  BY AppliedPart, CreatesPart, DeliveredPart
<1>4. \A s \in marked : s \in DOMAIN EmptyRedis /\ TRUE = (s \in marked)
  BY DEF EmptyRedis
<1>5. "baseline" \in marked /\ "intervention" \in marked /\ "recovery" \in marked
  OBVIOUS
<1>6. AckBeforeDurableEffect = p6
  BY DEF AckBeforeDurableEffect
<1> HIDE DEF marked, q, o, c, p1, p2, p3, p4, p5, p6
<1>7. IsOrdered(p1, marked) /\ "baseline" \in Created(p1, Len(p1))
  BY <1>3, <1>4, <1>5, OrderBegins
<1>8. IsOrdered(p2, marked)
  BY <1>2, <1>4, <1>5, <1>7, OrderStays DEF p2
<1>9. IsOrdered(p3, marked) /\ "intervention" \in Created(p3, Len(p3))
  BY <1>3, <1>4, <1>5, <1>8, OrderOpens DEF p3
<1>10. IsOrdered(p4, marked) /\ "intervention" \in Created(p4, Len(p4))
  BY <1>3, <1>4, <1>5, <1>9, OrderStays DEF p4
<1>11. IsOrdered(p5, marked)
  BY <1>1, <1>4, <1>5, <1>10, OrderStays DEF p5
<1>12. IsOrdered(p6, marked)
  BY <1>4, <1>5, <1>11, OrderOpens, RedeliveredPart DEF p6
<1> QED
  BY <1>6, <1>12 DEF marked

\* The probe of messaging-duplicate-delivery: only its last phase looks at marks.
LEMMA DeliveryIsOrdered == IsOrdered(DuplicateDelivery, {"recovery"})
<1> DEFINE marked == {"recovery"}
           q == <<Step("intervention", "apply", "event", 1),
                  Step("intervention", "pending", 0, <<1, 1>>),
                  Step("intervention", "claim", 1, TRUE),
                  Step("intervention", "pending", 0, <<1, 2>>),
                  Step("intervention", "apply", "event", 2),
                  Step("intervention", "ack", {1}, 1),
                  Step("intervention", "pending", 0, <<0, 0>>)>>
           c == <<Step("intervention", "create", FALSE, "ok")>>
           p1 == AppliedThenAcknowledged("apply", FALSE, 1)
           p2 == p1 \o c
           p3 == p2 \o Delivered("intervention", 1)
           p4 == p3 \o q
           p5 == p4 \o RedeliveredOnce
<1>1. IsPart(q, "intervention", FALSE, FALSE)
  <2>1. q = [i \in 1 .. 7 |-> q[i]]
    OBVIOUS
  <2>2. \A i \in 1 .. 7 : Goes(q[i], "intervention", FALSE)
    BY DEF Goes, Step, Ops
  <2> HIDE DEF q
  <2> QED
    BY <2>1, <2>2, StepsArePart
<1>2. /\ IsPart(p1, "baseline", TRUE, FALSE) /\ IsPart(c, "intervention", TRUE, FALSE)
      /\ IsPart(Delivered("intervention", 1), "intervention", FALSE, FALSE)
  BY AppliedPart, CreatesPart, DeliveredPart
<1>3. /\ {"baseline", "intervention", "recovery"} \subseteq DOMAIN EmptyRedis
      /\ FALSE = ("baseline" \in marked) /\ FALSE = ("intervention" \in marked)
      /\ TRUE = ("recovery" \in marked)
  BY DEF EmptyRedis
<1>4. DuplicateDelivery = p5
  BY DEF DuplicateDelivery
<1> HIDE DEF marked, q, c, p1, p2, p3, p4, p5
<1>5. IsOrdered(p1, marked)
  BY <1>2, <1>3, OrderBegins
<1>6. IsOrdered(p2, marked) /\ "intervention" \in Created(p2, Len(p2))
  BY <1>2, <1>3, <1>5, OrderOpens DEF p2
<1>7. IsOrdered(p3, marked) /\ "intervention" \in Created(p3, Len(p3))
  BY <1>2, <1>3, <1>6, OrderStays DEF p3
<1>8. IsOrdered(p4, marked)
  BY <1>1, <1>3, <1>7, OrderStays DEF p4
<1>9. IsOrdered(p5, marked)
  BY <1>3, <1>8, OrderOpens, RedeliveredPart DEF p5
<1> QED
  BY <1>4, <1>9 DEF marked

\* The phases of a message that was published twice are parts.
LEMMA PublishedPart ==
  ASSUME NEW s, NEW isMarked \in BOOLEAN, NEW op \in {"apply", "applyOnce"},
         NEW arg, NEW one, NEW two, op = "applyOnce" => isMarked = TRUE
  PROVE  IsPart(PublishedTwice(s, isMarked, Step(s, op, arg, one), Step(s, op, arg, two)),
                s, TRUE, isMarked)
<1> DEFINE q == <<Step(s, "pending", 0, <<2, 1>>), Step(s, op, arg, one), Step(s, op, arg, two),
                  Step(s, "effects", 0, IF isMarked THEN 1 ELSE 2),
                  Step(s, "ack", {1, 2}, 2),
                  Step(s, "pending", 0, <<0, 0>>)>>
<1>1. IsPart(q, s, FALSE, isMarked)
  <2>1. q = [i \in 1 .. 6 |-> q[i]]
    OBVIOUS
  <2>2. \A i \in 1 .. 6 : Goes(q[i], s, isMarked)
    BY DEF Goes, Step, Ops
  <2> HIDE DEF q
  <2> QED
    BY <2>1, <2>2, StepsArePart
<1> HIDE DEF q
<1>2. /\ IsPart(<<Step(s, "create", isMarked, "ok")>>, s, TRUE, isMarked)
      /\ IsPart(Delivered(s, 2), s, FALSE, isMarked)
  BY CreatesPart, DeliveredPart
<1> QED
  BY <1>1, <1>2, PartGoesOn DEF PublishedTwice, q

\* The probe of messaging-duplicate-publication.
LEMMA PublicationIsOrdered == IsOrdered(DuplicatePublication, {"recovery"})
<1> DEFINE marked == {"recovery"}
           q == <<Step("baseline", "pending", 0, <<1, 1>>),
                  Step("baseline", "apply", "event", 1),
                  Step("baseline", "ack", {1}, 1),
                  Step("baseline", "pending", 0, <<0, 0>>)>>
           c == <<Step("baseline", "create", FALSE, "ok")>>
           first == PublishedTwice("intervention", FALSE, Step("intervention", "apply", "event", 1),
                                   Step("intervention", "apply", "event", 2))
           again == PublishedTwice("recovery", TRUE, Step("recovery", "applyOnce", "event", TRUE),
                                   Step("recovery", "applyOnce", "event", FALSE))
           p1 == c \o Delivered("baseline", 1)
           p2 == p1 \o q
           p3 == p2 \o first
           p4 == p3 \o again
<1>1. IsPart(q, "baseline", FALSE, FALSE)
  <2>1. q = [i \in 1 .. 4 |-> q[i]]
    OBVIOUS
  <2>2. \A i \in 1 .. 4 : Goes(q[i], "baseline", FALSE)
    BY DEF Goes, Step, Ops
  <2> HIDE DEF q
  <2> QED
    BY <2>1, <2>2, StepsArePart
<1>2. /\ IsPart(c, "baseline", TRUE, FALSE)
      /\ IsPart(Delivered("baseline", 1), "baseline", FALSE, FALSE)
  BY CreatesPart, DeliveredPart
<1>3. IsPart(first, "intervention", TRUE, FALSE) /\ IsPart(again, "recovery", TRUE, TRUE)
  BY PublishedPart
<1>4. /\ {"baseline", "intervention", "recovery"} \subseteq DOMAIN EmptyRedis
      /\ FALSE = ("baseline" \in marked) /\ FALSE = ("intervention" \in marked)
      /\ TRUE = ("recovery" \in marked)
  BY DEF EmptyRedis
<1>5. DuplicatePublication = p4
  BY DEF DuplicatePublication
<1> HIDE DEF marked, q, c, first, again, p1, p2, p3, p4
<1>6. IsPart(p2, "baseline", TRUE, FALSE)
  BY <1>1, <1>2, PartGoesOn DEF p1, p2
<1>7. IsOrdered(p2, marked)
  BY <1>4, <1>6, OrderBegins
<1>8. IsOrdered(p3, marked)
  BY <1>3, <1>4, <1>7, OrderOpens DEF p3
<1>9. IsOrdered(p4, marked)
  BY <1>3, <1>4, <1>8, OrderOpens DEF p4
<1> QED
  BY <1>5, <1>9 DEF marked

\* The probe of messaging-poison-message looks at no marks.
LEMMA PoisonIsOrdered == IsOrdered(PoisonMessage, {})
<1> DEFINE marked == {}
           r == <<Step("active", "publish", "poison", 1), Step("active", "read", 1, {1})>>
           n == <<Step("active", "claim", 1, TRUE)>>
           q == <<Step("active", "effects", 0, 0),
                  Step("active", "bury", 1, 1),
                  Step("active", "ack", {1}, 1),
                  Step("active", "pending", 0, <<0, 0>>),
                  Step("active", "claim", 1, FALSE),
                  Step("active", "read", 1, {}),
                  Step("active", "graves", 0, <<[entry |-> 1, times |-> 3]>>),
                  Step("active", "entries", 0, 1),
                  Step("active", "publish", "event", 2),
                  Step("active", "read", 1, {2}),
                  Step("active", "process", 2, 1),
                  Step("active", "ack", {2}, 1),
                  Step("active", "pending", 0, <<0, 0>>)>>
           c == <<Step("active", "create", FALSE, "ok")>>
           p1 == AppliedThenAcknowledged("process", FALSE, 1)
           p2 == p1 \o c
           p3 == p2 \o r
           p4 == p3 \o Retried(1) \o n
           p5 == p4 \o Retried(2) \o n
           p6 == p5 \o Retried(3)
           p7 == p6 \o q
<1>1. IsPart(q, "active", FALSE, FALSE)
  <2>1. q = [i \in 1 .. 13 |-> q[i]]
    OBVIOUS
  <2>2. \A i \in 1 .. 13 : Goes(q[i], "active", FALSE)
    BY DEF Goes, Step, Ops
  <2> HIDE DEF q
  <2> QED
    BY <2>1, <2>2, StepsArePart
<1>2. IsPart(r, "active", FALSE, FALSE)
  <2>1. r = [i \in 1 .. 2 |-> r[i]]
    OBVIOUS
  <2>2. \A i \in 1 .. 2 : Goes(r[i], "active", FALSE)
    BY DEF Goes, Step, Ops
  <2> HIDE DEF r
  <2> QED
    BY <2>1, <2>2, StepsArePart
<1>3. IsPart(n, "active", FALSE, FALSE)
  <2>1. n = [i \in 1 .. 1 |-> n[i]]
    OBVIOUS
  <2>2. \A i \in 1 .. 1 : Goes(n[i], "active", FALSE)
    BY DEF Goes, Step, Ops
  <2> HIDE DEF n
  <2> QED
    BY <2>1, <2>2, StepsArePart
<1>4. ASSUME NEW times PROVE IsPart(Retried(times), "active", FALSE, FALSE)
  <2> DEFINE t == <<Step("active", "process", 1, "unsupported"), Step("active", "pending", 0, <<1, times>>)>>
  <2>1. t = [i \in 1 .. 2 |-> t[i]]
    OBVIOUS
  <2>2. \A i \in 1 .. 2 : Goes(t[i], "active", FALSE)
    BY DEF Goes, Step, Ops
  <2> HIDE DEF t
  <2>3. IsPart(t, "active", FALSE, FALSE)
    BY <2>1, <2>2, StepsArePart
  <2> QED
    BY <2>3 DEF Retried, t
<1>5. IsPart(p1, "baseline", TRUE, FALSE) /\ IsPart(c, "active", TRUE, FALSE)
  BY AppliedPart, CreatesPart
<1>6. /\ {"baseline", "active"} \subseteq DOMAIN EmptyRedis
      /\ FALSE = ("baseline" \in marked) /\ FALSE = ("active" \in marked)
  BY DEF EmptyRedis
<1>7. PoisonMessage = p7
  BY DEF PoisonMessage
<1> HIDE DEF marked, r, n, q, c, p1, p2, p3, p4, p5, p6, p7
<1>8. IsOrdered(p1, marked)
  BY <1>5, <1>6, OrderBegins
<1>9. IsOrdered(p2, marked) /\ "active" \in Created(p2, Len(p2))
  BY <1>5, <1>6, <1>8, OrderOpens DEF p2
<1>10. IsOrdered(p3, marked) /\ "active" \in Created(p3, Len(p3))
  BY <1>2, <1>6, <1>9, OrderStays DEF p3
<1>11. IsOrdered(p4, marked) /\ "active" \in Created(p4, Len(p4))
  <2>1. IsOrdered(p3 \o Retried(1), marked) /\ "active" \in Created(p3 \o Retried(1), Len(p3 \o Retried(1)))
    BY <1>4, <1>6, <1>10, OrderStays
  <2> QED
    BY <1>3, <1>6, <2>1, OrderStays DEF p4
<1>12. IsOrdered(p5, marked) /\ "active" \in Created(p5, Len(p5))
  <2>1. IsOrdered(p4 \o Retried(2), marked) /\ "active" \in Created(p4 \o Retried(2), Len(p4 \o Retried(2)))
    BY <1>4, <1>6, <1>11, OrderStays
  <2> QED
    BY <1>3, <1>6, <2>1, OrderStays DEF p5
<1>13. IsOrdered(p6, marked) /\ "active" \in Created(p6, Len(p6))
  BY <1>4, <1>6, <1>12, OrderStays DEF p6
<1>14. IsOrdered(p7, marked)
  BY <1>1, <1>6, <1>13, OrderStays DEF p7
<1> QED
  BY <1>7, <1>14 DEF marked

-----------------------------------------------------------------------------
\* The fields of a stream, and two streams that differ at most in the marks.
Fields == DOMAIN Fresh

Alike(x, y, isMarked) ==
  /\ DOMAIN x = Fields /\ DOMAIN y = Fields
  /\ x.entries = y.entries /\ x.next = y.next /\ x.pending = y.pending
  /\ x.effects = y.effects /\ x.dead = y.dead
  /\ isMarked => x.markers = y.markers

\* Two Redis after k steps of p: the streams that these created are alike in both.
StreamsAlike(p, marked, k, x, y) ==
  /\ DOMAIN x = DOMAIN EmptyRedis /\ DOMAIN y = DOMAIN EmptyRedis
  /\ \A s \in Created(p, k) : Alike(x[s], y[s], s \in marked)

\* A call returns the same on both and leaves them alike.
LEMMA CalledAlike ==
  ASSUME NEW x, NEW y, NEW isMarked \in BOOLEAN, Alike(x, y, isMarked),
         NEW op \in Ops \ {"create"}, NEW arg, op = "applyOnce" => isMarked
  PROVE  /\ Called(x, op, arg).result = Called(y, op, arg).result
         /\ Alike(Called(x, op, arg).state, Called(y, op, arg).state, isMarked)
<1>1. DOMAIN x = {"entries", "next", "pending", "effects", "markers", "dead"}
      /\ DOMAIN y = {"entries", "next", "pending", "effects", "markers", "dead"}
  BY DEF Alike, Fields, Fresh
<1>2. /\ x.entries = y.entries /\ x.next = y.next /\ x.pending = y.pending
      /\ x.effects = y.effects /\ x.dead = y.dead /\ (isMarked => x.markers = y.markers)
  BY DEF Alike
<1>3. Pending(x) = Pending(y) /\ FirstDelivered(x) = FirstDelivered(y)
      /\ Unread(x, arg) = Unread(y, arg)
  BY <1>2 DEF Pending, FirstDelivered, Unread
<1>4. CASE op = "publish"
  BY <1>1, <1>2, <1>4 DEF Called, Alike, Fields, Fresh
<1>5. CASE op = "read"
  BY <1>1, <1>2, <1>3, <1>5 DEF Called, Alike, Fields, Fresh
<1>6. CASE op = "claim"
  BY <1>1, <1>2, <1>3, <1>6 DEF Called, Alike, Fields, Fresh
<1>7. CASE op = "ack"
  BY <1>1, <1>2, <1>3, <1>7 DEF Called, Alike, Fields, Fresh
<1>8. CASE op \in {"pending", "effects", "entries", "graves"}
  BY <1>1, <1>2, <1>3, <1>8 DEF Called, Alike, Fields, Fresh
<1>9. CASE op \in {"apply", "process"}
  BY <1>1, <1>2, <1>9 DEF Called, Alike, Fields, Fresh
<1>10. CASE op = "applyOnce"
  BY <1>1, <1>2, <1>10 DEF Called, Alike, Fields, Fresh
<1>11. CASE op = "bury"
  BY <1>1, <1>2, <1>3, <1>11 DEF Called, Alike, Fields, Fresh
<1> QED
  BY <1>4, <1>5, <1>6, <1>7, <1>8, <1>9, <1>10, <1>11 DEF Ops

\* Creating a stream makes it alike whatever it was, its marks too if they are deleted.
LEMMA CreatedAlike ==
  ASSUME NEW x, NEW y, NEW isMarked \in BOOLEAN
  PROVE  /\ Called(x, "create", isMarked).result = Called(y, "create", isMarked).result
         /\ Alike(Called(x, "create", isMarked).state, Called(y, "create", isMarked).state, isMarked)
BY DEF Called, CreateStream, Alike, Fields, Fresh

-----------------------------------------------------------------------------
\* Every set of numbers has a least one.
LEMMA LeastNumber ==
  ASSUME NEW A \in SUBSET Nat, A # {}
  PROVE  \E n \in A : \A m \in A : n <= m
<1> DEFINE R == {p \in Nat \X Nat : p[1] < p[2]}
<1>1. IsWellFoundedOn(R, Nat)
  <2>1. R = OpToRel(<, Nat)
    BY DEF OpToRel
  <2> QED
    BY <2>1, NatLessThanWellFounded
<1>2. PICK n \in A : \A m \in A : ~ (<<m, n>> \in R)
  <2> HIDE DEF R
  <2> QED
    BY <1>1, WFMin
<1>3. ASSUME NEW m \in A PROVE n <= m
  <2>1. <<m, n>> \in Nat \X Nat /\ ~ (<<m, n>> \in R)
    BY <1>2
  <2>2. ~ (m < n)
    BY <2>1
  <2> QED
    BY <2>1, <2>2
<1> QED
  BY <1>3

\* Induction up to a number, over the set where something holds.
LEMMA InductionUpTo ==
  ASSUME NEW m \in Nat, NEW A, 0 \in A,
         \A n \in 1 .. m : n - 1 \in A => n \in A
  PROVE  0 .. m \subseteq A
<1> SUFFICES ASSUME ~ (0 .. m \subseteq A) PROVE FALSE
  OBVIOUS
<1> DEFINE B == (0 .. m) \ A
<1>1. PICK n \in B : \A k \in B : n <= k
  <2>1. B \in SUBSET Nat /\ B # {}
    OBVIOUS
  <2> QED
    BY <2>1, LeastNumber
<1>2. n \in 1 .. m /\ n - 1 \in 0 .. m /\ ~ (n <= n - 1)
  BY <1>1
<1>3. n - 1 \in A
  BY <1>1, <1>2
<1> QED
  BY <1>1, <1>2, <1>3

\* A Redis that no run has touched.
Untouched == [streams |-> EmptyRedis, agreed |-> TRUE]

\* A first run starts on an empty Redis and follows its steps one by one.
LEMMA FirstRunIs ==
  ASSUME NEW program, Len(program) \in Nat
  PROVE  /\ FirstRun(program)[0] = Untouched
         /\ \A k \in 1 .. Len(program) :
              FirstRun(program)[k] = Follows(FirstRun(program)[k - 1], program[k])
<1> DEFINE Defines(f, m) ==
      f = [k \in 0 .. m |-> IF k = 0 THEN [streams |-> EmptyRedis, agreed |-> TRUE]
                            ELSE Follows(f[k - 1], program[k])]
<1> DEFINE A == {m \in Nat : \E f : Defines(f, m)}
<1>1. 0 \in A
  <2> DEFINE f == [k \in 0 .. 0 |-> Untouched]
  <2>1. f = [k \in 0 .. 0 |-> IF k = 0 THEN [streams |-> EmptyRedis, agreed |-> TRUE]
                              ELSE Follows(f[k - 1], program[k])]
    BY DEF Untouched
  <2> QED
    BY <2>1
<1>2. ASSUME NEW m \in 1 .. Len(program), m - 1 \in A PROVE m \in A
  <2>1. PICK f : Defines(f, m - 1)
    BY <1>2
  <2> DEFINE g == [k \in 0 .. m |-> IF k = m THEN Follows(f[m - 1], program[m]) ELSE f[k]]
  <2>2. ASSUME NEW k \in 0 .. m
        PROVE  g[k] = IF k = 0 THEN [streams |-> EmptyRedis, agreed |-> TRUE]
                      ELSE Follows(g[k - 1], program[k])
    <3>1. CASE k = 0
      BY <2>1, <3>1
    <3>2. CASE k = m
      BY <3>2
    <3>3. CASE k # 0 /\ k # m
      <4>1. k \in 0 .. m - 1 /\ k - 1 \in 0 .. m - 1 /\ k - 1 # m /\ k - 1 \in 0 .. m
        BY <3>3
      <4>2. f[k] = Follows(f[k - 1], program[k])
        BY <2>1, <3>3, <4>1
      <4> QED
        BY <3>3, <4>1, <4>2
    <3> QED
      BY <3>1, <3>2, <3>3
  <2>3. g = [k \in 0 .. m |-> g[k]]
    OBVIOUS
  <2>4. Defines(g, m)
    <3> HIDE DEF g
    <3> QED
      BY <2>2, <2>3
  <2>5. m \in Nat
    OBVIOUS
  <2> QED
    BY <2>4, <2>5
<1>3. \E f : Defines(f, Len(program))
  <2> HIDE DEF A
  <2>1. 0 .. Len(program) \subseteq A
    BY <1>1, <1>2, InductionUpTo
  <2>2. Len(program) \in A
    BY <2>1
  <2> QED
    BY <2>2 DEF A
<1>4. Defines(CHOOSE f : Defines(f, Len(program)), Len(program))
  <2> HIDE DEF Defines
  <2> QED
    BY <1>3
<1>5. FirstRun(program) = CHOOSE f : Defines(f, Len(program))
  BY DEF FirstRun
<1>6. Defines(FirstRun(program), Len(program))
  <2> HIDE DEF Defines
  <2> QED
    BY <1>4, <1>5
<1> DEFINE run == FirstRun(program)
<1> HIDE DEF run
<1>7. run = [k \in 0 .. Len(program) |-> IF k = 0 THEN [streams |-> EmptyRedis, agreed |-> TRUE]
                                         ELSE Follows(run[k - 1], program[k])]
  BY <1>6 DEF run
<1>8. run[0] = Untouched /\ \A k \in 1 .. Len(program) : run[k] = Follows(run[k - 1], program[k])
  <2>1. ASSUME NEW k \in 0 .. Len(program)
        PROVE  run[k] = IF k = 0 THEN [streams |-> EmptyRedis, agreed |-> TRUE]
                        ELSE Follows(run[k - 1], program[k])
    BY <1>7
  <2>2. run[0] = Untouched
    <3>1. 0 \in 0 .. Len(program)
      OBVIOUS
    <3> QED
      BY <2>1, <3>1, Zenon DEF Untouched
  <2>3. ASSUME NEW k \in 1 .. Len(program) PROVE run[k] = Follows(run[k - 1], program[k])
    <3>1. k \in 0 .. Len(program) /\ k # 0
      OBVIOUS
    <3> QED
      BY <2>1, <3>1, Zenon
  <2> QED
    BY <2>2, <2>3
<1> QED
  BY <1>8 DEF run

\* A run that was killed, or not, is where a first run was after as many steps, as far
\* as it has created the streams.
RunInv ==
  probe # "none" =>
    LET program == MessagingProbes[probe]
        run == FirstRun(program)
    IN /\ probe \in DOMAIN MessagingProbes
       /\ atStep \in 1 .. Len(program) + 1
       /\ agreed = run[atStep - 1].agreed
       /\ \E marked : /\ IsOrdered(program, marked)
                      /\ StreamsAlike(program, marked, atStep - 1, streams, run[atStep - 1].streams)

\* Every messaging probe creates the streams it uses, and deletes the marks it looks at.
LEMMA ProbesAreOrdered ==
  ASSUME NEW p \in DOMAIN MessagingProbes
  PROVE  /\ \E marked : IsOrdered(MessagingProbes[p], marked)
         /\ Len(MessagingProbes[p]) \in Nat
<1>1. p \in {"ackBeforeEffect", "duplicateDelivery", "duplicatePublication", "poisonMessage"}
  BY DEF MessagingProbes
<1>2. /\ MessagingProbes["ackBeforeEffect"] = AckBeforeDurableEffect
      /\ MessagingProbes["duplicateDelivery"] = DuplicateDelivery
      /\ MessagingProbes["duplicatePublication"] = DuplicatePublication
      /\ MessagingProbes["poisonMessage"] = PoisonMessage
  BY DEF MessagingProbes
<1>3. \E marked : IsOrdered(MessagingProbes[p], marked)
  BY <1>1, <1>2, AckIsOrdered, DeliveryIsOrdered, PublicationIsOrdered, PoisonIsOrdered, Zenon
<1>4. \A q : IsSequence(q) => Len(q) \in Nat
  BY DEF IsSequence
<1> QED
  BY <1>3, <1>4 DEF IsOrdered

\* Before its first step a probe has created no stream.
LEMMA RunStartsInv ==
  ASSUME NEW p \in DOMAIN MessagingProbes, NEW k, k = 1
  PROVE  /\ Len(MessagingProbes[p]) \in Nat
         /\ FirstRun(MessagingProbes[p])[k - 1] = Untouched
         /\ Created(MessagingProbes[p], k - 1) = {}
         /\ \E marked : IsOrdered(MessagingProbes[p], marked)
<1>1. k - 1 = 0
  OBVIOUS
<1>2. Created(MessagingProbes[p], 0) = {}
  BY DEF Created
<1> QED
  BY <1>1, <1>2, ProbesAreOrdered, FirstRunIs, Zenon

\* A probe is where a first run starts.
LEMMA RunInitInv == LabInit => RunInv
<1> SUFFICES ASSUME LabInit, probe # "none" PROVE RunInv
  BY DEF RunInv
<1>1. /\ probe \in DOMAIN MessagingProbes /\ atStep = 1 /\ agreed = TRUE
      /\ streams = EmptyRedis
  BY DEF LabInit, MsgInit
<1>2. /\ Len(MessagingProbes[probe]) \in Nat
      /\ FirstRun(MessagingProbes[probe])[atStep - 1] = Untouched
      /\ Created(MessagingProbes[probe], atStep - 1) = {}
      /\ \E marked : IsOrdered(MessagingProbes[probe], marked)
  BY <1>1, RunStartsInv
<1> QED
  BY <1>1, <1>2 DEF RunInv, StreamsAlike, Untouched


\* One more step: a stream that was created stays alike in both runs, the one that a step
\* creates becomes alike, and both runs get the same answer.
LEMMA AlikeGoesOn ==
  ASSUME NEW p, NEW marked, IsOrdered(p, marked), Len(p) \in Nat, NEW k \in 1 .. Len(p),
         NEW x, NEW y, StreamsAlike(p, marked, k - 1, x, y)
  PROVE  LET call == Called(x[p[k].stream], p[k].op, p[k].arg)
             other == Called(y[p[k].stream], p[k].op, p[k].arg)
         IN /\ call.result = other.result
            /\ StreamsAlike(p, marked, k, [x EXCEPT ![p[k].stream] = call.state],
                            [y EXCEPT ![p[k].stream] = other.state])
<1> DEFINE stream == p[k].stream
           call == Called(x[stream], p[k].op, p[k].arg)
           other == Called(y[stream], p[k].op, p[k].arg)
           z == [x EXCEPT ![stream] = call.state]
           w == [y EXCEPT ![stream] = other.state]
<1>1. /\ stream \in DOMAIN EmptyRedis /\ p[k].op \in Ops
      /\ p[k].op # "create" => stream \in Created(p, k - 1)
      /\ p[k].op = "create" => p[k].arg = (stream \in marked)
      /\ p[k].op = "applyOnce" => stream \in marked
  BY DEF IsOrdered
<1>2. /\ DOMAIN x = DOMAIN EmptyRedis /\ DOMAIN y = DOMAIN EmptyRedis
      /\ \A s \in Created(p, k - 1) : Alike(x[s], y[s], s \in marked)
  BY DEF StreamsAlike
<1>3. call.result = other.result /\ Alike(call.state, other.state, stream \in marked)
  <2> DEFINE isMarked == stream \in marked
  <2>1. isMarked \in BOOLEAN
    OBVIOUS
  <2>2. CASE p[k].op = "create"
    <3>1. p[k].arg = isMarked
      BY <1>1, <2>2
    <3> HIDE DEF isMarked, stream
    <3>2. /\ Called(x[stream], "create", isMarked).result = Called(y[stream], "create", isMarked).result
          /\ Alike(Called(x[stream], "create", isMarked).state,
                   Called(y[stream], "create", isMarked).state, isMarked)
      BY <2>1, CreatedAlike
    <3> QED
      BY <2>2, <3>1, <3>2 DEF isMarked, stream
  <2>3. CASE p[k].op # "create"
    <3>1. Alike(x[stream], y[stream], isMarked)
      BY <1>1, <1>2, <2>3
    <3>2. p[k].op \in Ops \ {"create"} /\ (p[k].op = "applyOnce" => isMarked)
      BY <1>1, <2>3
    <3> DEFINE op == p[k].op
               arg == p[k].arg
    <3> HIDE DEF isMarked, stream, op, arg
    <3>3. /\ Called(x[stream], op, arg).result = Called(y[stream], op, arg).result
          /\ Alike(Called(x[stream], op, arg).state, Called(y[stream], op, arg).state, isMarked)
      BY <2>1, <3>1, <3>2, CalledAlike DEF op
    <3> QED
      BY <3>3 DEF isMarked, stream, op, arg
  <2> QED
    BY <2>2, <2>3
<1>4. /\ DOMAIN w = DOMAIN EmptyRedis /\ DOMAIN z = DOMAIN EmptyRedis
      /\ w[stream] = other.state /\ z[stream] = call.state
      /\ \A s \in DOMAIN EmptyRedis \ {stream} : w[s] = y[s] /\ z[s] = x[s]
  <2> HIDE DEF call, other
  <2> QED
    BY <1>1, <1>2
<1>5. ASSUME NEW s \in Created(p, k), s # stream PROVE s \in Created(p, k - 1)
  <2>1. PICK i \in {i \in 1 .. k : p[i].op = "create"} : p[i].stream = s
    BY <1>5 DEF Created
  <2>2. i # k /\ i \in 1 .. k - 1 /\ p[i].op = "create"
    BY <1>5, <2>1
  <2> QED
    BY <2>1, <2>2 DEF Created
<1>6. ASSUME NEW s \in Created(p, k) PROVE s \in DOMAIN EmptyRedis
  BY <1>6 DEF Created, IsOrdered
<1>7. ASSUME NEW s \in Created(p, k) PROVE Alike(z[s], w[s], s \in marked)
  <2>1. CASE s = stream
    BY <1>3, <1>4, <2>1
  <2>2. CASE s # stream
    <3>1. s \in Created(p, k - 1) /\ s \in DOMAIN EmptyRedis \ {stream}
      BY <1>5, <1>6, <2>2
    <3> HIDE DEF stream, w, z
    <3> QED
      BY <1>2, <1>4, <3>1
  <2> QED
    BY <2>1, <2>2
<1> QED
  BY <1>3, <1>4, <1>7 DEF StreamsAlike

\* The probe takes a step.
LEMMA RunTakes == RunInv /\ Takes => RunInv'
<1> SUFFICES ASSUME RunInv, Takes PROVE RunInv'
  OBVIOUS
<1> DEFINE program == MessagingProbes[probe]
           run == FirstRun(program)
<1>1. probe # "none" /\ ~ (atStep > Len(program)) /\ probe' = probe
  BY DEF Takes, Finished
<1>2. /\ probe \in DOMAIN MessagingProbes
      /\ atStep \in 1 .. Len(program) + 1
      /\ agreed = run[atStep - 1].agreed
  BY <1>1 DEF RunInv
<1>3. PICK marked : /\ IsOrdered(program, marked)
                    /\ StreamsAlike(program, marked, atStep - 1, streams, run[atStep - 1].streams)
  BY <1>1 DEF RunInv
<1>4. Len(program) \in Nat
  BY <1>2, ProbesAreOrdered
<1>5. PICK k : k = atStep
  OBVIOUS
<1>6. PICK m : m = k + 1
  OBVIOUS
<1>7. k \in 1 .. Len(program) /\ m \in 1 .. Len(program) + 1 /\ m - 1 = k /\ atStep' = m
  BY <1>1, <1>2, <1>4, <1>5, <1>6 DEF Takes
<1>8. PICK p : p = program
  OBVIOUS
<1>9. PICK x : x = streams
  OBVIOUS
<1>10. PICK y : y = run[k - 1]
  OBVIOUS
<1>11. PICK call : call = Called(x[p[k].stream], p[k].op, p[k].arg)
  OBVIOUS
<1>12. PICK other : other = Called(y.streams[p[k].stream], p[k].op, p[k].arg)
  OBVIOUS
<1>13. /\ streams' = [x EXCEPT ![p[k].stream] = call.state]
       /\ agreed' = (agreed /\ call.result = p[k].expect)
  BY <1>5, <1>8, <1>9, <1>11 DEF Takes
<1> HIDE DEF program, run
<1>14. run[k] = Follows(y, p[k])
  BY <1>4, <1>7, <1>8, <1>10, FirstRunIs DEF run
<1>15. /\ IsOrdered(p, marked) /\ Len(p) \in Nat /\ k \in 1 .. Len(p)
       /\ StreamsAlike(p, marked, k - 1, x, y.streams) /\ agreed = y.agreed
  BY <1>2, <1>3, <1>4, <1>5, <1>7, <1>8, <1>9, <1>10
<1>16. /\ call.result = other.result
       /\ StreamsAlike(p, marked, k, [x EXCEPT ![p[k].stream] = call.state],
                       [y.streams EXCEPT ![p[k].stream] = other.state])
  BY <1>11, <1>12, <1>15, AlikeGoesOn
<1>17. /\ run[k].streams = [y.streams EXCEPT ![p[k].stream] = other.state]
       /\ run[k].agreed = (y.agreed /\ other.result = p[k].expect)
  BY <1>12, <1>14 DEF Follows
<1>18. /\ StreamsAlike(p, marked, k, streams', run[k].streams)
       /\ agreed' = run[k].agreed
  BY <1>13, <1>15, <1>16, <1>17
<1>19. MessagingProbes[probe'] = program /\ FirstRun(MessagingProbes[probe']) = run
  BY <1>1 DEF program, run
<1>20. /\ agreed' = run[atStep' - 1].agreed
       /\ StreamsAlike(program, marked, atStep' - 1, streams', run[atStep' - 1].streams)
  BY <1>7, <1>8, <1>18, Zenon
<1>21. probe' \in DOMAIN MessagingProbes /\ atStep' \in 1 .. Len(program) + 1
  BY <1>1, <1>2, <1>7
<1> QED
  BY <1>3, <1>19, <1>20, <1>21, Zenon DEF RunInv

\* The probe is killed and starts again.
LEMMA RunIsKilled == RunInv /\ IsKilled => RunInv'
<1> SUFFICES ASSUME RunInv, IsKilled PROVE RunInv'
  OBVIOUS
<1>1. probe # "none" /\ probe' = probe /\ atStep' = 1 /\ agreed' = TRUE
  BY DEF IsKilled, Finished
<1>2. probe \in DOMAIN MessagingProbes /\ DOMAIN streams = DOMAIN EmptyRedis
  BY <1>1 DEF RunInv, StreamsAlike
<1>3. DOMAIN streams' = DOMAIN EmptyRedis
  <2>1. \/ streams' = streams
        \/ \E stream, state : streams' = [streams EXCEPT ![stream] = state]
    BY DEF IsKilled
  <2> QED
    BY <1>2, <2>1
<1>4. PICK k : k = 1
  OBVIOUS
<1>5. /\ Len(MessagingProbes[probe]) \in Nat
      /\ FirstRun(MessagingProbes[probe])[k - 1] = Untouched
      /\ Created(MessagingProbes[probe], k - 1) = {}
      /\ \E marked : IsOrdered(MessagingProbes[probe], marked)
  BY <1>2, <1>4, RunStartsInv
<1> QED
  BY <1>1, <1>2, <1>3, <1>4, <1>5 DEF RunInv, StreamsAlike, Untouched

\* Every step of a laboratory keeps the runs alike.
LEMMA RunNextInv == RunInv /\ [LabNext]_labVars => RunInv'
<1> SUFFICES ASSUME RunInv, [LabNext]_labVars PROVE RunInv'
  OBVIOUS
<1>1. CASE Takes
  BY <1>1, RunTakes
<1>2. CASE IsKilled
  BY <1>2, RunIsKilled
<1>3. CASE UNCHANGED msgVars
  BY <1>3 DEF msgVars, RunInv
<1> QED
  BY <1>1, <1>2, <1>3 DEF LabNext, MsgNext, labVars

\* A probe that ended is where its first run ended.
LEMMA RunAgrees == RunInv => RerunsAgree
<1> SUFFICES ASSUME RunInv, MessagingEnds PROVE agreed
  BY DEF RerunsAgree
<1> DEFINE program == MessagingProbes[probe]
<1>1. probe # "none" /\ atStep > Len(program)
  BY DEF MessagingEnds, Finished
<1>2. probe \in DOMAIN MessagingProbes /\ atStep \in 1 .. Len(program) + 1
      /\ agreed = FirstRun(program)[atStep - 1].agreed
  BY <1>1 DEF RunInv
<1>3. Len(program) \in Nat
  BY <1>2, ProbesAreOrdered
<1>4. atStep - 1 = Len(program)
  BY <1>1, <1>2, <1>3
<1> QED
  BY <1>2, <1>4, FirstRunsAgree

\* However often a messaging probe is killed, with or without the effect of the call it died
\* in, and run again on what it left: a run that ends has got from every call what it
\* expects (the probes of the messaging laboratories, which start each phase by creating its
\* stream).
THEOREM RerunsAlwaysAgree == LabSpec => []RerunsAgree
<1>1. LabInit => RunInv
  BY RunInitInv
<1>2. RunInv /\ [LabNext]_labVars => RunInv'
  BY RunNextInv
<1>3. RunInv => RerunsAgree
  BY RunAgrees
<1> QED
  BY <1>1, <1>2, <1>3, PTL DEF LabSpec

-----------------------------------------------------------------------------
(***************************************************************************)
(* All laboratories together.                                              *)
(***************************************************************************)

\* A probe of any laboratory that says its experiment supports its claim saw the failure
\* in the phase that provokes it and in no other one, and saw what it provoked.
THEOREM SupportsAreEarned == LabSpec => []SupportsIsEarned
<1>1. LabInit => TxInv /\ ProbeInv /\ PoolInv /\ MeasuredInv /\ FullInv /\ NetInv /\ TriesInv
  BY TxInitInv, ProbeInitInv, PoolInitInv, MeasuredInitInv, FullInitInv, NetInitInv, TriesInitInv
<1>2. /\ TxInv /\ ProbeInv /\ PoolInv /\ MeasuredInv /\ FullInv /\ NetInv /\ TriesInv
      /\ [LabNext]_labVars
      => (TxInv /\ ProbeInv /\ PoolInv /\ MeasuredInv /\ FullInv /\ NetInv /\ TriesInv)'
  BY TxNextInv, ProbeNextInv, PoolNextInv, MeasuredNextInv, FullNextInv, NetNextInv, TriesNextInv
<1>3. TxInv /\ ProbeInv /\ PoolInv /\ MeasuredInv /\ FullInv /\ NetInv /\ TriesInv
      => SupportsIsEarned
  BY ProbesConclude, PoolIsEarned, AdmissionIsEarned, NetworkIsEarned, ConnectionIsEarned
  DEF SupportsIsEarned
<1> QED
  BY <1>1, <1>2, <1>3, PTL DEF LabSpec
=============================================================================
