---------------------------- MODULE NetworkLabs -----------------------------
(***************************************************************************)
(* The laboratories about the network and about connections.  Each runs a  *)
(* probe of its own; they share no state.                                  *)
(***************************************************************************)
EXTENDS Integers, Sequences, FiniteSets

(***************************************************************************)
(* The laboratories about the network: a probe measures exchanges with a   *)
(* server, installs a netem rule on its interface, measures again, removes *)
(* the rule and measures a last time.  The network may also mistreat a     *)
(* packet by itself, and the removal of a rule may fail without notice.    *)
(***************************************************************************)
CONSTANTS
  NetSamples,    \* the exchanges of a phase
  MaxMishaps     \* how often something goes wrong that no rule causes

\* What goes wrong by itself does not spoil every exchange of a phase: from such
\* a phase no probe could tell the network from its rule.
ASSUME FewerMishaps == NetSamples \in Nat /\ MaxMishaps \in Nat /\ MaxMishaps < NetSamples

VARIABLES
  netem,         \* the probe that runs
  netAt,         \* where it is
  part,          \* the phase: 1, the baseline; 2, the intervention; 3, the recovery
  rule,          \* whether the netem rule is installed
  replies,       \* replies that wait in the probe's socket
  sent,          \* exchanges of this phase
  measured,      \* what the probe counted in each part
  dropped,       \* packets the rule dropped
  shown,         \* what tc showed during and after the intervention
  fates,         \* what became of the packets of each phase
  mishaps

netemVars == <<netem, netAt, part, rule, replies, sent, measured, dropped, shown, fates, mishaps>>

\* What a rule does to a packet, and whether it does it to every packet.
FateOf == [loss |-> "lost", duplication |-> "twice", reordering |-> "swapped",
           corruption |-> "changed", jitter |-> "varied", latency |-> "late",
           lossTcp |-> "lost", corruptionTcp |-> "changed"]
IsCertain == netem \in {"loss", "duplication", "latency"}
Bursts == {"duplication", "reordering"}
Streams == {"latency", "lossTcp", "corruptionTcp"}

\* Probes that remove any rule before they start and replace it; the others add
\* one, which fails if there is one.
ClearsFirst == netem \in {"duplication", "reordering", "corruption", "latency"}

\* Probes that remove the rule also when the intervention fails.
CleansUp == netem \in {"loss", "jitter", "latency", "lossTcp", "corruptionTcp"}

Nothing == [missing |-> 0, wrong |-> 0, copies |-> 0, inversions |-> 0,
            slow |-> 0, retransmitted |-> 0, rejected |-> 0]
Counts(names) == [n \in DOMAIN Nothing |-> IF n \in names THEN measured[part][n] + 1
                                                          ELSE measured[part][n]]

-----------------------------------------------------------------------------
Measures == netAt = "measure" /\ sent < NetSamples

\* The fates a packet of this phase may have, by the rule or by itself.  A packet of a
\* burst that others overtake is late only when the burst's deadline passed before it.
MayBe(fate) ==
  \/ fate = "kept" /\ ~(rule /\ IsCertain)
  \/ rule /\ fate = FateOf[netem]
  \/ /\ mishaps < MaxMishaps /\ ~(rule /\ netem = "loss")
     /\ fate \in {"lost", "late", "twice"} \cup (IF netem \in Bursts THEN {"swapped"} ELSE {})

IsMishap(fate) == fate # "kept" /\ ~(rule /\ fate = FateOf[netem])

\* A new socket for every sample: a reply counts or its deadline passes.
SampledAlone(fate) ==
  {[counts |-> Counts(IF fate \in {"lost", "late"} THEN {"missing"} ELSE {}), queue |-> <<>>]}

\* A burst is read until nothing comes, or until as many packets came as were sent,
\* when a copy that comes last is not read and one that does not hides another packet.
SampledInBurst(fate) ==
  LET counted == CASE fate = "kept" -> {{}}
                   [] fate \in {"lost", "late"} -> {{"missing"}}
                   [] fate = "swapped" -> {{"inversions"}}
                   [] fate = "twice" -> IF netem = "reordering" THEN {{}, {"copies", "missing"}}
                                                                ELSE {{"copies"}}
  IN {[counts |-> Counts(names), queue |-> <<>>] : names \in counted}

\* One socket for the phase: a reply after its deadline, or a second one, waits there
\* and is taken for the reply to a later sample.
Arrived(fate) ==
  CASE fate \in {"lost", "late"} -> <<>>
    [] fate = "twice" -> <<[to |-> sent, intact |-> TRUE], [to |-> sent, intact |-> TRUE]>>
    [] OTHER -> <<[to |-> sent, intact |-> fate # "changed"]>>

SampledOnOneSocket(fate) ==
  LET waiting == replies \o Arrived(fate)
      isWrong == waiting # <<>> /\ Head(waiting) # [to |-> sent, intact |-> TRUE]
  IN {[counts |-> Counts(CASE waiting = <<>> -> {"missing"}
                           [] isWrong -> {"wrong"}
                           [] fate = "varied" -> {"slow"}
                           [] OTHER -> {}),
       queue |-> (IF waiting = <<>> THEN <<>> ELSE Tail(waiting))
                 \o (IF fate = "late" THEN <<[to |-> sent, intact |-> TRUE]>> ELSE <<>>)]}

\* TCP repeats what is lost or damaged, which takes its time, and may repeat what is
\* late before it comes; its counter is that of the whole namespace.
SampledOnStream(fate) ==
  LET counted == CASE fate = "lost" -> {{"slow", "retransmitted"}}
                   [] fate = "changed" -> {{"slow", "retransmitted", "rejected"}}
                   [] fate = "late" -> {{"slow"}, {"slow", "retransmitted"}}
                   [] OTHER -> {{}}
  IN {[counts |-> Counts(names), queue |-> <<>>] : names \in counted}

Sampled(fate) ==
  IF netem \in Bursts THEN SampledInBurst(fate)
  ELSE IF netem \in Streams THEN SampledOnStream(fate)
  ELSE IF netem = "loss" THEN SampledAlone(fate)
  ELSE SampledOnOneSocket(fate)

\* The jitter probe gives up at a reply that is not the one it waits for.
MeasuresOnce ==
  /\ Measures
  /\ \E fate \in {"kept", "lost", "late", "twice", "swapped", "changed", "varied"} :
       /\ MayBe(fate)
       /\ fates' = fates \cup {[part |-> part, fate |-> fate, rule |-> rule]}
       /\ mishaps' = IF IsMishap(fate) THEN mishaps + 1 ELSE mishaps
       /\ \E more \in IF fate = "lost" /\ rule THEN (IF IsMishap(fate) THEN {0, 1} ELSE {1}) ELSE {0} :
            dropped' = dropped + more
       /\ \E sample \in Sampled(fate) :
            /\ measured' = [measured EXCEPT ![part] = sample.counts]
            /\ replies' = sample.queue
            /\ netAt' = IF netem = "jitter" /\ sample.counts.wrong > 0 THEN "raise" ELSE netAt
  /\ sent' = sent + 1
  /\ UNCHANGED <<netem, part, rule, shown>>

-----------------------------------------------------------------------------
\* A removal that fails goes unnoticed.
Removes ==
  \/ rule' = FALSE /\ mishaps' = mishaps
  \/ rule /\ mishaps < MaxMishaps /\ rule' = rule /\ mishaps' = mishaps + 1

StartsPhase(n) == part' = n /\ netAt' = "measure" /\ sent' = 0 /\ replies' = <<>>

ClearsNetem ==
  /\ netAt = "start"
  /\ IF ClearsFirst THEN Removes ELSE UNCHANGED <<rule, mishaps>>
  /\ StartsPhase(1)
  /\ UNCHANGED <<netem, measured, dropped, shown, fates>>

AppliesRule ==
  /\ netAt = "measure" /\ part = 1 /\ sent = NetSamples
  /\ IF rule /\ ~ClearsFirst
     THEN netAt' = "raise" /\ part' = 2 /\ UNCHANGED <<rule, sent, replies>>
     ELSE rule' = TRUE /\ StartsPhase(2)
  /\ UNCHANGED <<netem, measured, dropped, shown, fates, mishaps>>

\* Packets of others that pass the interface are counted too.
RemovesRule ==
  /\ netAt = "measure" /\ part = 2 /\ sent = NetSamples
  /\ Removes
  /\ StartsPhase(3)
  /\ \E others \in IF FateOf[netem] = "lost" THEN {0, 1} ELSE {0} : dropped' = dropped + others
  /\ shown' = [shown EXCEPT !.during = rule, !.drops = dropped']
  /\ UNCHANGED <<netem, measured, fates>>

Concludes ==
  /\ netAt = "measure" /\ part = 3 /\ sent = NetSamples
  /\ netAt' = "done"
  /\ shown' = [shown EXCEPT !.after = rule]
  /\ UNCHANGED <<netem, part, rule, replies, sent, measured, dropped, fates, mishaps>>

\* tc, the resolver or a socket may fail at any call; before the first measurement
\* no probe has anything to clean up.
NetFails ==
  /\ netAt \in {"start", "measure"} /\ mishaps < MaxMishaps
  /\ netAt' = IF netAt = "start" THEN "failed" ELSE "raise"
  /\ mishaps' = mishaps + 1
  /\ UNCHANGED <<netem, part, rule, replies, sent, measured, dropped, shown, fates>>

Raises ==
  /\ netAt = "raise"
  /\ netAt' = "failed"
  /\ IF CleansUp /\ (part = 2 \/ (part = 1 /\ netem = "latency"))
     THEN Removes ELSE UNCHANGED <<rule, mishaps>>
  /\ UNCHANGED <<netem, part, replies, sent, measured, dropped, shown, fates>>

-----------------------------------------------------------------------------
\* The assertions; a time that grows is one that most samples of the phase needed
\* or, for its spread, that some did.
Complete(phases) == \A n \in phases : measured[n].missing = 0
MostAreSlow(n) == 2 * measured[n].slow > NetSamples
Increases(count) == measured[2][count] > measured[1][count] /\ measured[2][count] > measured[3][count]
OnlyDuring(count) == measured[1][count] = 0 /\ measured[2][count] > 0 /\ measured[3][count] = 0
IsRemoved == ~shown.after
NoDrops == shown.drops = 0

LossSeen ==
  Complete({1, 3}) /\ measured[2].missing = NetSamples /\ shown.drops >= NetSamples

DuplicationSeen ==
  /\ Complete(1 .. 3) /\ NoDrops /\ IsRemoved
  /\ OnlyDuring("copies") /\ measured[2].copies >= NetSamples \div 2

ReorderingSeen ==
  /\ Complete(1 .. 3) /\ NoDrops /\ IsRemoved
  /\ OnlyDuring("inversions")
  /\ \A n \in 1 .. 3 : measured[n].copies = 0

\* At least three quarters of the replies come.
CorruptionSeen ==
  /\ Complete({1, 3}) /\ NetSamples - measured[2].missing >= (3 * NetSamples) \div 4
  /\ OnlyDuring("wrong") /\ NoDrops /\ IsRemoved

JitterSeen == Complete(1 .. 3) /\ Increases("slow") /\ NoDrops /\ IsRemoved

LatencySeen == MostAreSlow(2) /\ ~MostAreSlow(1) /\ ~MostAreSlow(3)

LossRepaired == measured[2].retransmitted > 0 /\ shown.drops > 0 /\ IsRemoved

DamageRepaired ==
  measured[2].rejected > 0 /\ measured[2].retransmitted > 0 /\ NoDrops /\ IsRemoved

NetAssertions ==
  /\ shown.during
  /\ CASE netem = "loss" -> LossSeen
       [] netem = "duplication" -> DuplicationSeen
       [] netem = "reordering" -> ReorderingSeen
       [] netem = "corruption" -> CorruptionSeen
       [] netem = "jitter" -> JitterSeen
       [] netem = "latency" -> LatencySeen
       [] netem = "lossTcp" -> LossRepaired
       [] netem = "corruptionTcp" -> DamageRepaired

NetemSupports == netem # "none" /\ netAt = "done" /\ NetAssertions

NetemProbe == MeasuresOnce \/ ClearsNetem \/ AppliesRule \/ RemovesRule \/ Concludes \/ Raises

NetemNext == NetemProbe \/ NetFails

\* A killed probe leaves its rule on the interface.
NetemInit(isOn) ==
  /\ IF isOn THEN netem \in DOMAIN FateOf /\ netAt = "start" ELSE netem = "none" /\ netAt = "off"
  /\ part = 1 /\ rule \in IF isOn THEN BOOLEAN ELSE {FALSE}
  /\ replies = <<>> /\ sent = 0
  /\ measured = [n \in 1 .. 3 |-> Nothing]
  /\ dropped = 0 /\ fates = {} /\ mishaps = 0
  /\ shown = [during |-> FALSE, after |-> FALSE, drops |-> 0]

NetemEnds == netAt \in {"done", "failed"}

-----------------------------------------------------------------------------
(***************************************************************************)
(* The laboratories about connections: a probe reaches a peer, then makes  *)
(* the one attempt that the peer must reject, then reaches it again.  A    *)
(* packet may be lost past a deadline, the peer may die (for good: no       *)
(* compose file of these laboratories restarts one), and the peer may have *)
(* been set up without the rejection the laboratory is about.              *)
(***************************************************************************)
CONSTANTS
  MaxAccidents   \* lost packets and deaths of the peer

VARIABLES
  conn,          \* the probe that runs
  connAt,        \* the stage its attempt is in
  turn,          \* the attempt: 1, the baseline; 2, the intervention; 3, the recovery
  tries,      \* what the probe recorded of each, and whether the peer rejected it
  rejects,       \* whether the peer was set up to reject
  peerUp,
  accidents

connVars == <<conn, connAt, turn, tries, rejects, peerUp, accidents>>

\* The stages of an attempt, and where and how the peer rejects it.  The alert
\* about a client certificate comes after the handshake of TLS 1.3, and is lost
\* when the peer closes with the client's data unread.
Plain == {"refused", "reset", "timeout"}
Dns == {"nxdomain", "silence"}
ClientCertificate == {"noCertificate", "wrongCa", "wrongEku"}
Tls == {"untrusted", "protocol", "cipher"} \cup ClientCertificate
Connections == Plain \cup Dns \cup Tls

FirstStage == IF conn \in Dns THEN "exchange" ELSE "connect"
StageAfter == [connect |-> IF conn \in Tls THEN "handshake" ELSE "exchange",
               handshake |-> "exchange"]

RejectedAt == IF conn \in {"refused", "timeout"} THEN "connect"
              ELSE IF conn \in {"untrusted", "protocol", "cipher"} THEN "handshake"
              ELSE "exchange"

RejectionsOf ==
  CASE conn \in {"timeout", "silence"} -> {"timeout"}
    [] conn = "untrusted" -> {"SSLCertVerificationError"}
    [] conn \in {"protocol", "cipher"} -> {"SSLError"}
    [] conn \in ClientCertificate -> {"SSLError", "reset"}
    [] OTHER -> {conn}

\* A dead peer refuses or is not there, and ends what it was in.
DeathAt == [connect |-> {"refused", "unreachable"},
            handshake |-> {"reset", "SSLEOFError"},
            exchange |-> IF conn \in Dns THEN {"timeout"} ELSE {"reset", "no data"}]

-----------------------------------------------------------------------------
\* Errors that the attempt catches and records; with others the probe dies.
IsRecorded(error) ==
  \/ conn \in Tls \/ error = "no data"
  \/ conn \in Dns /\ (error = "nxdomain" \/ conn = "silence")
  \/ turn = 2 /\ conn \in Plain /\ (conn = "reset" => connAt = "exchange")

IsRejected == rejects /\ turn = 2 /\ connAt = RejectedAt

Records(error, isRejection) ==
  /\ tries' = [tries EXCEPT ![turn] =
                    [error |-> error, stage |-> connAt, isRejection |-> isRejection]]
  /\ IF error \notin {"none", "no data"} /\ ~IsRecorded(error)
     THEN connAt' = "failed" /\ turn' = turn
     ELSE IF turn = 3 THEN connAt' = "done" /\ turn' = turn
     ELSE connAt' = FirstStage /\ turn' = turn + 1

Passes ==
  /\ peerUp /\ ~IsRejected
  /\ connAt \in {"connect", "handshake", "exchange"}
  /\ IF connAt = "exchange" \/ (turn = 2 /\ connAt = "connect" /\ conn \in {"refused", "timeout"})
     THEN Records("none", FALSE)
     ELSE connAt' = StageAfter[connAt] /\ UNCHANGED <<turn, tries>>
  /\ UNCHANGED <<conn, rejects, peerUp, accidents>>

IsTurnedAway ==
  /\ peerUp /\ IsRejected
  /\ \E error \in RejectionsOf : Records(error, TRUE)
  /\ UNCHANGED <<conn, rejects, peerUp, accidents>>

FindsNoPeer ==
  /\ ~peerUp /\ connAt \in DOMAIN DeathAt
  /\ \E error \in DeathAt[connAt] : Records(error, FALSE)
  /\ UNCHANGED <<conn, rejects, peerUp, accidents>>

LosesPacket ==
  /\ connAt \in DOMAIN DeathAt /\ accidents < MaxAccidents
  /\ Records("timeout", FALSE)
  /\ accidents' = accidents + 1
  /\ UNCHANGED <<conn, rejects, peerUp>>

PeerDies ==
  /\ connAt \in DOMAIN DeathAt /\ peerUp /\ accidents < MaxAccidents
  /\ peerUp' = FALSE
  /\ accidents' = accidents + 1
  /\ UNCHANGED <<conn, connAt, turn, tries, rejects>>

-----------------------------------------------------------------------------
\* The assertions.  The probes of a handshake call everything before the answer
\* the handshake, and ask besides that no session was established.
Reached(n) == tries[n].error = "none" /\ tries[n].stage = "exchange"

Surfaces(error, stage) ==
  CASE conn = "timeout" -> error = "timeout"
    [] conn \in {"protocol", "cipher"} -> error = "SSLError" /\ stage = "handshake"
    [] conn = "untrusted" -> error = "SSLCertVerificationError"
    [] conn \in {"noCertificate", "wrongCa"} -> error = "SSLError"
    [] conn = "wrongEku" -> error = "SSLError" \/ (error = "reset" /\ stage = "exchange")
    [] conn = "silence" -> error = "timeout"
    [] OTHER -> error = conn

ConnectionSupports ==
  /\ connAt = "done"
  /\ Reached(1) /\ Reached(3)
  /\ Surfaces(tries[2].error, tries[2].stage)

ConnectionProbe == Passes \/ IsTurnedAway \/ FindsNoPeer

ConnectionNext == ConnectionProbe \/ LosesPacket \/ PeerDies

ConnectionInit(isOn) ==
  /\ IF isOn THEN conn \in Connections /\ connAt = FirstStage ELSE conn = "none" /\ connAt = "off"
  /\ turn = 1
  /\ tries = [n \in 1 .. 3 |-> [error |-> "none", stage |-> "none", isRejection |-> FALSE]]
  /\ rejects \in IF isOn THEN BOOLEAN ELSE {FALSE}
  /\ peerUp = TRUE /\ accidents = 0

ConnectionEnds == connAt \in {"done", "failed"}
=============================================================================
