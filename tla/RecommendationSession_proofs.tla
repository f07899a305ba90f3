-------------------- MODULE RecommendationSession_proofs --------------------
(***************************************************************************)
(* What the journal of a recommendation session guarantees for every       *)
(* number of agents, every set of contexts and every bound on revisions.   *)
(* The argument is about the call that holds the claim: what it checked    *)
(* still holds when it appends, because nobody else appends meanwhile.     *)
(***************************************************************************)
EXTENDS RecommendationSession, SequenceTheorems, TLAPS

Results == {NoResult} \cup UNION {ResultsOf(c, d) : c \in Contexts, d \in Contexts}

Entries == [revision : Nat, result : Results, context : Contexts]

\* Entry f may follow entry e as the result of revision n.
Follows(e, f, n) ==
  /\ ~ IsStart(f)
  /\ ~ IsClosing(e)
  /\ f.revision = n
  /\ Legal(e.context, f.result, f.context)

\* A journal is a chain of entries, of which only the last can be incomplete.
Linked(q) ==
  /\ q \in Seq(Entries \cup {Garbage})
  /\ \A i \in 1 .. Len(q) : q[i] = Garbage => i = Len(q)
  /\ q # <<>> /\ q[1] # Garbage => IsStart(q[1]) /\ q[1].revision = 0
  /\ \A i \in 2 .. Len(q) : q[i] # Garbage => Follows(q[i - 1], q[i], i - 1)

InCall == {"verify", "append", "replay"}

AgentsInv ==
  /\ exists \in BOOLEAN
  /\ ended \in BOOLEAN
  /\ claim \in SUBSET Agents
  /\ at \in [Agents -> {"idle", "retry"} \cup InCall]
  /\ event \in [Agents -> Entries \cup {NoEvent}]
  /\ \A a \in Agents : at[a] \in InCall => claim = {a}
  /\ \A a \in Agents : at[a] # "idle" =>
       event[a] \in Entries /\ (IsStart(event[a]) => event[a].revision = 0)

\* The file as a whole: a cut write leaves its last line incomplete.
FileInv ==
  /\ Linked(lines)
  /\ ~ exists => lines = <<>>
  /\ lines = <<>> => ended
  /\ ~ ended /\ ~ MayLoseNewline => Last(lines) = Garbage

\* What a call has checked, and what it has written.
CallInv ==
  \A a \in Agents :
    /\ at[a] = "append" =>
         \/ IsStart(event[a]) /\ lines = <<>>
         \/ Verifies(lines) /\ Follows(Last(lines), event[a], Len(lines))
    /\ at[a] = "replay" => lines # <<>> /\ Last(lines) \in {event[a], Garbage}

AllInv == AgentsInv /\ FileInv /\ CallInv

-----------------------------------------------------------------------------
(* Journals as sequences *)

\* What a prefix of a sequence holds.
LEMMA Prefix ==
  ASSUME NEW S, NEW q \in Seq(S), NEW n \in Nat, n <= Len(q)
  PROVE  /\ SubSeq(q, 1, n) \in Seq(S)
         /\ Len(SubSeq(q, 1, n)) = n
         /\ \A i \in 1 .. n : SubSeq(q, 1, n)[i] = q[i]
<1>1. \A i \in 1 .. n : q[i] \in S
  OBVIOUS
<1>2. /\ SubSeq(q, 1, n) \in Seq(S)
      /\ Len(SubSeq(q, 1, n)) = IF 1 <= n THEN n - 1 + 1 ELSE 0
      /\ \A i \in 1 .. n - 1 + 1 : SubSeq(q, 1, n)[i] = q[1 + i - 1]
  <2>1. 1 \in Int /\ n \in Int
    OBVIOUS
  <2> QED
    BY <1>1, <2>1, SubSeqProperties
<1>3. Len(SubSeq(q, 1, n)) = n
  BY <1>2
<1>4. \A i \in 1 .. n : SubSeq(q, 1, n)[i] = q[i]
  BY <1>2
<1> QED
  BY <1>2, <1>3, <1>4

\* What a sequence without its last element holds.
LEMMA FrontProperties ==
  ASSUME NEW S, NEW q \in Seq(S), q # <<>>
  PROVE  /\ Front(q) \in Seq(S)
         /\ Len(Front(q)) = Len(q) - 1
         /\ \A i \in 1 .. Len(q) - 1 : Front(q)[i] = q[i]
<1>1. Len(q) - 1 \in Nat /\ Len(q) - 1 <= Len(q)
  OBVIOUS
<1> QED
  BY <1>1, Prefix DEF Front

\* A journal with no incomplete line replays.
LEMMA LinkedVerifies ==
  ASSUME NEW q, Linked(q), q # <<>>, Garbage \notin ToSet(q)
  PROVE  Verifies(q)
<1>1. \A i \in 1 .. Len(q) : q[i] # Garbage
  BY DEF Linked, ToSet
<1>2. Len(q) >= 1
  BY DEF Linked
<1> QED
  BY <1>1, <1>2 DEF Linked, Verifies, Follows

\* A journal that replays has no incomplete line.
LEMMA VerifiedIsWhole ==
  ASSUME NEW q, Linked(q), Verifies(q)
  PROVE  /\ q # <<>>
         /\ \A i \in 1 .. Len(q) : q[i] # Garbage /\ q[i] \in Entries
         /\ Last(q) = q[Len(q)] /\ Len(q) \in 1 .. Len(q)
  BY DEF Linked, Verifies, ToSet, Last

\* The start of a session is a journal.
LEMMA StartIsLinked ==
  ASSUME NEW e \in Entries, IsStart(e), e.revision = 0
  PROVE  Linked(Append(<<>>, e))
  BY DEF Linked

\* A journal and an entry that may follow it are a journal.
LEMMA FollowedIsLinked ==
  ASSUME NEW q, Linked(q), Verifies(q), NEW e \in Entries, Follows(Last(q), e, Len(q))
  PROVE  Linked(Append(q, e))
<1> DEFINE r == Append(q, e)
<1>1. q \in Seq(Entries \cup {Garbage}) /\ Len(q) > 0
  BY VerifiedIsWhole DEF Linked
<1>2. /\ r \in Seq(Entries \cup {Garbage}) /\ Len(r) = Len(q) + 1
      /\ r[Len(q) + 1] = e
      /\ \A i \in 1 .. Len(q) : r[i] = q[i] /\ r[i] # Garbage
  BY <1>1, VerifiedIsWhole
<1>3. ASSUME NEW i \in 1 .. Len(r), r[i] = Garbage PROVE i = Len(r)
  BY <1>1, <1>2, <1>3
<1>4. r[1] # Garbage => IsStart(r[1]) /\ r[1].revision = 0
  BY <1>1, <1>2 DEF Linked
<1>5. ASSUME NEW i \in 2 .. Len(r), r[i] # Garbage PROVE Follows(r[i - 1], r[i], i - 1)
  <2>1. CASE i = Len(q) + 1
    BY <1>1, <1>2, <2>1, VerifiedIsWhole
  <2>2. CASE i # Len(q) + 1
    <3>1. i \in 2 .. Len(q) /\ r[i] = q[i] /\ r[i - 1] = q[i - 1]
      BY <1>1, <1>2, <2>2
    <3> QED
      BY <1>5, <3>1 DEF Linked
  <2> QED
    BY <2>1, <2>2
<1> QED
  BY <1>2, <1>3, <1>4, <1>5 DEF Linked

\* A journal without an incomplete line, and an incomplete line, are a journal.
LEMMA TornIsLinked ==
  ASSUME NEW q, Linked(q), \A i \in 1 .. Len(q) : q[i] # Garbage
  PROVE  Linked(Append(q, Garbage))
<1> DEFINE r == Append(q, Garbage)
<1>1. q \in Seq(Entries \cup {Garbage})
  BY DEF Linked
<1>2. /\ r \in Seq(Entries \cup {Garbage}) /\ Len(r) = Len(q) + 1
      /\ r[Len(q) + 1] = Garbage
      /\ \A i \in 1 .. Len(q) : r[i] = q[i]
  BY <1>1
<1>3. ASSUME NEW i \in 1 .. Len(r), r[i] = Garbage PROVE i = Len(r)
  BY <1>1, <1>2, <1>3
<1>4. r[1] # Garbage => IsStart(r[1]) /\ r[1].revision = 0
  <2>1. CASE q = <<>>
    BY <1>2, <2>1
  <2>2. CASE q # <<>>
    BY <1>1, <1>2, <2>2 DEF Linked
  <2> QED
    BY <2>1, <2>2
<1>5. ASSUME NEW i \in 2 .. Len(r), r[i] # Garbage PROVE Follows(r[i - 1], r[i], i - 1)
  <2>1. i \in 2 .. Len(q) /\ r[i] = q[i] /\ r[i - 1] = q[i - 1]
    BY <1>1, <1>2, <1>5
  <2> QED
    BY <1>5, <2>1 DEF Linked
<1> QED
  BY <1>2, <1>3, <1>4, <1>5 DEF Linked

\* So is the journal without its last line.
LEMMA FrontIsLinked ==
  ASSUME NEW q, Linked(q), q # <<>>
  PROVE  /\ Linked(Front(q))
         /\ Len(Front(q)) = Len(q) - 1
         /\ \A i \in 1 .. Len(Front(q)) : Front(q)[i] = q[i] /\ q[i] # Garbage
<1>1. q \in Seq(Entries \cup {Garbage}) /\ Len(q) > 0
  BY DEF Linked
<1>2. /\ Front(q) \in Seq(Entries \cup {Garbage}) /\ Len(Front(q)) = Len(q) - 1
      /\ \A i \in 1 .. Len(Front(q)) : Front(q)[i] = q[i]
  BY <1>1, FrontProperties
<1>3. \A i \in 1 .. Len(Front(q)) : q[i] # Garbage
  BY <1>1, <1>2 DEF Linked
<1> QED
  BY <1>1, <1>2, <1>3 DEF Linked

-----------------------------------------------------------------------------
(* The invariant *)

\* Nothing has happened at the start.
LEMMA AllInitially == Init => AllInv
<1> SUFFICES ASSUME Init PROVE AllInv
  OBVIOUS
<1>1. AgentsInv
  BY DEF Init, AgentsInv, InCall
<1>2. FileInv
  BY DEF Init, FileInv, Linked
<1>3. CallInv
  BY DEF Init, CallInv
<1> QED
  BY <1>1, <1>2, <1>3 DEF AllInv

\* An agent is shown entries, and asks for an entry.
LEMMA AskedIsEntry ==
  ASSUME AllInv, NEW n \in Shown, NEW d \in Contexts,
         NEW r \in ResultsOf(lines[n].context, d)
  PROVE  Event(n, r, d) \in Entries /\ ~ IsStart(Event(n, r, d))
<1>1. n \in Nat /\ lines[n] \in Entries
  BY DEF AllInv, FileInv, Linked, Shown
<1>2. lines[n].context \in Contexts
  BY <1>1 DEF Entries
<1>3. r \in Results
  BY <1>2 DEF Results
<1>4. r # NoResult
  BY <1>2, StartAssumption
<1> QED
  BY <1>1, <1>3, <1>4 DEF Entries, Event, IsStart

\* So is the start of a session.
LEMMA StartIsEntry ==
  ASSUME NEW c \in Contexts
  PROVE  /\ Event(0, NoResult, c) \in Entries
         /\ Event(0, NoResult, c).revision = 0
  BY DEF Entries, Event, Results

\* The claim excludes the other calls.
LEMMA AloneInCall ==
  ASSUME AllInv, NEW a \in Agents, at[a] \in InCall, NEW b \in Agents, at[b] \in InCall
  PROVE  a = b
  BY DEF AllInv, AgentsInv

\* Every step keeps agents, their calls and the claim as they must be.
LEMMA AgentsStep ==
  ASSUME AllInv, NEW a \in Agents, AgentStep(a)
  PROVE  AgentsInv'
<1> USE DEF AgentsInv, InCall, Goto, GiveUp, journal
<1>0. AgentsInv
  BY DEF AllInv
<1>1. ASSUME NEW e \in Entries, IsStart(e) => e.revision = 0, Call(a, e)
      PROVE  AgentsInv'
  BY <1>0, <1>1 DEF Call
<1>2. CASE CallStart(a)
  BY <1>1, <1>2, StartIsEntry DEF CallStart
<1>3. CASE CallRecord(a)
  BY <1>1, <1>3, AskedIsEntry DEF CallRecord
<1>4. CASE Retry(a)
  BY <1>0, <1>4 DEF Retry
<1>5. CASE Forget(a)
  BY <1>0, <1>5 DEF Forget
<1>6. CASE VerifyStart(a) \/ VerifyRecord(a)
  BY <1>0, <1>6 DEF VerifyStart, VerifyRecord
<1>7. CASE AlreadyRecorded(a) \/ Replay(a)
  BY <1>0, <1>7 DEF AlreadyRecorded, Replay, Answer
<1>8. CASE AppendEvent(a)
  BY <1>0, <1>8 DEF AppendEvent
<1>9. CASE Refuse(a)
  BY <1>0, <1>9 DEF Refuse
<1>10. CASE Crash(a) \/ Tear(a)
  BY <1>0, <1>10 DEF Crash, Tear
<1> QED
  BY <1>2, <1>3, <1>4, <1>5, <1>6, <1>7, <1>8, <1>9, <1>10 DEF AgentStep

\* The last element of an extended sequence.
LEMMA LastOfAppend ==
  ASSUME NEW S, NEW q \in Seq(S), NEW e
  PROVE  Append(q, e) # <<>> /\ Last(Append(q, e)) = e
<1>1. Len(Append(q, e)) = Len(q) + 1 /\ Append(q, e)[Len(q) + 1] = e
  OBVIOUS
<1> QED
  BY <1>1 DEF Last

\* A call about to append finds no incomplete line, and its event fits.
LEMMA ReadyToAppend ==
  ASSUME AllInv, NEW a \in Agents, at[a] = "append"
  PROVE  /\ \A i \in 1 .. Len(lines) : lines[i] # Garbage
         /\ Linked(Append(lines, event[a]))
<1>1. event[a] \in Entries /\ (IsStart(event[a]) => event[a].revision = 0)
  BY DEF AllInv, AgentsInv
<1>2. Linked(lines)
  BY DEF AllInv, FileInv
<1>3. CASE IsStart(event[a]) /\ lines = <<>>
  BY <1>1, <1>3, StartIsLinked
<1>4. CASE Verifies(lines) /\ Follows(Last(lines), event[a], Len(lines))
  BY <1>1, <1>2, <1>4, VerifiedIsWhole, FollowedIsLinked
<1> QED
  BY <1>3, <1>4 DEF AllInv, CallInv

\* What a write of its event, or of a part of it, leaves in the file.
LEMMA WrittenIsLinked ==
  ASSUME AllInv, NEW a \in Agents, at[a] = "append", NEW line \in {event[a], Garbage}
  PROVE  /\ Linked(Written(line))
         /\ Written(line) # <<>>
         /\ Last(Written(line)) = IF ended THEN line ELSE Garbage
<1>1. Linked(lines) /\ lines \in Seq(Entries \cup {Garbage})
  BY DEF AllInv, FileInv, Linked
<1>2. CASE ended
  <2>1. Written(line) = Append(lines, line)
    BY <1>2 DEF Written
  <2>2. Linked(Append(lines, line))
    BY <1>1, ReadyToAppend, TornIsLinked
  <2> QED
    BY <1>1, <1>2, <2>1, <2>2, LastOfAppend
<1>3. CASE ~ ended
  <2>1. Written(line) = Append(Front(lines), Garbage)
    BY <1>3 DEF Written
  <2>2. lines # <<>>
    BY <1>3 DEF AllInv, FileInv
  <2>3. /\ Linked(Front(lines)) /\ Front(lines) \in Seq(Entries \cup {Garbage})
        /\ \A i \in 1 .. Len(Front(lines)) : Front(lines)[i] # Garbage
    BY <1>1, <2>2, FrontIsLinked DEF Linked
  <2> QED
    BY <1>3, <2>1, <2>3, TornIsLinked, LastOfAppend
<1> QED
  BY <1>2, <1>3

\* A file that is left alone stays what it is.
LEMMA FileKept ==
  ASSUME FileInv, UNCHANGED journal
  PROVE  FileInv'
  BY DEF FileInv, journal

\* Every step leaves a file that is a chain of entries.
LEMMA FileStep ==
  ASSUME AllInv, NEW a \in Agents, AgentStep(a)
  PROVE  FileInv'
<1>1. CASE UNCHANGED journal
  BY <1>1, FileKept DEF AllInv
<1>2. CASE AppendEvent(a)
  <2>1. at[a] = "append" /\ lines' = Written(event[a]) /\ exists' /\ ended'
    BY <1>2 DEF AppendEvent, Goto
  <2> QED
    BY <2>1, WrittenIsLinked DEF FileInv
<1>3. CASE Tear(a)
  <2>1. at[a] = "append" /\ exists'
    BY <1>3 DEF Tear
  <2>2. CASE lines' = <<>> /\ lines = <<>> /\ ended' = TRUE
    BY <2>1, <2>2 DEF FileInv, AllInv
  <2>3. CASE lines' = Written(Garbage) /\ ended' = FALSE
    BY <2>1, <2>3, WrittenIsLinked DEF FileInv
  <2>4. CASE MayLoseNewline /\ lines' = Written(event[a]) /\ ended' = FALSE
    BY <2>1, <2>4, WrittenIsLinked DEF FileInv
  <2> QED
    BY <1>3, <2>2, <2>3, <2>4 DEF Tear
<1>4. CASE CallStart(a) \/ CallRecord(a)
  BY <1>1, <1>4 DEF CallStart, CallRecord, Call
<1>5. CASE Retry(a) \/ Forget(a) \/ Refuse(a) \/ Crash(a)
  BY <1>1, <1>5 DEF Retry, Forget, Refuse, Crash
<1>6. CASE VerifyStart(a) \/ VerifyRecord(a) \/ AlreadyRecorded(a) \/ Replay(a)
  BY <1>1, <1>6 DEF VerifyStart, VerifyRecord, AlreadyRecorded, Replay, Answer
<1> QED
  BY <1>2, <1>3, <1>4, <1>5, <1>6 DEF AgentStep

\* While a call is between its check and its answer, no other call writes.
LEMMA CallStepInv ==
  ASSUME AllInv, NEW a \in Agents, AgentStep(a)
  PROVE  CallInv'
<1> SUFFICES ASSUME NEW b \in Agents
             PROVE  /\ at'[b] = "append" =>
                         \/ IsStart(event'[b]) /\ lines' = <<>>
                         \/ /\ Verifies(lines')
                            /\ Follows(Last(lines'), event'[b], Len(lines'))
                    /\ at'[b] = "replay" =>
                         lines' # <<>> /\ Last(lines') \in {event'[b], Garbage}
  BY DEF CallInv
<1> USE DEF Goto, GiveUp, journal
<1>0. AgentsInv /\ FileInv /\ CallInv /\ DOMAIN at = Agents /\ DOMAIN event = Agents
  BY DEF AllInv, AgentsInv
<1>1. CASE CallStart(a) \/ CallRecord(a)
  <2>1. PICK e : Call(a, e)
    BY <1>1 DEF CallStart, CallRecord
  <2>2. at[b] \notin InCall
    BY <1>0, <2>1 DEF Call, AgentsInv
  <2> QED
    BY <1>0, <2>1, <2>2 DEF Call, InCall
<1>2. CASE Retry(a)
  BY <1>0, <1>2 DEF Retry, CallInv
<1>3. CASE Forget(a) \/ Refuse(a) \/ Crash(a)
  BY <1>0, <1>3 DEF Forget, Refuse, Crash, CallInv
<1>4. CASE AlreadyRecorded(a) \/ Replay(a)
  BY <1>0, <1>4 DEF AlreadyRecorded, Replay, Answer, CallInv
<1>5. CASE VerifyStart(a)
  BY <1>0, <1>5 DEF VerifyStart, CallInv, FileInv
<1>6. CASE VerifyRecord(a)
  BY <1>0, <1>6 DEF VerifyRecord, CallInv, Follows
<1>7. CASE AppendEvent(a)
  <2>1. at[a] \in InCall
    BY <1>7 DEF AppendEvent, InCall
  <2>2. CASE b = a
    BY <1>0, <1>7, <2>2, WrittenIsLinked DEF AppendEvent
  <2>3. CASE b # a
    BY <1>0, <1>7, <2>1, <2>3, AloneInCall DEF AppendEvent, InCall
  <2> QED
    BY <2>2, <2>3
<1>8. CASE Tear(a)
  <2>1. at[a] \in InCall
    BY <1>8 DEF Tear, InCall
  <2> QED
    BY <1>0, <1>8, <2>1, AloneInCall DEF Tear, InCall
<1> QED
  BY <1>1, <1>2, <1>3, <1>4, <1>5, <1>6, <1>7, <1>8 DEF AgentStep

\* The invariant holds, whatever the agents do.
THEOREM SessionInvariant == Spec => []AllInv
<1>1. AllInv /\ [Next]_vars => AllInv'
  <2>1. ASSUME AllInv, NEW a \in Agents, AgentStep(a) PROVE AllInv'
    BY <2>1, AgentsStep, FileStep, CallStepInv DEF AllInv
  <2>2. ASSUME AllInv, UNCHANGED vars PROVE AllInv'
    BY <2>2 DEF vars, journal, agents, AllInv, AgentsInv, FileInv, CallInv
  <2> QED
    BY <2>1, <2>2 DEF Next
<1> QED
  BY <1>1, AllInitially, PTL DEF Spec

\* WholeJournalVerifies: whatever was checked when an event was appended is what
\* replay asks of the journal, crashes and cut writes included.
THEOREM WholeJournalAlwaysVerifies == Spec => []WholeJournalVerifies
<1>1. AllInv => WholeJournalVerifies
  BY LinkedVerifies DEF AllInv, FileInv, WholeJournalVerifies
<1> QED
  BY <1>1, SessionInvariant, PTL

-----------------------------------------------------------------------------
(* Approval *)

\* A human is asked when the benefit was measured, the problem is active and
\* nothing is missing, and never otherwise.
LEMMA AskedAtTheEnd ==
  ASSUME NEW c \in Contexts, NextAction(c)[1] = "human_decision"
  PROVE  c.evidence /\ c.missing = {} /\ c.basis = "measured" /\ c.better
<1>1. /\ c.evidence \in BOOLEAN /\ c.better \in BOOLEAN /\ c.basis \in Bases
  BY SessionAssumption DEF ContextType
<1>2. BenefitState(c) \in {"EXPERIMENT_REQUIRED", "BENEFIT_NOT_DEMONSTRATED",
                           "ESTIMATED_BENEFIT", "READY_FOR_HUMAN_REVIEW"}
  BY <1>1 DEF BenefitState, Bases
<1>3. State(c) \in {"NO_PROBLEM_EVIDENCE", "INSUFFICIENT_CONTEXT", BenefitState(c)}
  BY <1>1 DEF State
<1>4. State(c) = "READY_FOR_HUMAN_REVIEW"
  BY <1>2, <1>3 DEF NextAction
<1>5. c.evidence /\ c.missing = {} /\ BenefitState(c) = "READY_FOR_HUMAN_REVIEW"
  BY <1>1, <1>2, <1>4 DEF State
<1>6. c.basis = "measured" /\ c.better
  BY <1>1, <1>5 DEF BenefitState, Bases
<1> QED
  BY <1>5, <1>6

\* An entry that approves is the decision of a human.
LEMMA ApprovalIsDecision ==
  ASSUME NEW e \in Entries, ~ IsStart(e), Status(e) = "approved"
  PROVE  e.result.kind = "human_decision"
  BY DEF Status

\* ApprovalIsGated: what a human approves is measured, complete and exactly the
\* context that was shown.
THEOREM ApprovalIsAlwaysGated == Spec => []ApprovalIsGated
<1>1. ASSUME AllInv PROVE ApprovalIsGated
  <2> SUFFICES ASSUME NEW i \in DOMAIN lines \ {1}, lines[i] # Garbage,
                      Status(lines[i]) = "approved"
               PROVE  /\ lines[i].context.evidence
                      /\ lines[i].context.missing = {}
                      /\ lines[i].context.basis = "measured"
                      /\ lines[i].context.better
                      /\ lines[i - 1].context = lines[i].context
    BY DEF ApprovalIsGated
  <2>1. lines \in Seq(Entries \cup {Garbage}) /\ i \in 2 .. Len(lines) /\ lines[i] \in Entries
    BY <1>1 DEF AllInv, FileInv, Linked
  <2>2. Follows(lines[i - 1], lines[i], i - 1)
    BY <1>1, <2>1 DEF AllInv, FileInv, Linked
  <2>3. lines[i].result.kind = "human_decision"
    BY <2>1, <2>2, ApprovalIsDecision DEF Follows
  <2>4. /\ NextAction(lines[i - 1].context)[1] = "human_decision"
        /\ lines[i - 1].context = lines[i].context
    BY <2>2, <2>3 DEF Follows, Legal
  <2>5. lines[i].context \in Contexts
    BY <2>1 DEF Entries
  <2> QED
    BY <2>4, <2>5, AskedAtTheEnd
<1> QED
  BY <1>1, SessionInvariant, PTL

-----------------------------------------------------------------------------
(* The promise of a log: SessionLog *)

\* What was recorded is the file without an incomplete line.
LEMMA RecordedOfWhole ==
  ASSUME Linked(lines), \A i \in 1 .. Len(lines) : lines[i] # Garbage
  PROVE  Recorded = lines
  BY DEF Linked, Recorded, Last

\* An incomplete line records nothing.
LEMMA RecordedOfTorn ==
  ASSUME NEW q \in Seq(Entries \cup {Garbage}), lines' = Append(q, Garbage)
  PROVE  Recorded' = q
<1>1. lines' # <<>> /\ Last(lines') = Garbage
  BY LastOfAppend
<1>2. /\ Front(lines') \in Seq(Entries \cup {Garbage}) /\ Len(Front(lines')) = Len(q)
      /\ \A i \in 1 .. Len(q) : Front(lines')[i] = q[i]
  <2> DEFINE r == Append(q, Garbage)
  <2>1. r \in Seq(Entries \cup {Garbage}) /\ Len(r) = Len(q) + 1 /\ r # <<>>
    OBVIOUS
  <2>2. /\ Front(r) \in Seq(Entries \cup {Garbage}) /\ Len(Front(r)) = Len(r) - 1
        /\ \A i \in 1 .. Len(r) - 1 : Front(r)[i] = r[i]
    <3> HIDE DEF r
    <3> QED
      BY <2>1, FrontProperties
  <2>3. \A i \in 1 .. Len(q) : r[i] = q[i]
    OBVIOUS
  <2>4. lines' = r /\ Len(q) \in Nat
    OBVIOUS
  <2> HIDE DEF r
  <2> QED
    BY <2>1, <2>2, <2>3, <2>4
<1>3. Front(lines') = q
  BY <1>2
<1> QED
  BY <1>1, <1>3 DEF Recorded

\* A whole line is recorded.
LEMMA RecordedOfAppend ==
  ASSUME NEW q \in Seq(Entries \cup {Garbage}), NEW e, e # Garbage, lines' = Append(q, e)
  PROVE  Recorded' = Append(q, e)
  BY LastOfAppend DEF Recorded

\* A write of an event records it as the next revision of an open session; a
\* cut write records nothing.  (A cut between an event and its newline is
\* excluded: it would take back what may have been acknowledged.)
LEMMA WriteRecords ==
  ASSUME AllInv, ~ MayLoseNewline, NEW a \in Agents, at[a] = "append",
         NEW line \in {event[a], Garbage}, lines' = Written(line), UNCHANGED acked
  PROVE  Log!Record \/ UNCHANGED <<Recorded, acked>>
<1>1. Linked(lines) /\ lines \in Seq(Entries \cup {Garbage})
  BY DEF AllInv, FileInv, Linked
<1>2. Recorded = lines /\ \A i \in 1 .. Len(lines) : lines[i] # Garbage
  BY <1>1, ReadyToAppend, RecordedOfWhole
<1>3. ended
  <2>1. lines # <<>> => Last(lines) # Garbage
    BY <1>1, <1>2 DEF Last
  <2> QED
    BY <2>1 DEF AllInv, FileInv
<1>4. lines' = Append(lines, line)
  BY <1>3 DEF Written
<1>5. CASE line = Garbage
  BY <1>1, <1>2, <1>4, <1>5, RecordedOfTorn
<1>6. CASE line # Garbage
  <2>1. Recorded' = Append(lines, line)
    BY <1>1, <1>4, <1>6, RecordedOfAppend
  <2>2. Len(Append(lines, line)) = Len(lines) + 1
    BY <1>1
  <2>3. SubSeq(Append(lines, line), 1, Len(lines)) = lines
    <3>1. lines \in Seq(Entries \cup {Garbage, line}) /\ Len(lines) \in Nat
      BY <1>1
    <3>2. Append(lines, line) \in Seq(Entries \cup {Garbage, line})
      BY <3>1
    <3>3. /\ SubSeq(Append(lines, line), 1, Len(lines)) \in Seq(Entries \cup {Garbage, line})
          /\ Len(SubSeq(Append(lines, line), 1, Len(lines))) = Len(lines)
          /\ \A i \in 1 .. Len(lines) :
               SubSeq(Append(lines, line), 1, Len(lines))[i] = Append(lines, line)[i]
      BY <2>2, <3>1, <3>2, Prefix
    <3>4. \A i \in 1 .. Len(lines) : Append(lines, line)[i] = lines[i]
      BY <3>1
    <3> QED
      BY <3>1, <3>3, <3>4
  <2>4. ~ (lines # <<>> /\ IsClosing(lines[Len(lines)]))
    <3>1. CASE lines = <<>>
      BY <3>1
    <3>2. CASE Verifies(lines) /\ Follows(Last(lines), event[a], Len(lines))
      BY <3>2 DEF Follows, Last
    <3> QED
      BY <3>1, <3>2 DEF AllInv, CallInv
  <2> QED
    BY <1>2, <2>1, <2>2, <2>3, <2>4 DEF Log!Record, Log!Closed
<1> QED
  BY <1>5, <1>6

\* An agent is told of a revision that is recorded.
LEMMA AnswerAcknowledges ==
  ASSUME AllInv, NEW a \in Agents, AlreadyRecorded(a) \/ Replay(a)
  PROVE  Log!Acknowledge
<1>1. Linked(lines) /\ Verifies(lines)
  BY DEF AllInv, FileInv, AlreadyRecorded, Replay
<1>2. /\ Recorded = lines /\ lines # <<>>
      /\ \A i \in 1 .. Len(lines) : lines[i] # Garbage
      /\ Last(lines) = lines[Len(lines)] /\ Len(lines) \in 1 .. Len(lines)
  BY <1>1, VerifiedIsWhole, RecordedOfWhole
<1>3. Len(lines) \in Nat /\ DOMAIN lines = 1 .. Len(lines)
  BY <1>1 DEF Linked
<1>4. ASSUME NEW i \in 1 .. Len(lines) PROVE lines[i].revision = i - 1
  <2>1. CASE i = 1
    BY <1>1, <1>2, <2>1 DEF Linked
  <2>2. CASE i # 1
    <3>1. i \in 2 .. Len(lines)
      BY <1>3, <2>2
    <3> QED
      BY <1>1, <1>2, <3>1 DEF Linked, Follows
  <2> QED
    BY <2>1, <2>2
<1>5. event[a] \in Entries /\ (IsStart(event[a]) => event[a].revision = 0)
  BY DEF AlreadyRecorded, Replay, AllInv, AgentsInv, InCall
<1>6. \E n \in DOMAIN lines : lines[n] = event[a]
  <2>1. CASE AlreadyRecorded(a)
    BY <1>2, <1>3, <2>1 DEF AlreadyRecorded
  <2>2. CASE Replay(a)
    <3>1. Last(lines) \in {event[a], Garbage}
      BY <2>2 DEF Replay, AllInv, CallInv
    <3> QED
      BY <1>2, <1>3, <3>1
  <2> QED
    BY <2>1, <2>2
<1>7. PICK n \in DOMAIN lines : lines[n] = event[a]
  BY <1>6
<1>8. event[a].revision + 1 = n
  BY <1>3, <1>4, <1>7
<1>9. acked' = acked \cup {event[a]} /\ UNCHANGED lines
  BY DEF AlreadyRecorded, Replay, Answer, journal
<1>10. {e.revision + 1 : e \in acked'} = {e.revision + 1 : e \in acked} \cup {n}
  BY <1>8, <1>9
<1>11. Recorded' = Recorded
  BY <1>9 DEF Recorded
<1> QED
  BY <1>2, <1>7, <1>10, <1>11 DEF Log!Acknowledge

\* ImplementsLog: the session is the log it promises to its callers, when a
\* write is never cut between an event and its newline.
THEOREM SessionImplementsLog ==
  ASSUME ~ MayLoseNewline
  PROVE  Spec => ImplementsLog
<1>1. Init => Log!LogInit
  BY DEF Init, Log!LogInit, Recorded
<1>2. ASSUME AllInv, [Next]_vars
      PROVE  \/ Log!Record \/ Log!Acknowledge
             \/ UNCHANGED <<Recorded, {e.revision + 1 : e \in acked}>>
  <2>1. ASSUME UNCHANGED <<lines, acked>>
        PROVE  UNCHANGED <<Recorded, {e.revision + 1 : e \in acked}>>
    BY <2>1 DEF Recorded
  <2>2. CASE UNCHANGED vars
    BY <2>1, <2>2 DEF vars, journal
  <2>3. ASSUME NEW a \in Agents, AgentStep(a)
        PROVE  \/ Log!Record \/ Log!Acknowledge
               \/ UNCHANGED <<Recorded, {e.revision + 1 : e \in acked}>>
    <3>1. CASE AlreadyRecorded(a) \/ Replay(a)
      BY <1>2, <3>1, AnswerAcknowledges
    <3>2. CASE AppendEvent(a)
      BY <1>2, <3>2, WriteRecords DEF AppendEvent, Goto
    <3>3. CASE Tear(a)
      <4>1. CASE lines' = <<>> /\ lines = <<>>
        BY <2>1, <3>3, <4>1 DEF Tear
      <4>2. CASE lines' = Written(Garbage)
        BY <1>2, <3>3, <4>2, WriteRecords DEF Tear
      <4> QED
        BY <3>3, <4>1, <4>2 DEF Tear
    <3>4. CASE CallStart(a) \/ CallRecord(a)
      BY <2>1, <3>4 DEF CallStart, CallRecord, Call, journal
    <3>5. CASE Retry(a) \/ Forget(a) \/ VerifyStart(a) \/ VerifyRecord(a)
      BY <2>1, <3>5 DEF Retry, Forget, VerifyStart, VerifyRecord, journal
    <3>6. CASE Refuse(a) \/ Crash(a)
      BY <2>1, <3>6 DEF Refuse, Crash, journal
    <3> QED
      BY <2>3, <3>1, <3>2, <3>3, <3>4, <3>5, <3>6 DEF AgentStep
  <2> QED
    BY <1>2, <2>2, <2>3 DEF Next
<1> QED
  BY <1>1, <1>2, SessionInvariant, PTL DEF Spec, ImplementsLog, Log!LogSpec
=============================================================================
