----------------------------- MODULE MessagingLabs -----------------------------
(***************************************************************************)
(* The laboratories about messages: probes that walk a consumer group of a *)
(* Redis stream through an order of effects and acknowledgements and       *)
(* compare what every call returned with what it should.  A probe may be   *)
(* killed between any two calls and run again on what it left.  Redis,     *)
(* which is not part of the repository, is modelled as far as the probes   *)
(* use it.                                                                 *)
(***************************************************************************)
EXTENDS Integers, Sequences, FiniteSets, Functions

CONSTANTS MaxRestarts   \* how often a probe is killed

VARIABLES
  probe,      \* the probe that runs
  atStep, agreed, restarts,
  streams     \* what Redis keeps for every stream and its effect counter

msgVars == <<probe, atStep, agreed, restarts, streams>>

Fresh == [entries |-> <<>>, next |-> 1, pending |-> [e \in {} |-> 0],
          effects |-> 0, markers |-> {}, dead |-> <<>>]

\* A step is [stream, op, arg, expect]: what a call returns that is not what its
\* assertion expects makes the probe inconclusive.
Step(stream, op, arg, expect) == [stream |-> stream, op |-> op, arg |-> arg, expect |-> expect]

\* Mutant: the mark that an event's effect was applied is never deleted.
KeepMarks(old, withMark) == [Fresh EXCEPT !.markers = old.markers]

\* What a phase starts with: its stream and its group are new, its counter and,
\* if the phase uses it, its mark are deleted.
CreateStream(old, withMark) ==
  [Fresh EXCEPT !.markers = IF withMark THEN {} ELSE old.markers]

Pending(s) == DOMAIN s.pending

\* The pending entry that is reported first, and how often it was delivered.
FirstDelivered(s) ==
  IF Pending(s) = {} THEN 0
  ELSE s.pending[CHOOSE e \in Pending(s) : \A f \in Pending(s) : e <= f]

\* New entries are read up to count at a time and become pending.
Unread(s, count) == s.next .. (IF s.next + count - 1 < Len(s.entries) THEN s.next + count - 1
                                                                      ELSE Len(s.entries))

\* The state and the result of a call.
Called(s, op, arg) ==
  CASE op = "create" -> [state |-> CreateStream(s, arg), result |-> "ok"]
    [] op = "publish" -> [state |-> [s EXCEPT !.entries = Append(@, arg)],
                          result |-> Len(s.entries) + 1]
    [] op = "read" ->
         LET new == Unread(s, arg)
         IN [state |-> [s EXCEPT !.next = @ + Cardinality(new),
                                 !.pending = [e \in DOMAIN @ \cup new |->
                                                IF e \in new THEN 1 ELSE s.pending[e]]],
             result |-> new]
    [] op = "claim" ->
         [state |-> [s EXCEPT !.pending = [e \in DOMAIN @ |-> IF e = arg THEN @[e] + 1 ELSE @[e]]],
          result |-> arg \in Pending(s)]
    [] op = "ack" -> [state |-> [s EXCEPT !.pending = Restrict(@, DOMAIN @ \ arg)],
                      result |-> Cardinality(Pending(s) \cap arg)]
    [] op = "pending" -> [state |-> s, result |-> <<Cardinality(Pending(s)), FirstDelivered(s)>>]
    [] op = "apply" -> [state |-> [s EXCEPT !.effects = @ + 1], result |-> s.effects + 1]
    [] op = "applyOnce" ->
         [state |-> [s EXCEPT !.markers = @ \cup {arg},
                              !.effects = IF arg \in s.markers THEN @ ELSE @ + 1],
          result |-> arg \notin s.markers]
    [] op = "process" ->
         IF s.entries[arg] = "poison" THEN [state |-> s, result |-> "unsupported"]
         ELSE [state |-> [s EXCEPT !.effects = @ + 1], result |-> s.effects + 1]
    [] op = "effects" -> [state |-> s, result |-> s.effects]
    [] op = "entries" -> [state |-> s, result |-> Len(s.entries)]
    [] op = "bury" -> [state |-> [s EXCEPT !.dead = Append(@, [entry |-> arg, times |-> FirstDelivered(s)])],
                       result |-> Len(s.dead) + 1]
    [] op = "graves" -> [state |-> s, result |-> s.dead]

-----------------------------------------------------------------------------
\* The probes.  Every phase creates its stream, publishes and reads.
Delivered(stream, count) ==
  [i \in 1 .. count |-> Step(stream, "publish", "event", i)]
  \o <<Step(stream, "read", count, 1 .. count)>>

\* Redelivery of an unacknowledged entry to an idempotent handler.
RedeliveredOnce ==
  <<Step("recovery", "create", TRUE, "ok")>> \o Delivered("recovery", 1)
  \o <<Step("recovery", "applyOnce", "event", TRUE),
       Step("recovery", "pending", 0, <<1, 1>>),
       Step("recovery", "claim", 1, TRUE),
       Step("recovery", "pending", 0, <<1, 2>>),
       Step("recovery", "applyOnce", "event", FALSE),
       Step("recovery", "effects", 0, 1),
       Step("recovery", "ack", {1}, 1),
       Step("recovery", "pending", 0, <<0, 0>>)>>

AppliedThenAcknowledged(op, isMarked, result) ==
  <<Step("baseline", "create", isMarked, "ok")>> \o Delivered("baseline", 1)
  \o <<Step("baseline", op, IF op = "process" THEN 1 ELSE "event", result),
       Step("baseline", "ack", {1}, 1),
       Step("baseline", "pending", 0, <<0, 0>>)>>

AckBeforeDurableEffect ==
  AppliedThenAcknowledged("applyOnce", TRUE, TRUE)
  \o <<Step("baseline", "effects", 0, 1)>>
  \o <<Step("intervention", "create", TRUE, "ok")>> \o Delivered("intervention", 1)
  \o <<Step("intervention", "pending", 0, <<1, 1>>),
       Step("intervention", "ack", {1}, 1),
       Step("intervention", "pending", 0, <<0, 0>>),
       Step("intervention", "effects", 0, 0),
       Step("intervention", "claim", 1, FALSE),
       Step("intervention", "read", 1, {}),
       Step("intervention", "entries", 0, 1)>>
  \o RedeliveredOnce

DuplicateDelivery ==
  AppliedThenAcknowledged("apply", FALSE, 1)
  \o <<Step("intervention", "create", FALSE, "ok")>> \o Delivered("intervention", 1)
  \o <<Step("intervention", "apply", "event", 1),
       Step("intervention", "pending", 0, <<1, 1>>),
       Step("intervention", "claim", 1, TRUE),
       Step("intervention", "pending", 0, <<1, 2>>),
       Step("intervention", "apply", "event", 2),
       Step("intervention", "ack", {1}, 1),
       Step("intervention", "pending", 0, <<0, 0>>)>>
  \o RedeliveredOnce

PublishedTwice(stream, isMarked, first, second) ==
  <<Step(stream, "create", isMarked, "ok")>> \o Delivered(stream, 2)
  \o <<Step(stream, "pending", 0, <<2, 1>>), first, second,
       Step(stream, "effects", 0, IF isMarked THEN 1 ELSE 2),
       Step(stream, "ack", {1, 2}, 2),
       Step(stream, "pending", 0, <<0, 0>>)>>

DuplicatePublication ==
  <<Step("baseline", "create", FALSE, "ok")>> \o Delivered("baseline", 1)
  \o <<Step("baseline", "pending", 0, <<1, 1>>),
       Step("baseline", "apply", "event", 1),
       Step("baseline", "ack", {1}, 1),
       Step("baseline", "pending", 0, <<0, 0>>)>>
  \o PublishedTwice("intervention", FALSE, Step("intervention", "apply", "event", 1),
                    Step("intervention", "apply", "event", 2))
  \o PublishedTwice("recovery", TRUE, Step("recovery", "applyOnce", "event", TRUE),
                    Step("recovery", "applyOnce", "event", FALSE))

\* A poisoned entry fails three times, is put aside and acknowledged; the next
\* message of the same stream is processed.
Retried(times) ==
  <<Step("active", "process", 1, "unsupported"), Step("active", "pending", 0, <<1, times>>)>>

PoisonMessage ==
  AppliedThenAcknowledged("process", FALSE, 1)
  \o <<Step("active", "create", FALSE, "ok")>>
  \o <<Step("active", "publish", "poison", 1), Step("active", "read", 1, {1})>>
  \o Retried(1) \o <<Step("active", "claim", 1, TRUE)>>
  \o Retried(2) \o <<Step("active", "claim", 1, TRUE)>> \o Retried(3)
  \o <<Step("active", "effects", 0, 0),
       Step("active", "bury", 1, 1),
       Step("active", "ack", {1}, 1),
       Step("active", "pending", 0, <<0, 0>>),
       Step("active", "claim", 1, FALSE),
       Step("active", "read", 1, {}),
       Step("active", "graves", 0, <<[entry |-> 1, times |-> 3]>>),
       Step("active", "entries", 0, 1),
       Step("active", "publish", "event", 2),
       Step("active", "read", 1, {2}),
       Step("active", "process", 2, 1),
       Step("active", "ack", {2}, 1),
       Step("active", "pending", 0, <<0, 0>>)>>

MessagingProbes ==
  [ackBeforeEffect |-> AckBeforeDurableEffect, duplicateDelivery |-> DuplicateDelivery,
   duplicatePublication |-> DuplicatePublication, poisonMessage |-> PoisonMessage]

EmptyRedis == [s \in {"baseline", "intervention", "recovery", "active"} |-> Fresh]

\* A run on an empty Redis that nobody kills: what is there and whether every call
\* returned what it should, after each of its steps.
Follows(before, step) ==
  LET call == Called(before.streams[step.stream], step.op, step.arg)
  IN [streams |-> [before.streams EXCEPT ![step.stream] = call.state],
      agreed |-> before.agreed /\ call.result = step.expect]

FirstRun(program) ==
  LET run[k \in 0 .. Len(program)] ==
        IF k = 0 THEN [streams |-> EmptyRedis, agreed |-> TRUE]
        ELSE Follows(run[k - 1], program[k])
  IN run

\* Such a run of each probe agrees with what it expects.  No constant is in this
\* formula, so that evaluating it decides it.
ASSUME FirstRunsAgree ==
  \A p \in DOMAIN MessagingProbes :
    FirstRun(MessagingProbes[p])[Len(MessagingProbes[p])].agreed

-----------------------------------------------------------------------------
Finished == probe = "none" \/ atStep > Len(MessagingProbes[probe])

Takes ==
  /\ ~Finished
  /\ LET step == MessagingProbes[probe][atStep]
         call == Called(streams[step.stream], step.op, step.arg)
     IN /\ streams' = [streams EXCEPT ![step.stream] = call.state]
        /\ agreed' = (agreed /\ call.result = step.expect)
  /\ atStep' = atStep + 1
  /\ UNCHANGED <<probe, restarts>>

\* The probe dies with a call, whose effect may have happened, and is run again.
IsKilled ==
  /\ ~Finished /\ restarts < MaxRestarts
  /\ restarts' = restarts + 1
  /\ \E happened \in BOOLEAN :
       LET step == MessagingProbes[probe][atStep]
       IN streams' = IF happened
                     THEN [streams EXCEPT ![step.stream] =
                             Called(streams[step.stream], step.op, step.arg).state]
                     ELSE streams
  /\ atStep' = 1 /\ agreed' = TRUE
  /\ UNCHANGED probe

MsgNext == Takes \/ IsKilled

MsgInit(isOn) ==
  /\ IF isOn THEN probe \in DOMAIN MessagingProbes ELSE probe = "none"
  /\ atStep = 1 /\ agreed = TRUE /\ restarts = 0
  /\ streams = EmptyRedis

MessagingEnds == probe # "none" /\ Finished
=============================================================================
