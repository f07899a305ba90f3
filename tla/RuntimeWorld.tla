----------------------------- MODULE RuntimeWorld -----------------------------
(***************************************************************************)
(* The running system as the diagnostic instruments see it: whether an     *)
(* observation holds in a scope changes over time, and an instrument       *)
(* reports what holds when it is asked.  A scope names the resource that   *)
(* its instruments read, as the scope of an incident's seed does; an       *)
(* answer about another scope would be refused.                            *)
(***************************************************************************)
EXTENDS CausalRanking

CONSTANTS
  Instrument,   \* the kind of instrument that a probe is routed to
  Lifetime,     \* how long its readings stay active; 0 stands for no expiry
  MaxTime,      \* bound on the clock
  MaxChanges,   \* bound on how often the system changes
  Varying       \* bound on which <<observation, scope>> may hold or change

Places == Observations \X Scopes
Kinds == {"pgbot", "prometheus", "health"}
Times == 0 .. MaxTime

ASSUME WorldAssumption ==
  /\ Instrument \in [DOMAIN Probes -> Kinds]
  /\ Lifetime \in [DOMAIN Probes -> Nat]
  /\ MaxTime \in Nat /\ MaxChanges \in Nat
  /\ Varying \subseteq Places

VARIABLES
  clock,
  holds,      \* the <<observation, scope>> that hold in the system now
  lastAbsent, \* when each of them last did not hold (history)
  changes     \* how often the system changed

world == <<clock, holds, lastAbsent, changes>>

Absences(now, present, before) ==
  [place \in Places |-> IF place \in present THEN before[place] ELSE now]

WorldInit ==
  /\ clock = 0
  /\ holds \in SUBSET Varying
  /\ lastAbsent = Absences(0, holds, [place \in Places |-> -1])
  /\ changes = 0

Tick ==
  /\ clock < MaxTime
  /\ clock' = clock + 1
  /\ lastAbsent' = Absences(clock', holds, lastAbsent)
  /\ UNCHANGED <<holds, changes>>

Change(place) ==
  /\ changes < MaxChanges /\ place \in Varying
  /\ changes' = changes + 1
  /\ holds' = IF place \in holds THEN holds \ {place} ELSE holds \cup {place}
  /\ lastAbsent' = Absences(clock, holds', lastAbsent)
  /\ UNCHANGED clock

WorldTypeOK ==
  /\ clock \in Times
  /\ holds \subseteq Places
  /\ lastAbsent \in [Places -> -1 .. MaxTime]
  /\ changes \in 0 .. MaxChanges

-----------------------------------------------------------------------------
(* What an instrument reports *)

\* "until" is expires_at; an instance without one outlives the model.
Expiry(p) == IF Lifetime[p] = 0 THEN MaxTime + 1 ELSE clock + Lifetime[p]

\* pgbot's ids hash the collection time; those of the other two name the
\* metric or the probe, and are the same for every reading.
ReadingId(p, o, s) ==
  <<p, o, s, IF Instrument[p] = "pgbot" THEN clock ELSE 0>>

Reading(p, o, s) ==
  [id |-> ReadingId(p, o, s), observation |-> o, scope |-> s,
   state |-> IF <<o, s>> \in holds THEN "observed" ELSE "absent",
   at |-> clock, until |-> Expiry(p)]

\* pgbot reports the findings it has, and none is no evidence of absence; the
\* other instruments report either state of all they measure.
Readings(p, s) ==
  LET all == {Reading(p, o, s) : o \in Probes[p].produces}
  IN IF Instrument[p] = "pgbot" THEN {i \in all : i.state = "observed"} ELSE all
=============================================================================
