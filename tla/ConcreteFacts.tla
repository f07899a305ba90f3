----------------------------- MODULE ConcreteFacts -----------------------------
(***************************************************************************)
(* The concrete facts of one system: the static contract that a scan pins  *)
(* to a revision, and the runtime facts that spans carrying an explicit    *)
(* binding to that contract are projected into.  A span is a record        *)
(*   [symbol, revision, trace, start, end, events]                         *)
(* whose trace stands for its trace and span ids together; an event is a   *)
(* pool checkout [pool, wait, at] or another one.  Times of a span count   *)
(* half microseconds, so that what formatting them as microseconds does to *)
(* them can be seen.                                                       *)
(***************************************************************************)
EXTENDS Integers, Sequences, FiniteSets, SequencesExt

CONSTANTS
  NoSymbol,    \* the symbol of a span without a binding
  OtherEvent   \* an event that is not a pool checkout

\* The static contract [revision, symbols, pools, orders]: pools maps a pool to
\* the technology and configuration it was scanned with, and orders is the list
\* of its accesses_before facts.
OpposingOrders(l, r) ==
  /\ l.id < r.id
  /\ l.subject = r.object /\ l.object = r.subject
  /\ l.path # r.path

SamePlace(p, q) ==
  /\ {p.left.subject, p.left.object} = {q.left.subject, q.left.object}
  /\ {p.left.path, p.right.path} = {q.left.path, q.right.path}

\* The first pair of every two resources and two code paths, in the order of
\* the list.
Preconditions(orders) ==
  LET Before(i, j, k, l) == i < k \/ (i = k /\ j < l)
      Pair(i, j) == [left |-> orders[i], right |-> orders[j]]
      Opposed == {p \in (DOMAIN orders) \X (DOMAIN orders) : OpposingOrders(orders[p[1]], orders[p[2]])}
  IN {Pair(p[1], p[2]) : p \in {p \in Opposed : \A q \in Opposed :
        Before(q[1], q[2], p[1], p[2]) => ~SamePlace(Pair(q[1], q[2]), Pair(p[1], p[2]))}}

-----------------------------------------------------------------------------
ExecutionId(span) == <<span.revision, span.symbol, span.trace>>

Checkouts(span) == {i \in DOMAIN span.events : span.events[i] # OtherEvent}

\* Whether a span is bound to the contract; one that names a symbol and fails
\* here makes its whole payload fail.
SpanIsValid(static, span) ==
  /\ span.symbol \in static.symbols
  /\ span.revision = static.revision
  /\ 0 <= span.start /\ span.start <= span.end
  /\ \A i \in Checkouts(span) :
       /\ span.events[i].pool \in DOMAIN static.pools
       /\ span.events[i].contract = static.pools[span.events[i].pool]
       /\ span.events[i].wait >= 0 /\ span.events[i].at >= 0

\* A time as the microseconds of its text, rounded half to even.
Micros(time) ==
  LET whole == time \div 2
  IN IF time % 2 = 0 \/ whole % 2 = 0 THEN whole ELSE whole + 1

Execution(span) ==
  [id |-> ExecutionId(span), symbol |-> span.symbol, trace |-> span.trace,
   start |-> Micros(span.start), end |-> Micros(span.end),
   duration |-> span.end - span.start]

Interaction(span, i) ==
  LET event == span.events[i]
  IN [id |-> <<ExecutionId(span), event.pool, i, event.at>>,
      execution |-> ExecutionId(span), symbol |-> span.symbol, trace |-> span.trace,
      pool |-> event.pool, wait |-> event.wait, at |-> Micros(event.at)]

\* Of two items with one id the later one stands; items are numbered in order.
LastById(items) ==
  {items[i] : i \in {i \in DOMAIN items : \A j \in DOMAIN items : j > i => items[j].id # items[i].id}}

Overlap(e, f, amount) ==
  [executions |-> {e.id, f.id}, symbols |-> {e.symbol, f.symbol}, amount |-> amount]

SmallerOf(a, b) == IF a < b THEN a ELSE b
LargerOf(a, b) == IF a < b THEN b ELSE a

Together(a, b) == SmallerOf(a.end, b.end) - LargerOf(a.start, b.start)

\* Mutant: spans that only touch overlap.
TouchingOverlaps(executions) ==
  {Overlap(p[1], p[2], Together(p[1], p[2])) :
     p \in {p \in executions \X executions :
              p[1].symbol # p[2].symbol /\ Together(p[1], p[2]) >= 0}}

\* The overlaps the receiver derives, from the rounded times of its executions.
RoundedOverlaps(executions) ==
  {Overlap(p[1], p[2], Together(p[1], p[2])) :
     p \in {p \in executions \X executions :
              p[1].symbol # p[2].symbol /\ Together(p[1], p[2]) > 0}}

\* The overlaps the batch projection derives, from the times of the spans.
ExactOverlaps(spans) ==
  {Overlap(Execution(p[1]), Execution(p[2]), Together(p[1], p[2])) :
     p \in {p \in spans \X spans :
              p[1].symbol # p[2].symbol /\ Together(p[1], p[2]) > 0}}

-----------------------------------------------------------------------------
IsBound(span) == span.symbol # NoSymbol

\* A payload is a sequence of spans.
CarriesBinding(payload) == \E i \in DOMAIN payload : IsBound(payload[i])

BatchIsValid(static, payload) ==
  /\ CarriesBinding(payload)
  /\ \A i \in DOMAIN payload : IsBound(payload[i]) => SpanIsValid(static, payload[i])

BoundIn(payload) == {i \in DOMAIN payload : IsBound(payload[i])}

BatchExecutions(payload) == LastById([i \in BoundIn(payload) |-> Execution(payload[i])])

BatchInteractions(payload) ==
  LET bound == SelectSeq(payload, IsBound)
      found == [i \in DOMAIN bound |->
                  [k \in 1 .. Cardinality(Checkouts(bound[i])) |->
                     Interaction(bound[i], SetToSortSeq(Checkouts(bound[i]), <)[k])]]
  IN LastById(FlattenSeq(found))

\* The document of one payload.
Batch(static, incident, payload) ==
  LET spans == {payload[i] : i \in BoundIn(payload)}
      last == {s \in spans : Execution(s) \in BatchExecutions(payload)}
  IN [revision |-> static.revision, incident |-> incident,
      executions |-> BatchExecutions(payload),
      interactions |-> BatchInteractions(payload),
      overlaps |-> ExactOverlaps(last)]

\* What every reader of runtime facts checks first.
DocumentIsValid(document) ==
  /\ \A e, f \in document.executions : e.id = f.id => e = f
  /\ \A o \in document.overlaps : \E e, f \in document.executions :
       o.executions = {e.id, f.id} /\ o.symbols = {e.symbol, f.symbol}
  /\ \A i, j \in document.interactions : i.id = j.id => i = j
  /\ \A i \in document.interactions : \E e \in document.executions :
       e.id = i.execution /\ e.symbol = i.symbol /\ e.trace = i.trace
=============================================================================
