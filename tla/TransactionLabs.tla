-------------------------- MODULE TransactionLabs ---------------------------
(***************************************************************************)
(* The laboratories that provoke a failure between two transactions, each  *)
(* in a thread of its own: the probes of deadlocks, write skew, aborted    *)
(* serializable updates and row-lock waits, and the laboratory whose       *)
(* deadlock is correlated to the concrete executions of an incident.  A    *)
(* laboratory is a sequence of phases, a phase gives each of the sessions  *)
(* A and B a program, and main waits for both between the phases.          *)
(***************************************************************************)
EXTENDS DeadlockDiagnosis

(***************************************************************************)
(* What the laboratories use of PostgreSQL, which is not part of the       *)
(* repository: transactions of a few sessions over a few rows, with row    *)
(* locks held to the end, the snapshots of the isolation levels above read *)
(* committed, the detection of deadlocks and the abort of a serializable   *)
(* transaction between which and a concurrent one there are read-write     *)
(* dependencies both ways.  A database is a record                         *)
(*   [value, stamp, clock, tx, waits, closed]                              *)
(* of the committed value of every row, the commit that wrote it, the      *)
(* number of commits, the open transaction and the row awaited of every    *)
(* session, and the serializable transactions that committed.              *)
(***************************************************************************)
CONSTANTS
  Session, Row,
  NoRow     \* what a session that is not waiting waits for

FreshTx == [level |-> "READ COMMITTED", at |-> -1, read |-> {},
            wrote |-> [r \in {} |-> 0]]

FreshDb(values) ==
  [value |-> values, stamp |-> [r \in Row |-> 0], clock |-> 0,
   tx |-> [s \in Session |-> FreshTx], waits |-> [s \in Session |-> NoRow], closed |-> {}]

Blockers(db, s) == {t \in Session \ {s} : db.waits[s] \in DOMAIN db.tx[t].wrote}

InCycle(db, s) == \E t \in Blockers(db, s) : s \in Blockers(db, t)

Begin(db, s, level) == [db EXCEPT !.tx[s] = [FreshTx EXCEPT !.level = level]]

\* A snapshot is taken by the first statement of a transaction that has one.
Snapshot(db, s) == IF db.tx[s].at = -1 THEN db.clock ELSE db.tx[s].at

\* The laboratories read before they write, so that what they read is committed.
Read(db, s, rows) ==
  [db EXCEPT !.tx[s] = [@ EXCEPT !.at = Snapshot(db, s), !.read = rows]]

IsLocked(db, s, row) == \E t \in Session \ {s} : row \in DOMAIN db.tx[t].wrote

Await(db, s, row) == [db EXCEPT !.waits[s] = row]

\* Writing a row that another transaction changed since the snapshot fails.
IsOutdated(db, s, row) ==
  db.tx[s].level # "READ COMMITTED" /\ db.stamp[row] > Snapshot(db, s)

Write(db, s, row, value) ==
  LET tx == db.tx[s]
      wrote == [r \in {row} \cup DOMAIN tx.wrote |-> IF r = row THEN value ELSE tx.wrote[r]]
  IN [db EXCEPT !.waits[s] = NoRow,
                !.tx[s] = [tx EXCEPT !.at = Snapshot(db, s), !.wrote = wrote]]

Rollback(db, s) == [db EXCEPT !.tx[s] = FreshTx, !.waits[s] = NoRow]

IsSkewed(db, s) ==
  /\ db.tx[s].level = "SERIALIZABLE"
  /\ \E t \in db.closed :
       /\ t.commit > db.tx[s].at
       /\ t.read \cap DOMAIN db.tx[s].wrote # {}
       /\ t.wrote \cap db.tx[s].read # {}

Commit(db, s) ==
  LET tx == db.tx[s]
      now == db.clock + 1
      set == DOMAIN tx.wrote
  IN [Rollback(db, s) EXCEPT
        !.clock = now,
        !.value = [r \in Row |-> IF r \in set THEN tx.wrote[r] ELSE @[r]],
        !.stamp = [r \in Row |-> IF r \in set THEN now ELSE @[r]],
        !.closed = IF tx.level # "SERIALIZABLE" THEN @
                   ELSE @ \cup {[commit |-> now, read |-> tx.read, wrote |-> set]}]

-----------------------------------------------------------------------------
CONSTANTS
  Contracts, RuntimeDocs,   \* what the concrete laboratory may be run on
  MaxTxFaults               \* statements and connections that fail

ASSUME TwoSessions == Session = {"A", "B"} /\ Row = {"x", "y"}

\* The schemas of both documents (concrete-system-facts, concrete-runtime-facts) require
\* these fields, and the laboratory compares them.
ASSUME DocumentsAreNamed ==
  /\ \A static \in Contracts : static.revision # Missing
  /\ \A runtime \in RuntimeDocs : runtime.revision # Missing /\ runtime.incident # Missing

TransactionLab == {"deadlock", "skew", "serialization", "lock", "concrete"}

VARIABLES
  lab,        \* the laboratory that runs, or another one
  phase, main,
  work,       \* the program of each session, how far it is and how it ended
  meeting,    \* who arrived at a barrier, and whether it broke
  db,
  history,    \* what the database did: waits, deadlocks and commits of writes
  reading,    \* the deadlock counter as last read
  observed, results, txFaults,
  specs,      \* [static, runtime] of the concrete laboratory
  edges, published

txVars == <<phase, main, work, meeting, db, history, reading, observed, results,
            txFaults, specs, edges, published>>

-----------------------------------------------------------------------------
Updates(order, forced) ==
  <<<<"connect">>, <<"meet", "start">>, <<"add", order[1]>>>>
  \o (IF forced THEN <<<<"meet", "locked">>>> ELSE <<>>)
  \o <<<<"add", order[2]>>, <<"commit">>>>

GoesOffCall(row, level, together) ==
  <<<<"connect">>, <<"begin", level>>, <<"read">>>>
  \o (IF together THEN <<<<"meet", "read">>>> ELSE <<>>)
  \o <<<<"leave", row>>, <<"commit">>>>

Increments ==
  <<<<"connect">>, <<"begin", "SERIALIZABLE">>, <<"read">>, <<"set", "x">>, <<"commit">>>>

Correlated(order) ==
  <<<<"connect">>, <<"add", order[1]>>, <<"register">>, <<"meet", "release">>,
    <<"add", order[2]>>, <<"commit">>>>

Single == <<<<"connect">>, <<"add", "x">>, <<"commit">>>>

After(session, place, program) == <<<<"until", session, place>>>> \o program

Pair(a, b) == [A |-> a, B |-> b]

Side(left) ==
  LET c == CHOOSE c \in Preconditions(specs.static.orders) :
             MatchingOverlaps(c, specs.runtime) # {}
  IN IF left THEN c.left ELSE c.right

Order(side) == <<side.subject, side.object>>

\* The phases, and whether the rows are reset before one.
Phases ==
  CASE lab = "deadlock" ->
         LET calm == [reset |-> TRUE, run |-> Pair(Updates(<<"x", "y">>, FALSE), Updates(<<"x", "y">>, FALSE))]
         IN <<calm, [reset |-> TRUE, run |-> Pair(Updates(<<"x", "y">>, TRUE), Updates(<<"y", "x">>, TRUE))], calm>>
    [] lab = "skew" ->
         LET Off(level, together) == Pair(GoesOffCall("x", level, together), GoesOffCall("y", level, together))
             base == Off("REPEATABLE READ", FALSE)
         IN <<[reset |-> TRUE, run |-> [base EXCEPT !.B = After("A", 9, @)]],
              [reset |-> TRUE, run |-> Off("REPEATABLE READ", TRUE)],
              [reset |-> TRUE, run |-> Off("SERIALIZABLE", TRUE)]>>
    [] lab = "serialization" ->
         <<[reset |-> TRUE, run |-> Pair(Increments, After("A", 9, Increments))],
           [reset |-> TRUE,
            run |-> Pair(SubSeq(Increments, 1, 3) \o After("B", 9, SubSeq(Increments, 4, 5)),
                         After("A", 4, Increments))],
           [reset |-> FALSE, run |-> Pair(Increments, <<>>)]>>
    [] lab = "lock" ->
         LET free == [reset |-> FALSE, run |-> Pair(<<>>, Single)]
         IN <<free,
              [reset |-> FALSE,
               run |-> Pair(<<<<"connect">>, <<"lock", "x">>, <<"sleep">>, <<"commit">>>>,
                            After("A", 3, Single))],
              free>>
    [] lab = "concrete" ->
         <<[reset |-> TRUE, run |-> Pair(Correlated(Order(Side(TRUE))), Correlated(Order(Side(FALSE))))]>>

\* The doctors are on call, everything else starts at zero.
Initially == [r \in Row |-> IF lab = "skew" THEN 1 ELSE 0]

Started(run) ==
  [s \in Session |-> [program |-> run[s], at |-> 1, seen |-> 0,
                      outcome |-> IF run[s] = <<>> THEN "none" ELSE "running"]]

Unmet == [n \in {"start", "locked", "read", "release"} |-> [arrived |-> {}, broken |-> FALSE]]

-----------------------------------------------------------------------------
Op(s) == work[s].program[work[s].at]
IsRunning(s) == main \notin {"off", "start", "done", "failed"} /\ work[s].outcome = "running"

Advances(s) == work' = [work EXCEPT ![s].at = @ + 1]
Ends(s, outcome) == work' = [work EXCEPT ![s].outcome = outcome]

\* How a worker reports what stopped it; "dead" reports nothing.
OutcomeOf(error) ==
  CASE error = "connect" -> "dead"
    [] error = "40P01" /\ lab \in {"deadlock", "concrete"} -> "deadlock_aborted"
    [] error # "40P01" /\ error # "connect" /\ lab = "deadlock" -> "unexpected_error"
    [] error \notin {"40P01", "connect"} /\ lab = "concrete" -> "dead"
    [] error = "40001" /\ (lab = "skew" \/ (lab = "serialization" /\ phase = 2)) ->
         "serialization_aborted"
    [] error = "meet" /\ lab = "skew" -> "barrier_error"
    [] OTHER -> "error"

Fails(s, error) ==
  /\ db' = Rollback(db, s)
  /\ Ends(s, OutcomeOf(error))

Notes(what, s) == history' = history \cup {[phase |-> phase, what |-> what, session |-> s]}

NewValue(s) ==
  CASE Op(s)[1] = "add" -> db.value[Op(s)[2]] + 1
    [] Op(s)[1] = "set" -> work[s].seen + 1
    [] Op(s)[1] = "leave" -> 0
    [] Op(s)[1] = "lock" -> db.value[Op(s)[2]]

\* A step of a session that needs neither a lock nor the other one.
Steps(s) ==
  /\ IsRunning(s)
  /\ \/ Op(s)[1] \in {"connect", "sleep"} /\ UNCHANGED db
     \/ Op(s)[1] = "until" /\ UNCHANGED db
        /\ (work[Op(s)[2]].outcome # "running" \/ work[Op(s)[2]].at >= Op(s)[3])
     \/ Op(s)[1] = "begin" /\ db' = Begin(db, s, Op(s)[2])
     \/ Op(s)[1] = "register" /\ UNCHANGED db
     \/ Op(s)[1] = "leave" /\ work[s].seen <= 1 /\ UNCHANGED db
  /\ Advances(s)
  /\ UNCHANGED <<lab, phase, main, meeting, history, reading, observed, results, txFaults,
                 specs, edges, published>>

Reads(s) ==
  /\ IsRunning(s)
  /\ Op(s)[1] = "read"
  /\ db' = Read(db, s, IF lab = "skew" THEN Row ELSE {"x"})
  /\ work' = [work EXCEPT ![s].at = @ + 1,
                          ![s].seen = db.value["x"] + IF lab = "skew" THEN db.value["y"] ELSE 0]
  /\ UNCHANGED <<lab, phase, main, meeting, history, reading, observed, results, txFaults,
                 specs, edges, published>>

Writes(s) ==
  /\ IsRunning(s)
  /\ Op(s)[1] \in {"add", "set", "leave", "lock"}
  /\ Op(s)[1] = "leave" => work[s].seen > 1
  /\ \/ /\ IsLocked(db, s, Op(s)[2]) /\ db.waits[s] = NoRow
        /\ db' = Await(db, s, Op(s)[2])
        /\ Notes("waited", s)
        /\ UNCHANGED work
     \/ /\ ~IsLocked(db, s, Op(s)[2]) /\ ~IsOutdated(db, s, Op(s)[2])
        /\ db' = Write(db, s, Op(s)[2], NewValue(s))
        /\ Advances(s)
        /\ UNCHANGED history
     \/ /\ ~IsLocked(db, s, Op(s)[2]) /\ IsOutdated(db, s, Op(s)[2])
        /\ Fails(s, "40001")
        /\ UNCHANGED history
  /\ UNCHANGED <<lab, phase, main, meeting, reading, observed, results, txFaults, specs,
                 edges, published>>

Commits(s) ==
  /\ IsRunning(s)
  /\ Op(s)[1] = "commit"
  /\ IF IsSkewed(db, s)
     THEN Fails(s, "40001") /\ UNCHANGED history
     ELSE /\ db' = Commit(db, s)
          /\ Ends(s, "committed")
          /\ IF DOMAIN db.tx[s].wrote # {} THEN Notes("wrote", s) ELSE UNCHANGED history
  /\ UNCHANGED <<lab, phase, main, meeting, reading, observed, results, txFaults, specs,
                 edges, published>>

\* The deadlock detector aborts the session whose wait has been long enough.
Detects(s) ==
  /\ IsRunning(s)
  /\ InCycle(db, s)
  /\ Fails(s, "40P01")
  /\ Notes("deadlocked", s)
  /\ UNCHANGED <<lab, phase, main, meeting, reading, observed, results, txFaults, specs,
                 edges, published>>

Faulty(s) ==
  /\ IsRunning(s)
  /\ txFaults < MaxTxFaults
  /\ Op(s)[1] \notin {"meet", "until", "register", "sleep"}
  /\ Fails(s, IF Op(s)[1] = "connect" THEN "connect" ELSE "other")
  /\ txFaults' = txFaults + 1
  /\ UNCHANGED <<lab, phase, main, meeting, history, reading, observed, results, specs,
                 edges, published>>

-----------------------------------------------------------------------------
\* The barriers are used once, so that a full one stays full.
Parties(name) == IF name = "release" THEN 3 ELSE 2
IsFull(name) == Cardinality(meeting[name].arrived) = Parties(name)

Arrives(who, name) == meeting' = [meeting EXCEPT ![name].arrived = @ \cup {who}]

Meets(s) ==
  /\ IsRunning(s)
  /\ Op(s)[1] = "meet"
  /\ LET name == Op(s)[2]
     IN \/ ~meeting[name].broken /\ s \notin meeting[name].arrived
           /\ Arrives(s, name) /\ UNCHANGED <<work, db>>
        \/ s \in meeting[name].arrived /\ IsFull(name)
           /\ Advances(s) /\ UNCHANGED <<meeting, db>>
        \/ meeting[name].broken /\ Fails(s, "meet") /\ UNCHANGED meeting
  /\ UNCHANGED <<lab, phase, main, history, reading, observed, results, txFaults, specs,
                 edges, published>>

\* The wait of somebody at a barrier times out and breaks it for everybody.
Breaks(name) ==
  /\ main \notin {"off", "start", "done", "failed"}
  /\ meeting[name].arrived # {} /\ ~IsFull(name) /\ ~meeting[name].broken
  /\ meeting' = [meeting EXCEPT ![name].broken = TRUE]
  /\ UNCHANGED <<lab, phase, main, work, db, history, reading, observed, results, txFaults,
                 specs, edges, published>>
-----------------------------------------------------------------------------
\* Main.  The concrete laboratory wants one precondition with one overlap.
Matched(static, runtime) ==
  {c \in Preconditions(static.orders) : MatchingOverlaps(c, runtime) # {}}

StartsConcrete ==
  /\ lab = "concrete" /\ main = "start"
  /\ IF /\ XRayIsValid(specs.static, specs.runtime)
        /\ Cardinality(Matched(specs.static, specs.runtime)) = 1
        /\ \A c \in Matched(specs.static, specs.runtime) :
             Cardinality(MatchingOverlaps(c, specs.runtime)) = 1
     THEN main' = "ready" /\ work' = Started(Phases[1].run)
     ELSE main' = "failed" /\ UNCHANGED work
  /\ UNCHANGED <<lab, phase, meeting, db, history, reading, observed, results, txFaults,
                 specs, edges, published>>

StartsProbe ==
  /\ lab \in TransactionLab \ {"concrete"} /\ main = "start"
  /\ main' = "join"
  /\ work' = Started(Phases[1].run)
  /\ UNCHANGED <<lab, phase, meeting, db, history, reading, observed, results, txFaults,
                 specs, edges, published>>

Registered == {s \in Session : work[s].at > 3}

Ready ==
  /\ main = "ready" /\ Registered = Session
  /\ IF meeting["release"].broken THEN main' = "failed" /\ UNCHANGED meeting
     ELSE main' = "release" /\ Arrives("main", "release")
  /\ UNCHANGED <<lab, phase, work, db, history, reading, observed, results, txFaults, specs,
                 edges, published>>

Released ==
  /\ main = "release"
  /\ IF IsFull("release") THEN main' = "monitor"
     ELSE meeting["release"].broken /\ main' = "failed"
  /\ UNCHANGED <<lab, phase, work, meeting, db, history, reading, observed, results, txFaults,
                 specs, edges, published>>

ExecutionOf(s) ==
  LET side == Side(s = "A")
      overlap == CHOOSE o \in specs.runtime.overlaps :
                   o.symbols = {Side(TRUE).path, Side(FALSE).path}
  IN CHOOSE e \in specs.runtime.executions : e.id \in overlap.executions /\ e.symbol = side.path

Other(s) == CHOOSE t \in Session : t # s

\* One look at the activity that shows both waits.
Monitors ==
  /\ main = "monitor"
  /\ \A s \in Session : InCycle(db, s)
  /\ edges' = {[waiter |-> s, blocker |-> Other(s),
                waiterExecution |-> ExecutionOf(s).id, blockerExecution |-> ExecutionOf(Other(s)).id,
                resource |-> Order(Side(s = "A"))[2]] : s \in Session}
  /\ main' = "join"
  /\ UNCHANGED <<lab, phase, work, meeting, db, history, reading, observed, results, txFaults,
                 specs, published>>

\* Mutant: the wait for the sessions to register has no deadline.
TimesOutLater ==
  /\ \/ main = "monitor"
     \/ main = "join" /\ \E s \in Session : IsRunning(s)
  /\ main' = "failed"
  /\ UNCHANGED <<lab, phase, work, meeting, db, history, reading, observed, results, txFaults,
                 specs, edges, published>>

\* Main waits for the sessions, for the cycle or for the threads in vain.
TimesOut ==
  /\ \/ main = "ready" /\ Registered # Session
     \/ main = "monitor"
     \/ main = "join" /\ \E s \in Session : IsRunning(s)
  /\ main' = "failed"
  /\ UNCHANGED <<lab, phase, work, meeting, db, history, reading, observed, results, txFaults,
                 specs, edges, published>>

\* Mutant: the monitor does not ask for a wait on a lock.
SeesWaiter == work["B"].outcome = "running"

LooksForLock == db.waits["B"] # NoRow

\* The observer of the lock laboratory samples the waiting session.
Observes ==
  /\ lab = "lock" /\ main = "join" /\ ~observed
  /\ phase = 2 /\ IsRunning("B") /\ work["B"].at > 1
  /\ LooksForLock
  /\ observed' = TRUE
  /\ UNCHANGED <<lab, phase, main, work, meeting, db, history, reading, results, txFaults,
                 specs, edges, published>>

Participant(s) ==
  LET side == Side(s = "A")
      execution == ExecutionOf(s)
  IN [pid |-> s, execution |-> execution.id, trace |-> execution.trace, symbol |-> side.path,
      transaction |-> side.transaction, order |-> Order(side), outcome |-> work[s].outcome]

Correlation ==
  LET victim == CHOOSE s \in Session : work[s].outcome = "deadlock_aborted"
  IN [kind |-> "correlation", revision |-> specs.static.revision,
      incident |-> specs.runtime.incident,
      participants |-> {Participant(s) : s \in Session}, edges |-> edges,
      victim |-> [pid |-> victim, execution |-> ExecutionOf(victim).id]]

Evidence ==
  [kind |-> "evidence", incident |-> specs.runtime.incident,
   instances |-> {[observation |-> o, state |-> "observed", active |-> TRUE] :
                    o \in {LockWait, DeadlockError}}]

AllEnded == \A s \in Session : work[s].outcome # "running"

Publishes ==
  /\ lab = "concrete" /\ main = "join" /\ AllEnded
  /\ IF {work[s].outcome : s \in Session} = {"deadlock_aborted", "committed"}
     THEN main' = "done" /\ published' = {Correlation, Evidence}
     ELSE main' = "failed" /\ UNCHANGED published
  /\ UNCHANGED <<lab, phase, work, meeting, db, history, reading, observed, results, txFaults,
                 specs, edges>>

-----------------------------------------------------------------------------
Deadlocks == {h \in history : h.what = "deadlocked"}

Result(deadlocks) ==
  [outcomes |-> [s \in Session |-> work[s].outcome], seen |-> [s \in Session |-> work[s].seen],
   value |-> db.value, deadlocks |-> deadlocks, observed |-> observed]

\* An error that its laboratory does not catch ends it.
Uncaught ==
  \/ lab = "lock" /\ \E s \in Session : work[s].outcome \in {"error", "dead"}
  \/ lab = "serialization" /\ \E s \in Session :
       \/ work[s].outcome = "dead"
       \/ /\ phase = 2 /\ work[s].outcome \in {"error", "serialization_aborted"}
          /\ ~(s = "A" /\ work[s].at > 4)

\* The counter of deadlocks is reported with a delay.
EndsPhase ==
  /\ lab \in TransactionLab \ {"concrete"} /\ main = "join" /\ AllEnded
  /\ \E count \in reading .. Cardinality(Deadlocks) :
       /\ reading' = count
       /\ results' = Append(results, Result(count - reading))
  /\ observed' = FALSE
  /\ meeting' = Unmet
  /\ IF Uncaught \/ phase = Len(Phases)
     THEN /\ main' = IF Uncaught THEN "failed" ELSE "done"
          /\ UNCHANGED <<phase, work, db>>
     ELSE /\ phase' = phase + 1
          /\ work' = Started(Phases[phase + 1].run)
          /\ db' = IF Phases[phase + 1].reset THEN FreshDb(Initially) ELSE db
          /\ UNCHANGED main
  /\ UNCHANGED <<lab, history, txFaults, specs, edges, published>>

Number(i, outcome) == Cardinality({s \in Session : results[i].outcomes[s] = outcome})

\* The assertions of each probe; a failed one leaves its result inconclusive.
Supports ==
  CASE lab = "deadlock" ->
         /\ \A i \in {1, 3} : Number(i, "committed") = 2 /\ results[i].deadlocks = 0
         /\ Number(2, "deadlock_aborted") = 1 /\ Number(2, "committed") = 1
         /\ results[2].deadlocks >= 1
    [] lab = "skew" ->
         LET OnCall(i) == results[i].value["x"] + results[i].value["y"]
         IN /\ Number(1, "committed") = 2 /\ OnCall(1) = 1
            /\ Number(2, "committed") = 2 /\ OnCall(2) = 0
            /\ \A s \in Session : results[2].seen[s] = 2
            /\ Number(3, "committed") = 1 /\ Number(3, "serialization_aborted") = 1
            /\ OnCall(3) >= 1
    [] lab = "serialization" ->
         /\ Number(1, "committed") = 2 /\ results[1].value["x"] = 2
         /\ results[2].outcomes = Pair("serialization_aborted", "committed")
         /\ results[2].value["x"] = 1
         /\ results[3].outcomes["A"] = "committed" /\ results[3].value["x"] = 2
    [] lab = "lock" ->
         results[2].observed /\ ~results[1].observed
    [] OTHER -> FALSE

Concluded == main = "done" /\ lab \in TransactionLab \ {"concrete"} /\ Supports

TxSessionStep ==
  \E s \in Session :
    Steps(s) \/ Reads(s) \/ Writes(s) \/ Commits(s) \/ Detects(s) \/ Meets(s)

TxMain ==
  \/ StartsConcrete \/ StartsProbe \/ Ready \/ Released \/ Monitors \/ TimesOut
  \/ Observes \/ Publishes \/ EndsPhase
  \/ \E name \in DOMAIN Unmet : Breaks(name)

TxNext == TxSessionStep \/ TxMain \/ \E s \in Session : Faulty(s)

TxInit ==
  /\ phase = 1
  /\ main = IF lab \in TransactionLab THEN "start" ELSE "off"
  /\ work = Started(Pair(<<>>, <<>>))
  /\ meeting = Unmet
  /\ db = FreshDb(Initially)
  /\ history = {} /\ reading = 0 /\ observed = FALSE /\ results = <<>> /\ txFaults = 0
  /\ IF lab = "concrete"
     THEN specs \in [static : Contracts, runtime : RuntimeDocs]
     ELSE specs = Missing
  /\ edges = {} /\ published = {}
=============================================================================
