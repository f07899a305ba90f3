----------------------------- MODULE SessionLog -----------------------------
(***************************************************************************)
(* What a recommendation session promises its callers: results follow each *)
(* other in one order, a revision has one successor, nothing follows a     *)
(* closing entry, and an acknowledged revision stays.                      *)
(***************************************************************************)
EXTENDS Naturals, Sequences

CONSTANT IsClosing(_)   \* does an entry close the session

VARIABLES
  log,        \* the entries, in the order of their revisions
  acked       \* revisions that some caller was told of

Closed == log # <<>> /\ IsClosing(log[Len(log)])

LogInit == log = <<>> /\ acked = {}

Record ==
  /\ ~ Closed
  /\ Len(log') = Len(log) + 1
  /\ SubSeq(log', 1, Len(log)) = log
  /\ UNCHANGED acked

Acknowledge ==
  /\ \E n \in DOMAIN log : acked' = acked \cup {n}
  /\ UNCHANGED log

LogSpec == LogInit /\ [][Record \/ Acknowledge]_<<log, acked>>
=============================================================================
