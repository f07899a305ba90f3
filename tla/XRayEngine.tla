------------------------------ MODULE XRayEngine ------------------------------
(***************************************************************************)
(* The rule engine that evaluates a declarative X-Ray profile over typed   *)
(* documents.  A solution is a function from the variables bound so far to *)
(* their values; a profile is a chain of stages, each of which turns the   *)
(* solutions of the stage before it into its own.  Solutions are sets, as  *)
(* the engine removes duplicates after every clause.  Its bound on their   *)
(* number, beyond which it raises, is left out.                            *)
(***************************************************************************)
EXTENDS Integers, Sequences, FiniteSets

CONSTANT Missing   \* an absent document, or a path that leads nowhere

NoBinding == [v \in {} |-> Missing]

Agrees(solution, bound) ==
  \A v \in DOMAIN solution \cap DOMAIN bound : solution[v] = bound[v]

\* A solution with what a row binds as well.
Extended(solution, bound) ==
  [v \in DOMAIN solution \cup DOMAIN bound |->
     IF v \in DOMAIN solution THEN solution[v] ELSE bound[v]]

\* A clause keeps every pair of a solution and a row that matches under it, as
\* long as what the row binds is there and is not bound to something else.
Clause(solutions, rows, Matches(_, _), Bound(_)) ==
  {Extended(p[1], Bound(p[2])) :
     p \in {p \in solutions \X rows :
              /\ Matches(p[1], p[2])
              /\ \A v \in DOMAIN Bound(p[2]) : Bound(p[2])[v] # Missing
              /\ Agrees(p[1], Bound(p[2]))}}

\* A clause that binds nothing keeps the solutions under which some row matches.
Requires(solutions, rows, Matches(_, _)) ==
  {s \in solutions : \E r \in rows : Matches(s, r)}

Constrained(solutions, Holds(_)) == {s \in solutions : Holds(s)}

\* The rows that match under a solution number between least and most.
Counted(solutions, rows, Matches(_, _), least, most) ==
  {s \in solutions : Cardinality({r \in rows : Matches(s, r)}) \in least .. most}

\* The rows of a document that was not supplied are none.
RowsOf(document, Rows(_)) == IF document = Missing THEN {} ELSE Rows(document)

\* Of the values at the references of a group, those that are present are one.
SameIdentity(values) == \A v, w \in values \ {Missing} : v = w

\* The last stage of the prefix of stages that have a solution; stages is a
\* sequence of pairs of a name and its solutions.
EpistemicState(stages) ==
  LET reached == {i \in DOMAIN stages : \A j \in 1 .. i : stages[j][2] # {}}
  IN IF reached = {} THEN "UNKNOWN" ELSE stages[Cardinality(reached)][1]
=============================================================================
