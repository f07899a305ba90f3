------------------------- MODULE MCEvidenceWriters -------------------------
(* Small deployments of the evidence writers for TLC. *)
EXTENDS EvidenceWriters, TLC

CONSTANTS w1, w2, w3, w4, i0, i1, i2, tmp, workspace

\* Two routing servers on their default --mutation-lock-dir, whose calls may
\* overlap, and the other two tools, which are used when nothing else runs.
TwoRoutedOneEach ==
  w1 :> "routed" @@ w2 :> "routed" @@ w3 :> "ranked" @@ w4 :> "import"
SameTool == {<<v, w>> \in Writers \X Writers : Kind[v] = Kind[w]}

RoutedAndImport == w1 :> "routed" @@ w2 :> "import"
AnyTools == Writers \X Writers

\* The directories the tools use by default.
DefaultDirectories ==
  [w \in Writers |-> IF Kind[w] = "import" THEN workspace ELSE tmp]
=============================================================================
