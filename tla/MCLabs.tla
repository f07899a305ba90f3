-------------------------------- MODULE MCLabs --------------------------------
(* Two incidents of one revision that saw the same requests, one whose       *)
(* requests did not meet, and the same code at another revision.             *)
EXTENDS Labs

NoPools == [x \in {} |-> 0]
Fact(id, a, b, path) ==
  [id |-> id, subject |-> a, object |-> b, path |-> path, transaction |-> <<"tx", path>>]
Contract(r) ==
  [revision |-> r, symbols |-> {"p", "q"}, pools |-> NoPools,
   orders |-> <<Fact(1, "x", "y", "p"), Fact(2, "y", "x", "q")>>]
TheContracts == {Contract("r1"), Contract("r2")}

Span(r, symbol, trace, from, to) ==
  [symbol |-> symbol, revision |-> r, trace |-> trace, start |-> from, end |-> to, events |-> <<>>]
Meeting(r) == <<Span(r, "p", 1, 0, 10), Span(r, "q", 2, 4, 12)>>
Apart(r) == <<Span(r, "p", 3, 0, 4), Span(r, "q", 4, 6, 12)>>
TheRuntimeDocs ==
  {Batch(Contract("r1"), "i1", Meeting("r1")), Batch(Contract("r1"), "i2", Meeting("r1")),
   Batch(Contract("r1"), "i1", Apart("r1"))}

Instance(observation, state) == [observation |-> observation, state |-> state, active |-> TRUE]
TheCanonicals ==
  {[kind |-> "evidence", incident |-> "i2", instances |-> {Instance(DeadlockError, "observed")}],
   [kind |-> "evidence", incident |-> "i1", instances |-> {Instance(LockWait, "absent")}]}

Job(class, retry) == [class |-> class, retry |-> retry, charges |-> TRUE]
Space(jobs, keyed) == [revision |-> "r1", jobs |-> jobs, keyed |-> keyed]
TheWorkspaces ==
  {Space({Job("capture", "3"), Job("refund", "0")}, FALSE),
   Space({Job("capture", "true"), Job("refund", "3")}, FALSE),
   Space({Job("capture", "3")}, TRUE)}

Deployed(uses, capacity) ==
  [revision |-> "r1", bound |-> TRUE, uses |-> uses, capacity |-> capacity,
   depends |-> TRUE, postgres |-> TRUE]
TheDeployments == {Deployed(TRUE, 1), Deployed(FALSE, 1)}
PoolFacts == [revision |-> "r1", symbols |-> {"work"}, pools |-> [p \in {"pool"} |-> p], orders |-> <<>>]
ThePoolDocs ==
  {Batch(PoolFacts, "i1", <<[symbol |-> "work", revision |-> "r1", trace |-> "other",
                             start |-> 0, end |-> 4,
                             events |-> <<[pool |-> "pool", contract |-> "pool", wait |-> 2, at |-> 2]>>]>>)}
=============================================================================
