------------------------- MODULE MCRuntimeObservation -------------------------
(* Two commands on one workspace and one port.  The first exports two requests *)
(* that touch for half a microsecond, the second replays an execution with     *)
(* other content beside a new one, and sends a payload without a binding.      *)
EXTENDS RuntimeObservation

MCCommands == {"one", "two"}

MCIncidents == {"slow checkout", "slow search"}
MCRevisions == {"r1", "r2"}
MCInitialWorkspace == [incident |-> "slow checkout", revision |-> "r1"]

MCPools == [primary |-> "contract"]
MCTarget == [primary |-> "postgres"]
MCSymbols == {"create", "pay"}

Checkout(wait, at) == [pool |-> "primary", contract |-> "contract", wait |-> wait, at |-> at]
Span(symbol, trace, start, end, events) ==
  [symbol |-> symbol, revision |-> "none", trace |-> trace, start |-> start, end |-> end,
   events |-> events]

Slow == Span("create", 1, 1, 7, <<Checkout(3, 2)>>)
Touching == Span("pay", 2, 7, 10, <<OtherEvent>>)
Meeting == Span("pay", 3, 6, 9, <<>>)
Replay == Span("create", 1, 2, 7, <<Checkout(3, 2)>>)
Unbound == Span(NoSymbol, 4, 0, 1, <<>>)

MCTraffic == [one |-> <<<<Slow, Touching>>, <<Meeting>>>>,
              two |-> <<<<Unbound>>, <<Replay, Meeting>>>>]

(* The second application is not instrumented.                                 *)
MCUnboundTraffic == [one |-> <<<<Slow, Touching>>>>, two |-> <<<<Unbound>>>>]
=============================================================================
