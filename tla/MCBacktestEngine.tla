--------------------------- MODULE MCBacktestEngine --------------------------
EXTENDS BacktestEngine

CONSTANTS a, b

Quote(open, close) ==
  [open |-> open, close |-> close, suspended |-> FALSE, upLimit |-> FALSE, downLimit |-> FALSE]

\* A flat day and a rise; a suspended stock without a close, one at each limit, with a close
\* of 0 the lower, one that never opened.
Days == {Quote(2, 2), Quote(1, 3), [Quote(2, NoPrice) EXCEPT !.suspended = TRUE],
         [Quote(3, 3) EXCEPT !.upLimit = TRUE], [Quote(1, 0) EXCEPT !.downLimit = TRUE],
         Quote(NoPrice, 2)}

\* Weights given, left out and mixed; one target, both, and none.
Signalled == {[s \in {} |-> 0], [s \in {a} |-> 1], [s \in {b} |-> Unspecified],
              [s \in {a, b} |-> Unspecified], [s \in {a, b} |-> IF s = a THEN 1 ELSE Unspecified]}

Members == {{a, b}, {b}}

Of(n, w, mode, constraints, partial) ==
  [maxPositions |-> n, maxWeight |-> w, priceMode |-> mode,
   enableTradeConstraints |-> constraints, partialFillEnabled |-> partial,
   commissionRate |-> 1, minCommission |-> 1, stampDutyRate |-> 1, slippageBps |-> 1]

\* In the last one a small position costs more to sell than it brings.
Configs == {Of(2, 2, "NEXT_OPEN", TRUE, TRUE), Of(2, 1, "NEXT_CLOSE", TRUE, FALSE),
            Of(1, 2, "NEXT_OPEN", TRUE, TRUE), Of(2, 1, "NEXT_OPEN", FALSE, FALSE),
            [Of(2, 2, "NEXT_OPEN", TRUE, TRUE) EXCEPT !.minCommission = 12, !.stampDutyRate = 0]}
=============================================================================
