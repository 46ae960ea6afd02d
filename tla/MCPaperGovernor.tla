--------------------------- MODULE MCPaperGovernor ---------------------------
\* Accounts of 40 with the default fractions: 5 % a day, 12 % a week and 10 %
\* of drawdown; the second strategy of a portfolio may lose 3 a day.
EXTENDS PaperGovernor

CONSTANTS A, B

One == {A}
Both == {A, B}
MCStake == [s \in Strategies |-> 40]
MCDailyLimit == [s \in Strategies |-> IF s = A THEN 2 ELSE 3]
MCWeeklyLimit == [s \in Strategies |-> 5]
MCDrawdownPct == [s \in Strategies |-> 10]
MCSmallestMargin == [s \in Strategies |-> 10]
MCGains == {-3, -1, 2}
MCFundings == {-1, 0}
NoFundings == {0}
=============================================================================
