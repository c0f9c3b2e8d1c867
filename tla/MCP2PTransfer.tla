---------------------------- MODULE MCP2PTransfer ----------------------------
EXTENDS P2PTransfer

Scenario(bytes, value, renames, access, budget) ==
  [size |-> [f \in Files |-> bytes], value |-> value, renames |-> renames,
   granted |-> access, faults |-> budget]

\* One stream that must ask for access; one stream that may be denied a write and
\* retries; two streams with a failure; two that wait for access; two of which one
\* gets nothing to send, because both files are empty.
MCScenarios ==
  {Scenario(1, 1, FALSE, "none", 1), Scenario(1, 1, TRUE, "direct", 2),
   Scenario(1, 2, FALSE, "saf", 1), Scenario(1, 2, TRUE, "none", 0),
   Scenario(0, 2, TRUE, "direct", 0)}
===============================================================================
