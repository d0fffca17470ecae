----------------------------- MODULE MCAgentLoop -----------------------------
\* A small agent: a read, a write and a delegation, called alone, side by side
\* and in turn.
EXTENDS AgentLoop

CONSTANTS Read, Write, Delegate

MCBatches == {<<Read, Read>>, <<Delegate, Write>>}
MCReads   == {Read}
MCAgents  == {Delegate}
=============================================================================
