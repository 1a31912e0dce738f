--------------------------- MODULE MCAgentStorage ---------------------------
EXTENDS AgentStorage
=============================================================================
