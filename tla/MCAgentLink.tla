---------------------------- MODULE MCAgentLink ----------------------------
EXTENDS AgentLink
=============================================================================
