--------------------------- MODULE MCKnowledgeDesk ---------------------------
EXTENDS KnowledgeDesk
=============================================================================
