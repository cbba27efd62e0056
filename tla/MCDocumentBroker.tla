------------------------- MODULE MCDocumentBroker -------------------------
EXTENDS DocumentBroker
=============================================================================
