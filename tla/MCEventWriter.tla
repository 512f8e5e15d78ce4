--------------------------- MODULE MCEventWriter ---------------------------
EXTENDS EventWriter
=============================================================================
