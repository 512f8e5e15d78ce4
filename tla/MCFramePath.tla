---------------------------- MODULE MCFramePath ----------------------------
EXTENDS FramePath
=============================================================================
