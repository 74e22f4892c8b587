---------------------------- MODULE MCCanReader ----------------------------
EXTENDS CanReader
=============================================================================
