---------------------------- MODULE MCShareLink ----------------------------
EXTENDS ShareLink
=============================================================================
