---------------------------- MODULE MCPopForward ----------------------------
EXTENDS PopForward
=============================================================================
