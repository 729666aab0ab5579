------------------------------- MODULE MCDPipe ------------------------------
EXTENDS DPipe
=============================================================================
