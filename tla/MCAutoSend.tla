------------------------------ MODULE MCAutoSend ------------------------------
EXTENDS AutoSend

=============================================================================
