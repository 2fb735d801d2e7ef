--------------------------- MODULE MCAuthSession ---------------------------
EXTENDS AuthSession
=============================================================================
