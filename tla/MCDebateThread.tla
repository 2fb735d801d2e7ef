--------------------------- MODULE MCDebateThread ---------------------------
EXTENDS DebateThread

OneAgent == << "critic" >>
MCCastLimits == << 2, 10 >>
=============================================================================
