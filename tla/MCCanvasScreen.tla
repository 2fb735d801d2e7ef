--------------------------- MODULE MCCanvasScreen ---------------------------
EXTENDS CanvasScreen, TLC

Symmetry == Permutations(Apps) \cup Permutations(Threads)
=============================================================================
