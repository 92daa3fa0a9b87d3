------------------------- MODULE MCAsyncGeneration -------------------------
EXTENDS AsyncGeneration, TLC

\* The texts of the provider may be renamed.
Symmetry == Permutations(Texts)
=============================================================================
