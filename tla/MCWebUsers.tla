----------------------------- MODULE MCWebUsers -----------------------------
EXTENDS WebUsers, TLC

\* The browsers do not differ from one another.
Symmetry == Permutations(Browser)
=============================================================================
