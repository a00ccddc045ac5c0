----------------------- MODULE MCPersonalAccessTokens -----------------------
EXTENDS PersonalAccessTokens, TLC

Symmetry == Permutations(Users) \cup Permutations(Pats) \cup Permutations(Calls)

=============================================================================
