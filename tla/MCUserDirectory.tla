--------------------------- MODULE MCUserDirectory ---------------------------
EXTENDS UserDirectory, TLC

Symmetry ==
    Permutations(Users) \cup Permutations(Handlers)
        \cup Permutations(Identities \ BlankIdentities)

PlainRoles == {{"user"}, {"user", "admin"}}
AllRoles == PlainRoles \cup {{}}

=============================================================================
