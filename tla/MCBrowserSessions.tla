-------------------------- MODULE MCBrowserSessions --------------------------
EXTENDS BrowserSessions, TLC

CONSTANT OneBrowser

\* Two tabs of one browser share its cookie.
SharedJar == [t \in Tabs |-> OneBrowser]

Symmetry == Permutations(Tabs) \cup Permutations(Tokens)

=============================================================================
