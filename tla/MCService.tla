------------------------------ MODULE MCService ------------------------------
EXTENDS Service

CONSTANT OneBrowser

SharedJar == [t \in Tabs |-> OneBrowser]

BothRoles == {{"user", "admin"}}

BothOrNone == BothRoles \cup {{}}

=============================================================================
