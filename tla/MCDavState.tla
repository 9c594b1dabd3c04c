------------------------------ MODULE MCDavState ------------------------------
\* Two collections that may come and go, two names.
EXTENDS DavState
Href2 == 1..2
Name2 == 1..2
Forwards == {<<1, 2>>}
BothWays == {<<1, 2>>, <<2, 1>>}
=============================================================================
