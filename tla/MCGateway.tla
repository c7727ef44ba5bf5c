------------------------------ MODULE MCGateway ------------------------------
\* One tab of one user, who may want both symbols although one is the limit:
\* then its socket is closed again and again, besides the one link that may
\* break anywhere.  Two slots hold the connections, of which one may leak.
EXTENDS Gateway, TLC

CONSTANTS tab, user

MCUserOf == tab :> user
=============================================================================
