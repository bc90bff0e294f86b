--------------------------- MODULE MCRemoteAdapter ---------------------------
\* Two cases, two retries each.
EXTENDS RemoteAdapter

MCRetryAfters == {0, 1, 5}
=============================================================================
