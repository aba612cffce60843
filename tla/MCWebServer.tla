----------------------------- MODULE MCWebServer -----------------------------
\* WebServer on its own, for what the comment on Close promises.
EXTENDS WebServer

\* All connections have come to the same address and port.
OneAddress == [c \in HttpConn |-> "server"]
=============================================================================
