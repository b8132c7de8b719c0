------------------------- MODULE MCHttpServerLifecycle -------------------------
EXTENDS HttpServerLifecycle
=============================================================================
