--------------------------- MODULE MCResponseReader ---------------------------
EXTENDS ResponseReader

PlainMessage == {[fields |-> <<"length">>, chunks |-> <<<<"d">>>>]}
=============================================================================
