--------------------------- MODULE MCLogBackend ---------------------------
\* Two threads, one callback that is replaced by another, three descriptors.
EXTENDS LogBackend

CONSTANTS t1, t2, c1, c2

=============================================================================
