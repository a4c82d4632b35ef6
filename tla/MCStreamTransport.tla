--------------------------- MODULE MCStreamTransport ---------------------------
\* StreamTransport with three threads and two reasons to fail.
EXTENDS StreamTransport

CONSTANTS t1, t2, t3, e1, e2

MCThreads == {t1, t2, t3}
MCErrors == {e1, e2}
=============================================================================
