---------------------------- MODULE MCEmailOutbox ----------------------------
\* Two mails and the dispatchers of the two applications, whose pass may hold
\* both rows.  A row is given up at the second attempt and may be requeued
\* once; one fault or stall may happen anywhere.
EXTENDS EmailOutbox
=============================================================================
