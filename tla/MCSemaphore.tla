----------------------------- MODULE MCSemaphore -----------------------------
EXTENDS Semaphore

\* Numbers of different magnitude and sign, so that a lost, repeated or stale
\* one shows in the total.
TypedNumbers == {-1, 2, 7}
=============================================================================
