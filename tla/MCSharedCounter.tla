--------------------------- MODULE MCSharedCounter ---------------------------
(***************************************************************************)
(* The programs that take a lock, for TLC.                                 *)
(***************************************************************************)
EXTENDS SharedCounter

LockingPrograms == {mutex_c, SyncCS_win, SyncMutex_win}
=============================================================================
