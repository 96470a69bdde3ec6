------------------------------ MODULE MCWatcher ------------------------------
(* Watcher on one or two threads and paths. *)
EXTENDS Watcher

CONSTANTS t1, t2, pA, pB

MCThreads == {t1, t2}
MCOneThread == {t1}
MCPaths == {pA, pB}
MCHandles == 1..3
\* Every version has its own modification time or size.
MCStampUnique == [v \in 1..MaxEdits |-> v]
=============================================================================
