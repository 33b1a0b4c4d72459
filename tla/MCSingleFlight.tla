--------------------------- MODULE MCSingleFlight ---------------------------
(***************************************************************************)
(* Three threads of one worker over two designations.  A thread refers to  *)
(* one lock at most, so as many locks as threads never run out.            *)
(***************************************************************************)
EXTENDS SingleFlight
CONSTANTS t1, t2, t3, d1, d2, l1, l2, l3
MCThreads == {t1, t2, t3}
MCDesignations == {d1, d2}
MCLocks == {l1, l2, l3}
=============================================================================
