--------------------------- MODULE MCRemoteAttempt ---------------------------
(* All attempts are for one job: a second one is made when the lease offer of the
   first was rejected, or by a dispatch that overlaps it. *)
EXTENDS RemoteAttempt, TLC

CONSTANTS theJob

MCJobs == {theJob}
MCJobOf == [a \in Attempts |-> theJob]
Interchangeable == Permutations(Attempts)
=============================================================================
