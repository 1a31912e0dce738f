------------------------- MODULE MCSubmissionCapture -------------------------
(* Requests are interchangeable: all of them retry one idempotency key. *)
EXTENDS SubmissionCapture, TLC

CONSTANTS key

MCKeys == {key}
MCKeyOf == [r \in Requests |-> key]
Interchangeable == Permutations(Requests)
=============================================================================
