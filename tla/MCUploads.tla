------------------------------ MODULE MCUploads ------------------------------
(* Small instances of Uploads for TLC.                                      *)
EXTENDS Uploads, TLC

\* Candidates, contents and runs are interchangeable.
Interchangeable ==
    Permutations(Candidate) \cup Permutations(Content) \cup Permutations(Run)
=============================================================================
