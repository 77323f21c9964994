----------------------------- MODULE MCRotation -----------------------------
(* Instances of Rotation for TLC.                                          *)
EXTENDS Rotation, TLC

\* Workers, jobs and credentials are interchangeable.
MCSymmetry == Permutations(Worker) \cup Permutations(Job) \cup Permutations(Credential)
=============================================================================
