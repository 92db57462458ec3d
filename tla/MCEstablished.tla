---------------------------- MODULE MCEstablished ----------------------------
(* EstablishedConnection with interchangeable application threads. *)
EXTENDS EstablishedConnection, TLC

AppSymmetry == Permutations(AppThreads)

=============================================================================
