----------------------------- MODULE MCCrdInit -----------------------------
(***************************************************************************)
(* Three operator installations upgrade the CRDs at once; their local     *)
(* copies differ in the minor and in the patch part of the version.       *)
(***************************************************************************)
EXTENDS CrdInit

MCLocalVersion == <<<<1, 0, 9>>, <<1, 1, 0>>, <<1, 1, 2>>>>

MCFiles == <<"kafka", "kafka-services">>

\* Missing, unannotated, or at any of the jobs' versions.
AnyCrd == CrdStates({MCLocalVersion[j] : j \in DOMAIN MCLocalVersion})

\* A fresh cluster: no job has installed the CRD yet.
NoCrd == {Absent}
=============================================================================
