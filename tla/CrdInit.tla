------------------------------- MODULE CrdInit -------------------------------
(***************************************************************************)
(* The CRD init job of crd-init/crd-init.py, run by several jobs at once: *)
(* a CustomResourceDefinition is cluster-scoped, so every installation of *)
(* the operator, each in its own namespace and with its own local copies  *)
(* of the CRDs, reads and writes the same objects.                         *)
(*                                                                         *)
(* A job walks the files of ./crds in order and processes those whose     *)
(* name occurs in CRDS_TO_CREATE: it loads the file (a file that is not a *)
(* CustomResourceDefinition ends the job with exit(1)), gets the CRD from *)
(* the API server (_load_crd), compares the version annotations           *)
(* (compare_crd_versions), then creates the CRD, replaces it carrying the *)
(* resourceVersion it read, or leaves it.  The API server rejects a create *)
(* of an existing object and a replace whose resourceVersion is not the   *)
(* current one.  An exception while a file is processed is swallowed when *)
(* IGNORE_CRD_FAILURE and the walk goes on, else the job exits 1.  The     *)
(* rewrite of the API group in the file and the wait after an upgrade do  *)
(* not change what the jobs send.                                          *)
(***************************************************************************)
EXTENDS Integers, Sequences, FiniteSets, SequencesExt

CONSTANTS
    Jobs,               \* concurrent CRD init jobs
    Files,              \* the files of ./crds in os.walk order, one CRD each
    LocalVersion,       \* each job's local CRD version annotation, a triple
    IgnoreCrdFailureEnv, \* os.getenv("IGNORE_CRD_FAILURE"): a string, or Unset
    Unset,              \* os.getenv of a variable that is not set (None)
    InitialCrds,        \* what the cluster may hold for a CRD when the jobs start
    Kinds               \* what the files of ./crds may be, a subset of FileKinds

VARIABLES
    listed,     \* the files whose name occurs in CRDS_TO_CREATE
    kind,       \* per file: "crd", "not_crd" (fails _validate), "unannotated"
    crd,        \* per CRD on the cluster: [present, version, rv]
    jpc,        \* per job: "walk", "load", "create", "replace", "done", "failed"
    jfile,      \* per job: the position of its file in Files
    loaded      \* per job: the CRD its get returned

vars == <<listed, kind, crd, jpc, jfile, loaded>>

\* A CRD without the crd.<group>/version annotation.
Unannotated == <<>>

Absent == [present |-> FALSE, version |-> Unannotated, rv |-> 0]

\* The API server's view of an object the jobs compete for.
CrdStates(versions) ==
    {Absent} \cup [present : {TRUE}, version : versions \cup {Unannotated}, rv : {1}]

\* str2bool: only "true" and "false" convert, any other value gives the default.
Str2Bool(value, default) ==
    IF value = "true" THEN TRUE ELSE IF value = "false" THEN FALSE ELSE default

IGNORE_CRD_FAILURE ==
    Str2Bool(IF IgnoreCrdFailureEnv = Unset THEN "true" ELSE IgnoreCrdFailureEnv, TRUE)

\* What CRD() makes of a file: a CustomResourceDefinition with the version
\* annotation, one _validate rejects, or one without the annotation.
FileKinds == {"crd", "not_crd", "unannotated"}

ASSUME Kinds \subseteq FileKinds

Init ==
    /\ listed \in SUBSET ToSet(Files)
    /\ kind \in [ToSet(Files) -> Kinds]
    /\ crd \in [ToSet(Files) -> InitialCrds]
    /\ jpc = [j \in Jobs |-> "walk"]
    /\ jfile = [j \in Jobs |-> 1]
    /\ loaded = [j \in Jobs |-> Absent]

----------------------------------------------------------------------------
(* Versions.                                                               *)

\* _compare_version_part: 1 when the left part is the smaller.
CompareVersionPart(left_part, right_part) ==
    IF left_part < right_part THEN 1
    ELSE IF left_part > right_part THEN -1
    ELSE 0

\* Mutant: the remote version is passed as the left one.
CompareCrdVersionsSwapped(left_version, right_version) ==
    LET c(i) == CompareVersionPart(right_version[i], left_version[i])
    IN  IF c(1) # 0 THEN c(1) ELSE IF c(2) # 0 THEN c(2) ELSE c(3)

\* compare_crd_versions: the first part that differs decides; 1 means the
\* right (remote) version is newer, -1 the left (local) one.
CompareCrdVersions(left_version, right_version) ==
    LET c(i) == CompareVersionPart(left_version[i], right_version[i])
    IN  IF c(1) # 0 THEN c(1) ELSE IF c(2) # 0 THEN c(2) ELSE c(3)

----------------------------------------------------------------------------
(* One job.                                                                *)

File(j) == Files[jfile[j]]

\* The walk goes on with the next file.
Advance(j) ==
    /\ jpc' = [jpc EXCEPT ![j] = "walk"]
    /\ jfile' = [jfile EXCEPT ![j] = @ + 1]

\* The except clause of run: continue with the next file, or exit(1).
Failure(j) ==
    IF IGNORE_CRD_FAILURE
    THEN Advance(j)
    ELSE /\ jpc' = [jpc EXCEPT ![j] = "failed"]
         /\ UNCHANGED jfile

\* The loop of run over the files, and the loading of a selected file by
\* CRD(): exit(1) of a file _validate rejects is a SystemExit, which the
\* except Exception clause does not catch; a local CRD without the version
\* annotation raises KeyError in _extract_metadata.
Walk(j) ==
    /\ jpc[j] = "walk"
    /\ IF jfile[j] > Len(Files)
       THEN /\ jpc' = [jpc EXCEPT ![j] = "done"]
            /\ UNCHANGED jfile
       ELSE CASE File(j) \notin listed -> Advance(j)
              [] kind[File(j)] = "not_crd" ->
                    /\ jpc' = [jpc EXCEPT ![j] = "failed"]
                    /\ UNCHANGED jfile
              [] kind[File(j)] = "unannotated" -> Failure(j)
              [] OTHER ->
                    /\ jpc' = [jpc EXCEPT ![j] = "load"]
                    /\ UNCHANGED jfile
    /\ UNCHANGED <<listed, kind, crd, loaded>>

\* _load_crd, then the comparison of _process_crd; a CRD on the cluster
\* without the annotation raises KeyError.
LoadCrd(j) ==
    LET c == crd[File(j)]
    IN  /\ jpc[j] = "load"
        /\ loaded' = [loaded EXCEPT ![j] = c]
        /\ CASE ~c.present -> jpc' = [jpc EXCEPT ![j] = "create"] /\ UNCHANGED jfile
             [] c.version = Unannotated -> Failure(j)
             [] CompareCrdVersions(LocalVersion[j], c.version) = -1 ->
                    jpc' = [jpc EXCEPT ![j] = "replace"] /\ UNCHANGED jfile
             [] OTHER -> Advance(j)
        /\ UNCHANGED <<listed, kind, crd>>

\* crd_api.create: AlreadyExists when another job created it meanwhile.
Create(j) ==
    LET f == File(j)
    IN  /\ jpc[j] = "create"
        /\ IF ~crd[f].present
           THEN /\ crd' = [crd EXCEPT ![f] = [present |-> TRUE, version |-> LocalVersion[j],
                                               rv |-> @.rv + 1]]
                /\ Advance(j)
           ELSE /\ Failure(j)
                /\ UNCHANGED crd
        /\ UNCHANGED <<listed, kind, loaded>>

\* Mutant: the body carries no resourceVersion, the replace always applies.
ReplaceUnconditional(j) ==
    LET f == File(j)
    IN  /\ jpc[j] = "replace"
        /\ crd' = [crd EXCEPT ![f].version = LocalVersion[j], ![f].rv = @ + 1]
        /\ Advance(j)
        /\ UNCHANGED <<listed, kind, loaded>>

\* crd_api.replace with the resourceVersion read by _load_crd: Conflict
\* when another job wrote the CRD since.
Replace(j) ==
    LET f == File(j)
    IN  /\ jpc[j] = "replace"
        /\ IF crd[f].rv = loaded[j].rv
           THEN /\ crd' = [crd EXCEPT ![f].version = LocalVersion[j], ![f].rv = @ + 1]
                /\ Advance(j)
           ELSE /\ Failure(j)
                /\ UNCHANGED crd
        /\ UNCHANGED <<listed, kind, loaded>>

Next == \E j \in Jobs : Walk(j) \/ LoadCrd(j) \/ Create(j) \/ Replace(j)

\* Each job runs in its own pod: a step it can take is taken.
Spec == Init /\ [][Next]_vars /\ \A j \in Jobs : WF_vars(Walk(j) \/ LoadCrd(j) \/ Create(j) \/ Replace(j))

----------------------------------------------------------------------------
(* Properties.                                                             *)

VersionLeq(a, b) ==
    \/ a = b
    \/ a[1] < b[1]
    \/ a[1] = b[1] /\ a[2] < b[2]
    \/ a[1] = b[1] /\ a[2] = b[2] /\ a[3] < b[3]

TypeOK ==
    /\ \A f \in DOMAIN crd :
          crd[f] \in {Absent} \cup [present : {TRUE},
                                   version : {LocalVersion[j] : j \in Jobs} \cup {Unannotated},
                                   rv : 1..(Cardinality(Jobs) + 1)]
    /\ jpc \in [Jobs -> {"walk", "load", "create", "replace", "done", "failed"}]
    /\ jfile \in [Jobs -> 1..(Len(Files) + 1)]

Registry == INSTANCE CrdRegistry WITH
    Crds <- ToSet(Files),
    Versions <- {LocalVersion[j] : j \in Jobs},
    InitialStates <- {[present |-> s.present, version |-> s.version] : s \in InitialCrds},
    registry <- [f \in DOMAIN crd |-> [present |-> crd[f].present, version |-> crd[f].version]]

\* However the jobs' gets, creates and replaces interleave, the CRDs on the
\* cluster change only as CrdRegistry allows (what _process_crd promises):
\* a missing CRD is created, an annotated one is replaced by a strictly
\* newer version, and none is removed or downgraded.
RegistrySpec == Registry!Spec

\* When every job has walked all files without error, each listed CRD on
\* the cluster is at least as new as every job's local copy (the upgrade
\* _process_crd promises: create when missing, replace when older).
NewestWhenAllSucceeded ==
    (\A j \in Jobs : jpc[j] = "done") =>
        \A f \in listed :
            /\ crd[f].present
            /\ crd[f].version # Unannotated
            /\ \A j \in Jobs : VersionLeq(LocalVersion[j], crd[f].version)
=============================================================================
