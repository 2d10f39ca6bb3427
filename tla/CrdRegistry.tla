----------------------------- MODULE CrdRegistry -----------------------------
(***************************************************************************)
(* What the CRD init jobs promise about the CustomResourceDefinitions on a *)
(* cluster (the docstring of _process_crd in crd-init/crd-init.py): a CRD *)
(* that is missing may be created at one of the operators' versions, one  *)
(* that carries a version annotation may be replaced by a strictly newer  *)
(* one of those versions, and nothing else happens to it: no CRD is       *)
(* removed, downgraded, or replaced when its version cannot be read.      *)
(***************************************************************************)
EXTENDS Integers

CONSTANTS
    Crds,           \* the CRD objects
    Versions,       \* the versions the operators' local CRDs carry
    Unannotated,    \* the version of a CRD without the annotation
    InitialStates   \* what a CRD may be when the jobs start: [present, version]

VARIABLE registry   \* each CRD: [present, version]

\* Lexicographic order of major, minor and patch.
Newer(a, b) ==
    \/ a[1] > b[1]
    \/ a[1] = b[1] /\ a[2] > b[2]
    \/ a[1] = b[1] /\ a[2] = b[2] /\ a[3] > b[3]

Init == registry \in [Crds -> InitialStates]

Install(c, v) ==
    /\ ~registry[c].present
    /\ registry' = [registry EXCEPT ![c] = [present |-> TRUE, version |-> v]]

Upgrade(c, v) ==
    /\ registry[c].present
    /\ registry[c].version # Unannotated
    /\ Newer(v, registry[c].version)
    /\ registry' = [registry EXCEPT ![c].version = v]

Next == \E c \in Crds, v \in Versions : Install(c, v) \/ Upgrade(c, v)

Spec == Init /\ [][Next]_registry
=============================================================================
