---------------------------- MODULE KafkaVersion ----------------------------
(***************************************************************************)
(* Version handling of monitoring/exec-scripts/kafka_metric.py.            *)
(*                                                                         *)
(* A version string "M.m.p" is a sequence of components, each a natural    *)
(* number or the wildcard "x" (written Wildcard, a value no natural        *)
(* number has, so that components stay integers for TLC).  The broker's    *)
(* inter.broker.protocol.version ("2.7-IV1", "0.10.2-IV0", "3.6") is a     *)
(* record of its numeric parts and whether a "-qualifier" follows them.  Python tuples of ints compare     *)
(* lexicographically, a proper prefix being the smaller.                   *)
(***************************************************************************)
EXTENDS Integers, Sequences

\* The component "x".
Wildcard == -1

\* The value "x" is replaced with before int(): v.replace("x", "99").
WildcardValue == 99

\* No version yet: min_broker_version = None.
NoVersion == <<>>

\* _get_kafka_version: the value up to the first '-', then '.x' appended.
GetKafkaVersion(ibp) == Append(ibp.parts, Wildcard)

\* _parse_version: every "x" component becomes 99, every part an int.
ParseVersion(v) == [i \in DOMAIN v |-> IF v[i] = Wildcard THEN WildcardValue ELSE v[i]]

\* Python's < on tuples of ints.
RECURSIVE TupleLess(_, _)
TupleLess(a, b) ==
    IF a = <<>> THEN b # <<>>
    ELSE IF b = <<>> THEN FALSE
    ELSE IF Head(a) # Head(b) THEN Head(a) < Head(b)
    ELSE TupleLess(Tail(a), Tail(b))

TupleLeq(a, b) == a = b \/ TupleLess(a, b)

\* Mutant: the upper bound compared strictly.
IsVersionCompatibleStrictMax(version, min_version, max_version) ==
    /\ TupleLeq(ParseVersion(min_version), ParseVersion(version))
    /\ TupleLess(ParseVersion(version), ParseVersion(max_version))

\* _is_version_compatible: min_version_parts <= version_parts <= max_version_parts
IsVersionCompatible(version, min_version, max_version) ==
    /\ TupleLeq(ParseVersion(min_version), ParseVersion(version))
    /\ TupleLeq(ParseVersion(version), ParseVersion(max_version))

\* Mutant: the loop keeps the newer of the two versions.
LowerVersionInverted(min_broker_version, kafka_version) ==
    IF \/ min_broker_version = NoVersion
       \/ TupleLess(ParseVersion(min_broker_version), ParseVersion(kafka_version))
    THEN kafka_version
    ELSE min_broker_version

\* One iteration of the loop of _collect_compatibility_metric: the broker's
\* version replaces the minimum so far when there is none or it is older.
LowerVersion(min_broker_version, kafka_version) ==
    IF \/ min_broker_version = NoVersion
       \/ TupleLess(ParseVersion(kafka_version), ParseVersion(min_broker_version))
    THEN kafka_version
    ELSE min_broker_version

\* The minimum over the brokers' versions, in the order they are listed.
RECURSIVE MinBrokerVersion(_, _)
MinBrokerVersion(min_broker_version, versions) ==
    IF versions = <<>> THEN min_broker_version
    ELSE MinBrokerVersion(LowerVersion(min_broker_version, Head(versions)), Tail(versions))
=============================================================================
