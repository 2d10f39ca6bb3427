------------------------- MODULE MCMetricFunctions -------------------------
(***************************************************************************)
(* Checks the pure functions of monitoring/exec-scripts/kafka_metric.py    *)
(* against the specification: the version operators of KafkaVersion        *)
(* (section 4.4: lexicographic comparison, "x" a sentinel larger than      *)
(* every real component, the cluster version the oldest broker's) and     *)
(* _check_config_consistency (section 4.2: brokers agree on every key      *)
(* that is not exempt, whatever their order).  Init picks one input, a     *)
(* single step evaluates the code's function on it.                        *)
(***************************************************************************)
EXTENDS KafkaVersion, ConfigConsistency, FiniteSets

CONSTANTS
    Components,     \* the numeric components versions are built from
    IbpParts,       \* the numeric parts of inter.broker.protocol.version values
    Configs,        \* the broker configurations a list is built from
    MaxBrokers,     \* the longest list of configurations
    Reports         \* the describe_configs reports a broker may give

VARIABLES
    input,
    result      \* [done, compatible, version, verdict]: what the evaluation returned

vars == <<input, result>>

Triples == [1..3 -> Components \cup {Wildcard}]

\* Inputs of _is_version_compatible(version, MIN_VERSION, MAX_VERSION).
CompatInputs == [kind : {"compat"}, version : Triples, min : Triples, max : Triples]

\* Per-broker inter.broker.protocol.version values, one to three brokers.
Ibps == [parts : IbpParts, qualified : BOOLEAN]
MinInputs == [kind : {"min"}, ibps : UNION {[1..n -> Ibps] : n \in 1..3}]

\* Inputs of _check_config_consistency: broker_configs_list.
Lists == UNION {[1..n -> Configs] : n \in 0..MaxBrokers}
ConsistencyInputs == [kind : {"consistency"}, list : Lists]

\* The pool's configurations, one describe_configs report per broker.
BrokersInputs == [kind : {"brokers"}, reports : UNION {[1..n -> Reports] : n \in 1..MaxBrokers}]

Pending == [kind |-> "pending"]

Init ==
    /\ input \in CompatInputs \cup MinInputs \cup ConsistencyInputs \cup BrokersInputs
    /\ result = [done |-> FALSE, compatible |-> FALSE, version |-> NoVersion,
                 verdict |-> Pending]

EvaluateCompat ==
    /\ input.kind = "compat"
    /\ ~result.done
    /\ result' = [result EXCEPT !.done = TRUE,
                   !.compatible = IsVersionCompatible(input.version, input.min, input.max)]
    /\ UNCHANGED input

EvaluateMin ==
    /\ input.kind = "min"
    /\ ~result.done
    /\ result' = [result EXCEPT !.done = TRUE,
                   !.version = MinBrokerVersion(NoVersion,
                      [i \in DOMAIN input.ibps |-> GetKafkaVersion(input.ibps[i])])]
    /\ UNCHANGED input

EvaluateConsistency ==
    /\ input.kind = "consistency"
    /\ ~result.done
    /\ result' = [result EXCEPT !.done = TRUE,
                   !.verdict = CheckConfigConsistency(input.list)]
    /\ UNCHANGED input

\* _get_broker_configs of every broker, then _check_config_consistency of
\* the results, as _collect_metrics does with the pool's answers.
EvaluateBrokers ==
    /\ input.kind = "brokers"
    /\ ~result.done
    /\ result' = [result EXCEPT !.done = TRUE,
                   !.verdict = CheckConfigConsistency(
                       [i \in DOMAIN input.reports |-> GetBrokerConfigs(input.reports[i])])]
    /\ UNCHANGED input

Next == EvaluateCompat \/ EvaluateMin \/ EvaluateConsistency \/ EvaluateBrokers

Spec == Init /\ [][Next]_vars

\* Protocol versions of releases since 1.0: two numeric parts.
ReleaseIbpParts == {<<2, 8>>, <<3, 0>>, <<3, 6>>}

\* Keys a and b (compared), listeners (exempt); every broker reports all.
SameKeysConfigs == [{"a", "b", "listeners"} -> {"v1", "v2"}]

\* A rolling upgrade: upgraded brokers also report the new key c.
UpgradeConfigs ==
    [{"a", "listeners"} -> {"v1"}] \cup [{"a", "c", "listeners"} -> {"v1", "v2"}]

\* describe_configs reports: the compared key a, the four per-broker keys.
BrokerReports ==
    [{"a", "broker.id", "log.dirs", "advertised.listeners", "broker.rack"} -> {"v1", "v2"}]

MCKeyOrder == <<"a", "advertised.listeners", "b", "broker.id", "broker.rack", "c",
                "listeners", "log.dirs">>

----------------------------------------------------------------------------
(* The references: sections 4.4 and 4.2 of the specification.             *)

Sentinel == 1 + CHOOSE c \in Components : \A d \in Components : d <= c

SpecValue(c) == IF c = Wildcard THEN Sentinel ELSE c

SpecLeq(a, b) ==
    \/ SpecValue(a[1]) < SpecValue(b[1])
    \/ /\ SpecValue(a[1]) = SpecValue(b[1])
       /\ \/ SpecValue(a[2]) < SpecValue(b[2])
          \/ SpecValue(a[2]) = SpecValue(b[2]) /\ SpecValue(a[3]) <= SpecValue(b[3])

SpecCompatible(v, lo, hi) == SpecLeq(lo, v) /\ SpecLeq(v, hi)

Agree(c1, c2) ==
    \A k \in (DOMAIN c1 \cup DOMAIN c2) \ ALLOWED_DIFFERENT_CONFIGS :
        k \in DOMAIN c1 /\ k \in DOMAIN c2 /\ c1[k] = c2[k]

SpecConsistent(list) == \A i, j \in DOMAIN list : Agree(list[i], list[j])

Verdict == result.verdict

\* The verdict of _is_version_compatible is the specification's containment
\* min <= version <= max, wildcards in the bounds or in the version included.
CompatibleMatchesSpec ==
    input.kind = "compat" /\ result.done =>
        result.compatible = SpecCompatible(input.version, input.min, input.max)

\* The version the compatibility line reports (_collect_compatibility_metric)
\* is one of the brokers' versions and no broker's is older.
MinVersionIsOldest ==
    input.kind = "min" /\ result.done =>
        LET versions == {GetKafkaVersion(input.ibps[i]) : i \in DOMAIN input.ibps}
        IN  /\ result.version \in versions
            /\ \A v \in versions : SpecLeq(result.version, v)

\* "Yes" is reported exactly when all brokers' configurations agree on
\* every key that is not exempt (_check_config_consistency's verdict).
VerdictMatchesSpec ==
    input.kind = "consistency" /\ result.done /\ input.list # <<>> =>
        (Verdict = Yes <=> SpecConsistent(input.list))

\* The comparison never raises: it returns a verdict for any brokers.
NeverRaises == Verdict.kind # "KeyError"

\* A divergence reports the first broker that differs from the first one
\* on a compared key, the first such key in the broker's order, and the
\* values of the two brokers.
DivergenceIsFirst ==
    input.kind = "consistency" /\ Verdict.kind = "No" =>
        LET list == input.list
            differs(j) == ~Agree(list[1], list[j])
            j == CHOOSE j \in 2..Len(list) :
                    differs(j) /\ \A i \in 2..(j - 1) : ~differs(i)
            keys == {k \in DOMAIN list[1] \ ALLOWED_DIFFERENT_CONFIGS :
                        list[1][k] # list[j][k]}
            k == CHOOSE k \in keys : \A l \in keys :
                    \E a, b \in DOMAIN KeyOrder : KeyOrder[a] = k /\ KeyOrder[b] = l /\ a <= b
        IN  Verdict = No(k, list[1][k], list[j][k])
=============================================================================
