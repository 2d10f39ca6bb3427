----------------------------- MODULE HealthPass -----------------------------
(***************************************************************************)
(* One run of monitoring/exec-scripts/kafka_metric.py (_collect_metrics)   *)
(* against a live cluster whose brokers stop, restart with another         *)
(* configuration, register and deregister while the run is in progress.    *)
(*                                                                         *)
(* The main thread creates the admin client, lists the brokers             *)
(* (describe_cluster), asks the first for its quorum mode (_is_kraft),     *)
(* fans the per-broker fetches out to a thread pool and joins it, builds   *)
(* the kafka_cluster line, then lists the brokers again and fetches each   *)
(* one's configuration in turn for the compatibility line.  A request to   *)
(* a broker that is down raises or never returns: nothing in the script    *)
(* bounds it (KAFKA_TIMEOUT is parsed and never used).                     *)
(***************************************************************************)
EXTENDS Integers, Sequences, SequencesExt, FiniteSets, KafkaVersion

CONSTANTS
    Brokers,                    \* broker ids
    BrokerConfigs,              \* configurations a broker may run with
    EnvInputs,                  \* the environments the script may start in
    Unset,                      \* os.getenv of a variable that is not set (None)
    MIN_VERSION, MAX_VERSION,   \* declared compatibility range
    ALLOWED_DIFFERENT_CONFIGS,  \* keys exempt from the consistency check
    KeyOrder,                   \* the order brokers list their keys in
    MaxEnvSteps                 \* bound on broker stops, starts, (de)registrations

CC == INSTANCE ConfigConsistency

IBP == "inter.broker.protocol.version"
VOTERS == "controller.quorum.voters"

VARIABLES
    KAFKA_TOTAL_BROKERS_COUNT,  \* the globals run() assigns: the expected
    KRAFT_ENABLED,              \* broker count and the declared quorum mode
    collecting,     \* history: run() got past its environment reads
    alive,          \* broker processes that are up and answer requests
    registered,     \* brokers describe_cluster lists
    conf,           \* each broker's current configuration
    envSteps,       \* cluster changes so far
    pc,             \* main thread
    adminClient,    \* _create_admin_client returned a client
    brokerIds,      \* broker_ids, in the order describe_cluster listed them
    isKraft,        \* is_kraft_enabled
    worker,         \* per broker: "none", "pending", "ok", "failed", "hung"
    fetched,        \* per broker: the configuration its worker read
    line1,          \* the kafka_cluster line, once built
    compatIds,      \* broker_ids of _collect_compatibility_metric
    compatIdx,      \* its loop index
    minBrokerVersion,
    compat          \* the compatibility line, once built

envVars == <<alive, registered, conf, envSteps>>
passVars == <<KAFKA_TOTAL_BROKERS_COUNT, KRAFT_ENABLED, collecting, pc, adminClient, brokerIds, isKraft, worker, fetched, line1,
              compatIds, compatIdx, minBrokerVersion, compat>>
vars == <<envVars, passVars>>

NoConfig == [k \in {} |-> "none"]
NoLine == [built |-> FALSE]

\* A request to a broker that is down raises, or blocks forever.
Unanswered == {"crashed", "hung"}

\* The orders describe_cluster may list the registered brokers in.
Listings == SetToSeqs(registered)

Init ==
    /\ alive \in SUBSET Brokers
    /\ registered = alive
    /\ conf \in [Brokers -> BrokerConfigs]
    /\ envSteps = 0
    /\ KAFKA_TOTAL_BROKERS_COUNT = 0
    /\ KRAFT_ENABLED = FALSE
    /\ collecting = FALSE
    /\ pc = "start"
    /\ adminClient = FALSE
    /\ brokerIds = <<>>
    /\ isKraft = FALSE
    /\ worker = [b \in Brokers |-> "none"]
    /\ fetched = [b \in Brokers |-> NoConfig]
    /\ line1 = NoLine
    /\ compatIds = <<>>
    /\ compatIdx = 1
    /\ minBrokerVersion = NoVersion
    /\ compat = NoLine

----------------------------------------------------------------------------
(* The cluster.                                                            *)

EnvStep == envSteps < MaxEnvSteps /\ envSteps' = envSteps + 1

BrokerStop(b) ==
    /\ EnvStep
    /\ b \in alive
    /\ alive' = alive \ {b}
    /\ UNCHANGED <<registered, conf, passVars>>

\* A broker restarts, possibly upgraded or reconfigured.
BrokerStart(b, c) ==
    /\ EnvStep
    /\ b \notin alive
    /\ alive' = alive \cup {b}
    /\ conf' = [conf EXCEPT ![b] = c]
    /\ UNCHANGED <<registered, passVars>>

Register(b) ==
    /\ EnvStep
    /\ b \in alive \ registered
    /\ registered' = registered \cup {b}
    /\ UNCHANGED <<alive, conf, passVars>>

\* The controller drops a stopped broker once its session expires.
Deregister(b) ==
    /\ EnvStep
    /\ b \in registered \ alive
    /\ registered' = registered \ {b}
    /\ UNCHANGED <<alive, conf, passVars>>

----------------------------------------------------------------------------
(* The script.                                                             *)

\* An environment value is Unset or a sequence of characters.
Getenv(v, default) == IF v = Unset THEN default ELSE v

DigitValue == "0" :> 0 @@ "1" :> 1 @@ "2" :> 2 @@ "3" :> 3 @@ "4" :> 4 @@
              "5" :> 5 @@ "6" :> 6 @@ "7" :> 7 @@ "8" :> 8 @@ "9" :> 9

IsDigits(s) == s # <<>> /\ \A i \in DOMAIN s : s[i] \in DOMAIN DigitValue

Decimal(s) == FoldLeft(LAMBDA acc, c : 10 * acc + DigitValue[c], 0, s)

\* str.strip() of the blanks around a value.
Strip(s) ==
    LET kept == {i \in DOMAIN s : s[i] # " "}
    IN  IF kept = {} THEN <<>> ELSE SubSeq(s, Min(kept), Max(kept))

\* The leading run of digits: re.compile("(\d+)").match(s).group(1), or
\* <<>> where match returns None.
LeadingDigits(s) ==
    LET others == {i \in DOMAIN s : s[i] \notin DOMAIN DigitValue}
    IN  IF others = {} THEN s ELSE SubSeq(s, 1, Min(others) - 1)

\* str.lower() of the letters the accepted words are spelt with.
LowerCase == "Y" :> "y" @@ "E" :> "e" @@ "S" :> "s" @@ "T" :> "t" @@
             "R" :> "r" @@ "U" :> "u" @@ "F" :> "f" @@ "A" :> "a" @@ "L" :> "l"

Lower(s) == [i \in DOMAIN s |-> IF s[i] \in DOMAIN LowerCase THEN LowerCase[s[i]] ELSE s[i]]

\* _str2bool.
Str2Bool(v) == Lower(v) \in {<<"y", "e", "s">>, <<"t", "r", "u", "e">>, <<"t">>, <<"1">>}

\* run() reads its environment before _collect_metrics: int() of an unset
\* KAFKA_TOTAL_BROKERS_COUNT raises TypeError, of a non-number ValueError;
\* a KAFKA_EXEC_PLUGIN_TIMEOUT that does not start with a digit makes
\* match() return None and .group raise AttributeError.  run re-raises.
Start ==
    /\ pc = "start"
    /\ \E e \in EnvInputs :
          LET count == e.KAFKA_TOTAL_BROKERS_COUNT
              countOk == count # Unset /\ IsDigits(Strip(count))
              timeout == Getenv(e.KAFKA_EXEC_PLUGIN_TIMEOUT, <<"6", "0", "s">>)
          IN  /\ KRAFT_ENABLED' = Str2Bool(Getenv(e.KRAFT_ENABLED, <<"f", "a", "l", "s", "e">>))
              /\ KAFKA_TOTAL_BROKERS_COUNT' = IF countOk THEN Decimal(Strip(count))
                                              ELSE KAFKA_TOTAL_BROKERS_COUNT
              /\ collecting' = (countOk /\ LeadingDigits(timeout) # <<>>)
              /\ pc' = IF collecting' THEN "create" ELSE "crashed"
    /\ UNCHANGED <<envVars, adminClient, brokerIds, isKraft, worker, fetched, line1,
                   compatIds, compatIdx, minBrokerVersion, compat>>

\* Mutant: the status compares with <=, so a full cluster is DEGRADED.
DetermineClusterStatusLeq(active_brokers) ==
    IF active_brokers = <<>> THEN 10
    ELSE IF Len(active_brokers) <= KAFKA_TOTAL_BROKERS_COUNT THEN 6
    ELSE 0

\* _determine_cluster_status_simple: 0 UP, 6 DEGRADED, 10 DOWN.
DetermineClusterStatus(active_brokers) ==
    IF active_brokers = <<>> THEN 10
    ELSE IF Len(active_brokers) < KAFKA_TOTAL_BROKERS_COUNT THEN 6
    ELSE 0

\* Mutant: _collect_metrics goes on to describe_cluster without a client.
CreateAdminClientUnchecked ==
    /\ pc = "create"
    /\ adminClient' = (alive # {})
    /\ pc' = "describe"
    /\ isKraft' = KRAFT_ENABLED
    /\ UNCHANGED <<envVars, KAFKA_TOTAL_BROKERS_COUNT, KRAFT_ENABLED, collecting,
                   brokerIds, worker, fetched, line1,
                   compatIds, compatIdx, minBrokerVersion, compat>>

\* _create_admin_client: bootstrapping needs one broker that is up,
\* NoBrokersAvailable is caught and gives None.  Then is_kraft_enabled
\* starts as KRAFT_ENABLED.
CreateAdminClient ==
    /\ pc = "create"
    /\ adminClient' = (alive # {})
    /\ pc' = IF alive # {} THEN "describe" ELSE "collect"
    /\ isKraft' = KRAFT_ENABLED
    /\ UNCHANGED <<envVars, KAFKA_TOTAL_BROKERS_COUNT, KRAFT_ENABLED, collecting,
                   brokerIds, worker, fetched, line1,
                   compatIds, compatIdx, minBrokerVersion, compat>>

\* describe_cluster, sent to any broker that is up.
DescribeCluster ==
    /\ pc = "describe"
    /\ alive # {}
    /\ brokerIds' \in Listings
    /\ pc' = "kraft"
    /\ UNCHANGED <<envVars, KAFKA_TOTAL_BROKERS_COUNT, KRAFT_ENABLED, collecting,
                   adminClient, isKraft, worker, fetched, line1,
                   compatIds, compatIdx, minBrokerVersion, compat>>

\* _is_kraft(admin_client, broker_ids[0]); an empty listing raises IndexError.
\* The pool is created with one worker per listed broker.
IsKraft ==
    /\ pc = "kraft"
    /\ brokerIds # <<>>
    /\ Head(brokerIds) \in alive
    /\ isKraft' = (VOTERS \in DOMAIN conf[Head(brokerIds)]
                   /\ conf[Head(brokerIds)][VOTERS] # "")
    /\ worker' = [b \in Brokers |-> IF b \in ToSet(brokerIds) THEN "pending" ELSE "none"]
    /\ pc' = "pool"
    /\ UNCHANGED <<envVars, KAFKA_TOTAL_BROKERS_COUNT, KRAFT_ENABLED, collecting,
                   adminClient, brokerIds, fetched, line1,
                   compatIds, compatIdx, minBrokerVersion, compat>>

\* A request of the main thread finds no broker to answer it: describe_cluster
\* with every broker down, broker_ids[0] of an empty listing, or _is_kraft
\* sent to a broker that is down.  Nothing catches the error.
MainRequestFails ==
    /\ \/ pc = "describe" /\ alive = {}
       \/ pc = "kraft" /\ IF brokerIds = <<>> THEN TRUE ELSE Head(brokerIds) \notin alive
    /\ pc' \in IF pc = "kraft" /\ brokerIds = <<>> THEN {"crashed"} ELSE Unanswered
    /\ UNCHANGED <<envVars, KAFKA_TOTAL_BROKERS_COUNT, KRAFT_ENABLED, collecting,
                   adminClient, brokerIds, isKraft, worker, fetched,
                   line1, compatIds, compatIdx, minBrokerVersion, compat>>

\* _get_broker_metrics_simple in a pool thread: _get_broker_configs, then
\* _get_kafka_version; any exception gives -1.  A request to a broker that
\* is down raises or never returns.
FetchBroker(b) ==
    /\ worker[b] = "pending"
    /\ IF b \in alive
       THEN /\ fetched' = [fetched EXCEPT ![b] = conf[b]]
            /\ worker' = [worker EXCEPT ![b] = IF IBP \in DOMAIN conf[b] THEN "ok" ELSE "failed"]
       ELSE /\ worker' \in {[worker EXCEPT ![b] = o] : o \in {"failed", "hung"}}
            /\ UNCHANGED fetched
    /\ UNCHANGED <<envVars, KAFKA_TOTAL_BROKERS_COUNT, KRAFT_ENABLED, collecting,
                   pc, adminClient, brokerIds, isKraft, line1,
                   compatIds, compatIdx, minBrokerVersion, compat>>

\* pool.starmap, pool.close, pool.join: every worker has returned.
PoolJoined == \A b \in Brokers : worker[b] \in {"none", "ok", "failed"}

\* _concatenate_all_brokers_metrics_simple over the workers' results, in
\* the order of broker_ids, given as the parallel sequences of their ids,
\* configurations and versions: the active brokers, their configurations,
\* and the version of the last one ("" when there is none).
ConcatenateAllBrokersMetrics(ids, configs, versions) ==
    [active_brokers |-> ids,
     broker_configs_list |-> configs,
     kafka_version |-> IF ids = <<>> THEN NoVersion ELSE versions[Len(ids)]]

\* pool.starmap returns once every worker has: the results in the order of
\* broker_ids, the -1 entries dropped, then concatenated.  Then the
\* consistency check, the status and the kafka_cluster line; a KeyError of
\* the check is not caught.
CollectMetrics ==
    /\ \/ pc = "collect"
       \/ pc = "pool" /\ PoolJoined
    /\ LET ok == SelectSeq(brokerIds, LAMBDA b : worker[b] = "ok")
           all == ConcatenateAllBrokersMetrics(
                      ok,
                      [i \in DOMAIN ok |-> fetched[ok[i]]],
                      [i \in DOMAIN ok |-> GetKafkaVersion(fetched[ok[i]][IBP])])
           active == all.active_brokers
           same == CC!CheckConfigConsistency(all.broker_configs_list)
       IN  IF same.kind = "KeyError"
           THEN /\ pc' = "crashed"
                /\ UNCHANGED line1
           ELSE /\ line1' = [built |-> TRUE,
                             size |-> Len(active),
                             status |-> DetermineClusterStatus(active),
                             quorum_mode |-> IF isKraft THEN 101 ELSE 100,
                             same_configs |-> same,
                             kafka_version |-> all.kafka_version]
                /\ pc' = IF adminClient THEN "compatDescribe" ELSE "done"
    /\ UNCHANGED <<envVars, KAFKA_TOTAL_BROKERS_COUNT, KRAFT_ENABLED, collecting,
                   adminClient, brokerIds, isKraft, worker, fetched,
                   compatIds, compatIdx, minBrokerVersion, compat>>

\* _collect_compatibility_metric lists the brokers again.
CompatDescribe ==
    /\ pc = "compatDescribe"
    /\ alive # {}
    /\ compatIds' \in Listings
    /\ compatIdx' = 1
    /\ minBrokerVersion' = NoVersion
    /\ pc' = "compatFetch"
    /\ UNCHANGED <<envVars, KAFKA_TOTAL_BROKERS_COUNT, KRAFT_ENABLED, collecting,
                   adminClient, brokerIds, isKraft, worker, fetched,
                   line1, compat>>

\* One iteration of its loop, outside any try: the broker must answer and
\* report inter.broker.protocol.version.
CompatFetch ==
    /\ pc = "compatFetch"
    /\ compatIdx <= Len(compatIds)
    /\ LET b == compatIds[compatIdx] IN
           /\ b \in alive
           /\ IBP \in DOMAIN conf[b]
           /\ minBrokerVersion' = LowerVersion(minBrokerVersion, GetKafkaVersion(conf[b][IBP]))
    /\ compatIdx' = compatIdx + 1
    /\ UNCHANGED <<envVars, KAFKA_TOTAL_BROKERS_COUNT, KRAFT_ENABLED, collecting,
                   pc, adminClient, brokerIds, isKraft, worker, fetched,
                   line1, compatIds, compat>>

\* The compatibility pass raises: describe_cluster with every broker down,
\* a broker that is down (raises or blocks), a configuration without
\* inter.broker.protocol.version (KeyError), or an empty listing
\* (_parse_version(None)).
CompatRequestFails ==
    /\ \/ /\ pc = "compatDescribe" /\ alive = {}
          /\ pc' \in Unanswered
       \/ /\ pc = "compatFetch" /\ compatIdx <= Len(compatIds)
          /\ LET b == compatIds[compatIdx] IN
                 \/ b \notin alive /\ pc' \in Unanswered
                 \/ b \in alive /\ IBP \notin DOMAIN conf[b] /\ pc' = "crashed"
       \/ /\ pc = "compatFetch" /\ compatIds = <<>>
          /\ pc' = "crashed"
    /\ UNCHANGED <<envVars, KAFKA_TOTAL_BROKERS_COUNT, KRAFT_ENABLED, collecting,
                   adminClient, brokerIds, isKraft, worker, fetched,
                   line1, compatIds, compatIdx, minBrokerVersion, compat>>

\* The loop is over: the compatibility line, and the two lines are printed.
CompatFinish ==
    /\ pc = "compatFetch"
    /\ compatIds # <<>>
    /\ compatIdx > Len(compatIds)
    /\ compat' = [built |-> TRUE,
                  application_version |-> minBrokerVersion,
                  version_compatible |->
                      IF IsVersionCompatible(minBrokerVersion, MIN_VERSION, MAX_VERSION)
                      THEN 1 ELSE 0]
    /\ pc' = "done"
    /\ UNCHANGED <<envVars, KAFKA_TOTAL_BROKERS_COUNT, KRAFT_ENABLED, collecting,
                   adminClient, brokerIds, isKraft, worker, fetched,
                   line1, compatIds, compatIdx, minBrokerVersion>>

Environment ==
    \E b \in Brokers :
        \/ BrokerStop(b)
        \/ \E c \in BrokerConfigs : BrokerStart(b, c)
        \/ Register(b)
        \/ Deregister(b)

Script ==
    \/ Start
    \/ CreateAdminClient
    \/ DescribeCluster
    \/ IsKraft
    \/ MainRequestFails
    \/ \E b \in Brokers : FetchBroker(b)
    \/ CollectMetrics
    \/ CompatDescribe
    \/ CompatFetch
    \/ CompatRequestFails
    \/ CompatFinish

Next == Environment \/ Script

\* The script's main thread and its pool threads are scheduled by the OS:
\* a step that stays enabled is taken.  The cluster changes unfairly.
Fairness ==
    /\ WF_vars(Start \/ CreateAdminClient \/ DescribeCluster \/ IsKraft \/ MainRequestFails)
    /\ \A b \in Brokers : WF_vars(FetchBroker(b))
    /\ WF_vars(CollectMetrics)
    /\ WF_vars(CompatDescribe \/ CompatFetch \/ CompatRequestFails \/ CompatFinish)

Spec == Init /\ [][Next]_vars /\ Fairness

----------------------------------------------------------------------------
(* Properties.                                                             *)

Versions == {GetKafkaVersion(c[IBP]) : c \in {c \in BrokerConfigs : IBP \in DOMAIN c}}

TypeOK ==
    /\ alive \subseteq Brokers /\ registered \subseteq Brokers
    /\ conf \in [Brokers -> BrokerConfigs]
    /\ envSteps \in 0..MaxEnvSteps
    /\ pc \in {"start", "create", "describe", "kraft", "pool", "collect", "compatDescribe",
               "compatFetch", "done", "crashed", "hung"}
    /\ worker \in [Brokers -> {"none", "pending", "ok", "failed", "hung"}]
    /\ line1.built =>
         /\ line1.size \in 0..Cardinality(Brokers)
         /\ line1.status \in {0, 6, 10}
         /\ line1.kafka_version \in Versions \cup {NoVersion}
    /\ compat.built =>
         /\ compat.application_version \in Versions
         /\ compat.version_compatible \in {0, 1}
    /\ minBrokerVersion \in Versions \cup {NoVersion}

\* The brokers the kafka_cluster line counts as active: listed by
\* describe_cluster and answered with a version.
Active == {b \in ToSet(brokerIds) : worker[b] = "ok"}

\* Section 4.5 of the specification: DOWN when no broker is active, UP when
\* the active brokers are the expected total, DEGRADED otherwise.
SpecStatus(n) ==
    IF n = 0 THEN 10 ELSE IF n = KAFKA_TOTAL_BROKERS_COUNT THEN 0 ELSE 6

\* The status code of the kafka_cluster line is the specification's
\* classification of its size (_determine_cluster_status_simple).
StatusMatchesSpec == line1.built => line1.status = SpecStatus(line1.size)

\* The kafka_cluster line reports the oldest version among the active
\* brokers (section 4.3: the cluster is as capable as its weakest broker).
ReportedVersionIsOldest ==
    line1.built /\ line1.size > 0 =>
        \A b \in Active :
            TupleLeq(ParseVersion(line1.kafka_version),
                     ParseVersion(GetKafkaVersion(fetched[b][IBP])))

\* With no connection to the cluster the run still ends with a line:
\* size 0, DOWN, and no compatibility line (sections 4.7 and 7).
DownWithoutConnection ==
    collecting /\ ~adminClient /\ pc # "create" =>
        /\ pc \in {"collect", "done"}
        /\ pc = "done" => line1.size = 0 /\ line1.status = 10 /\ ~compat.built

\* The run never ends with an uncaught exception: a broker that is down or
\* unlisted is left out of the counts, and with no broker at all the run
\* prints DOWN (sections 4.1, 7 and 8 of the specification).
NeverRaises == pc # "crashed"

\* The run ends, printing its lines or raising (section 5: a per-fetch
\* timeout bounds every broker query).
TerminatesWithinTimeout == <>(pc \in {"done", "crashed"})
=============================================================================
