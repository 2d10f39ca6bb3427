---------------------------- MODULE MCHealthPass ----------------------------
(***************************************************************************)
(* Model values for HealthPass: three brokers in ZooKeeper mode on         *)
(* inter.broker.protocol.version 3.6, which a restart may upgrade to 3.7   *)
(* (with a new key) or to a release without the key at all.               *)
(***************************************************************************)
EXTENDS HealthPass

\* Keys a broker reports, in the order it lists them.
MCKeyOrder == <<"auto.create.topics.enable", "eligible.leader.replicas.enable", IBP, "listeners", VOTERS>>

Base == [k \in {"auto.create.topics.enable", "listeners", VOTERS} |->
            IF k = VOTERS THEN "" ELSE "v"]

Ibp(parts) == [parts |-> parts, qualified |-> TRUE]

\* 3.6 binaries, 3.7 binaries (one more key), 4.0 binaries (no IBP key).
Conf36 == [k \in DOMAIN Base \cup {IBP} |-> IF k = IBP THEN Ibp(<<3, 6>>) ELSE Base[k]]
Conf37 == [k \in DOMAIN Base \cup {IBP, "eligible.leader.replicas.enable"} |->
              IF k = IBP THEN Ibp(<<3, 7>>) ELSE IF k = "eligible.leader.replicas.enable" THEN "true" ELSE Base[k]]
Conf40 == Base

MCBrokerConfigs == {Conf36, Conf37, Conf40}

\* A cluster whose brokers all run 3.6 and keep running it.
MCBrokerConfigs36 == {Conf36}

MCMinVersion == <<3, 0, 0>>
MCMaxVersion == <<3, 6, Wildcard>>

\* An environment that sets only the broker count.
CountOnly(count) ==
    [KAFKA_TOTAL_BROKERS_COUNT |-> count, KAFKA_EXEC_PLUGIN_TIMEOUT |-> Unset,
     KRAFT_ENABLED |-> Unset]

\* The deployment's environment, one spelt differently, and three the
\* script cannot start in: no broker count, a broker count that is not a
\* number, a timeout without leading digits.
MCEnvInputs ==
    { CountOnly(<<"3">>),
      [KAFKA_TOTAL_BROKERS_COUNT |-> <<" ", "3">>, KAFKA_EXEC_PLUGIN_TIMEOUT |-> <<"3", "0", "s">>,
       KRAFT_ENABLED |-> <<"T", "r", "u", "e">>],
      CountOnly(Unset),
      CountOnly(<<"t", "h", "r", "e", "e">>),
      [KAFKA_TOTAL_BROKERS_COUNT |-> <<"3">>, KAFKA_EXEC_PLUGIN_TIMEOUT |-> <<"s">>,
       KRAFT_ENABLED |-> Unset] }

MCEnv3 == {CountOnly(<<"3">>)}

\* An operator who expects two brokers.
MCEnv2 == {CountOnly(<<"2">>)}
=============================================================================
