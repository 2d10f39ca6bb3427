------------------------- MODULE ConfigConsistency -------------------------
(***************************************************************************)
(* _get_broker_configs and _check_config_consistency of                    *)
(* monitoring/exec-scripts/kafka_metric.py.                                *)
(*                                                                         *)
(* A broker's configuration is a function from the keys it reports to      *)
(* their values (a value may be None).  A Python dict iterates its keys in *)
(* the order the broker listed them, which is KeyOrder restricted to the   *)
(* dict's keys.  The result is "Yes", "Empty configs", a divergence        *)
(* "No: [key]: v1 VS v2", or the KeyError raised by another[conf] when a   *)
(* later broker lacks a key of the first.                                  *)
(***************************************************************************)
EXTENDS Sequences, SequencesExt

CONSTANTS
    ALLOWED_DIFFERENT_CONFIGS,  \* keys exempt from the comparison
    KeyOrder                    \* every key, in the order brokers list them

Yes == [kind |-> "Yes"]
EmptyConfigs == [kind |-> "Empty configs"]
KeyError(key) == [kind |-> "KeyError", key |-> key]
No(key, v1, v2) == [kind |-> "No", key |-> key, one |-> v1, another |-> v2]

\* _get_broker_configs: the dict of a broker's describe_configs entries
\* without the four keys that differ per broker.  describe_configs reports
\* every broker config, unset ones with value None, so the del statements
\* find their keys.
GetBrokerConfigs(config) ==
    [k \in DOMAIN config \ {"broker.id", "log.dirs", "advertised.listeners", "broker.rack"} |-> config[k]]

\* The keys of one broker's configuration, in iteration order.
ConfKeys(conf) == SelectSeq(KeyOrder, LAMBDA k : k \in DOMAIN conf)

\* Mutant: the exemption list is not consulted.
CompareWithAllowedIgnored(one, another) ==
    LET hit == SelectInSeq(ConfKeys(one),
                  LAMBDA k : k \notin DOMAIN another \/ one[k] # another[k])
        k   == ConfKeys(one)[hit]
    IN  IF hit = 0 THEN Yes
        ELSE IF k \notin DOMAIN another THEN KeyError(k)
        ELSE No(k, one[k], another[k])

\* Mutant: the loop keeps going and reports the last differing key.
CompareLastKey(one, another) ==
    LET hit == SelectLastInSeq(ConfKeys(one),
                  LAMBDA k : /\ k \notin ALLOWED_DIFFERENT_CONFIGS
                             /\ k \notin DOMAIN another \/ one[k] # another[k])
        k   == ConfKeys(one)[hit]
    IN  IF hit = 0 THEN Yes
        ELSE IF k \notin DOMAIN another THEN KeyError(k)
        ELSE No(k, one[k], another[k])

\* The inner loop: the first key of one, not exempt, whose value on another
\* differs; another[conf] raises KeyError when another has no such key.
Compare(one, another) ==
    LET hit == SelectInSeq(ConfKeys(one),
                  LAMBDA k : /\ k \notin ALLOWED_DIFFERENT_CONFIGS
                             /\ k \notin DOMAIN another \/ one[k] # another[k])
        k   == ConfKeys(one)[hit]
    IN  IF hit = 0 THEN Yes
        ELSE IF k \notin DOMAIN another THEN KeyError(k)
        ELSE No(k, one[k], another[k])

\* The outer loop over the remaining brokers; a dict equal to the first is
\* skipped, the first Compare that does not find them equal ends the scan.
RECURSIVE ScanBrokers(_, _)
ScanBrokers(one, rest) ==
    IF rest = <<>> THEN Yes
    ELSE IF one = Head(rest) \/ Compare(one, Head(rest)) = Yes
         THEN ScanBrokers(one, Tail(rest))
         ELSE Compare(one, Head(rest))

\* _check_config_consistency: the first configuration (pop(0)) is the
\* reference the others are compared with.
CheckConfigConsistency(broker_configs_list) ==
    IF broker_configs_list = <<>> THEN EmptyConfigs
    ELSE ScanBrokers(Head(broker_configs_list), Tail(broker_configs_list))
=============================================================================
