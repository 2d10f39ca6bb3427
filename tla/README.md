# TLA+ models of qubership-kafka's scripts

This directory holds TLA+ models of the Python scripts under `src/`, with the
TLC configurations that check them. The central part is the Kafka health
check `src/monitoring/exec-scripts/kafka_metric.py`, which `spec.md`
specifies. Three scripts that share the same hazards are modelled next to it:

- the CRD init job, `src/crd-init/crd-init.py`;
- the Mirror Maker health metric,
  `src/mirror-maker-monitoring/exec-scripts/health_metric.py`;
- the backup daemon's topic backup and restore,
  `src/backup-daemon/scripts/backup.py` and `restore.py`.

`PROJECT.json` is the machine-readable index. It lists:

- every component and whether it is modelled;
- every run and what it expects;
- the mutant for each checked property;
- the source lines behind every definition;
- the findings;
- the hazards.

## 1. The system

### Components and their interaction

| Component | Source | Model |
|---|---|---|
| Health pass: `_collect_metrics` with `_create_admin_client`, `_is_kraft`, the thread pool of `_get_broker_metrics_simple`, `_concatenate_all_brokers_metrics_simple`, `_determine_cluster_status_simple`, `_collect_compatibility_metric`, and the environment reads of `run` | kafka_metric.py 72–297 | `HealthPass` |
| Version handling: `_get_kafka_version`, `_parse_version`, `_is_version_compatible`, the minimum loop | kafka_metric.py 142–196 | `KafkaVersion` |
| Consistency check: `_get_broker_configs`, `_check_config_consistency` | kafka_metric.py 110–138 | `ConfigConsistency` |
| CRD init job: the `CRD` class, `compare_crd_versions`, `str2bool`, `_load_crd`, `_process_crd`, the file walk of `run` | crd-init.py 60–230 | `CrdInit`, refining `CrdRegistry` |
| Mirror Maker health: `_get_number_of_alive_nodes`, `_get_status_code`, `_get_list_of_servers`, `run` | health_metric.py 41–89 | `KmmHealth` |
| Backup and restore: `Backup.backup`, `Restore.restore` | backup.py 80–134, restore.py 80–125 | `BackupRestore` |
| `list_instances` | list_instances.py | not modelled: reads a file and prints |
| Pods readiness checker | integration-tests/docker | not modelled: test tooling (section 4) |
| Robot and Zabbix libraries, unit tests, AKHQ demo | | not modelled: tests and demo code |

A health pass of `kafka_metric.py` runs as a sequence of requests to a live
cluster:

1. The main thread creates an admin client. `NoBrokersAvailable` gives `None`.
2. It lists the brokers with `describe_cluster`.
3. It asks the first listed broker for its quorum mode (`_is_kraft`).
4. It starts a `ThreadPool` with one thread per listed broker. Each thread
   fetches its broker's configuration and version; any exception gives -1.
5. It joins the pool and drops the -1 results.
6. It builds the `kafka_cluster` line from the rest:
   - the size;
   - the status (0 UP, 6 DEGRADED, 10 DOWN);
   - the quorum mode;
   - the consistency verdict;
   - a version.
7. If it has a client, it lists the brokers again and fetches each one's
   configuration in turn. The oldest version gives the compatibility line,
   with `version_compatible` set by `[MIN_VERSION, MAX_VERSION]`.

The brokers are not frozen while this happens. A broker may stop, restart
with another binary or configuration, register with the controller later,
or be deregistered once its session expires.

The CRD init job runs once per operator installation. A
CustomResourceDefinition is cluster-scoped, so several installations
upgrading at once read and write the same object. The API server rejects two
kinds of write:

- a create of an object that exists;
- a replace whose `resourceVersion` is not the current one.

Each job walks the files of `./crds` and processes those whose name occurs in
`CRDS_TO_CREATE`, one CRD per file.

The backup daemon runs `backup.py` to write a snapshot of the topics (their
partitions, replication factor and configs) and, with `-mode acl`, of the
ACLs, into `snapshot.json`. Later `restore.py` recreates the snapshot's
topics that are missing and the ACLs. Producers that auto-create topics and
administrators keep changing the cluster meanwhile.

The Mirror Maker script parses the node URLs from `PROMETHEUS_URLS` (a
Python list literal, taken apart by slicing, splitting on commas and removing
quotes) and asks each node's metrics endpoint in turn. It counts
a node that answers 200 or 401 as alive, and prints a status of 0 (all
alive), 1 (some alive) or 2 (none alive).

### State, operations and hard behaviours

- **Health pass.** State:
  - the cluster: which brokers are up, which are registered, and each
    broker's configuration;
  - the main thread's position, the client, the listing and the quorum mode;
  - each pool thread's state;
  - the two lines.

  Hard behaviours:
  - `run` converts its environment first: `int()` of the broker count,
    `_str2bool` of `KRAFT_ENABLED`, a regex on the timeout; a value they
    reject raises before anything is printed;
  - brokers change between any two requests;
  - pool threads interleave with each other and with those changes;
  - requests run outside any `try` (describe_cluster, `_is_kraft`, the
    compatibility re-fetch);
  - a request to a broker that is down either raises or blocks, because
    `KAFKA_TIMEOUT` is parsed and never used;
  - `pool.starmap` waits for every thread.
- **Version and consistency functions.** These are pure. Their hard
  behaviours are edge cases:
  - the wildcard `x` is parsed as 99;
  - Python's tuple comparison treats a proper prefix as smaller;
  - the consistency comparison is asymmetric: only the first broker's keys
    are compared, and a key missing on another broker raises `KeyError`.
- **CRD init.** State: each CRD on the cluster (present, version annotation,
  resourceVersion), and each job's file, position and the CRD it read. Hard
  behaviours:
  - a job's get and its create or replace are separate requests, so another
    job can write in between;
  - errors are swallowed by default (`IGNORE_CRD_FAILURE=true`), except the
    `exit(1)` of a file that is not a CRD, a `SystemExit` that
    `except Exception` does not catch.
- **Backup and restore.** State: the topics and ACLs on the cluster, each
  script's position, the entries described so far, and the snapshot. Hard
  behaviours:
  - a topic's configs and partitions come from two requests after the
    listing, and the topic can go in between;
  - restore lists the existing topics once, validates, then creates; a
    topic created meanwhile makes `create_topics` raise after it has created
    the others, and the ACL restore is skipped;
  - the operator reruns a failed restore.
- **Mirror Maker health.** State: the `PROMETHEUS_URLS` value, the parsed
  list, each node's answer, the loop position and the count. Hard
  behaviours:
  - the list is parsed by position: `"[]"` gives one empty server, and a
    trailing comma adds one;
  - nodes change during the loop;
  - the timeout from the environment is a string.

## 2. Modules

- `KafkaVersion` holds pure operators for the version code.
  - `GetKafkaVersion`: the IBP's numeric parts with `x` appended.
  - `ParseVersion`: `x` becomes 99.
  - `TupleLess` / `TupleLeq`: Python's tuple order, RECURSIVE.
  - `IsVersionCompatible`.
  - `LowerVersion`: one iteration of the minimum loop.
  - `MinBrokerVersion`: the loop itself, RECURSIVE.
  - A version is a sequence of integers, and `Wildcard` (-1) stands for the
    component `x`.
- `ConfigConsistency` models `_check_config_consistency` as pure operators.
  - A configuration is a function from keys to values.
  - A dict's iteration order is `KeyOrder` restricted to its keys (`ConfKeys`).
  - `Compare` is the inner loop: the first key of the first broker that is
    not exempt and whose value differs, or `KeyError` when the other broker
    lacks the key.
  - `ScanBrokers` is the outer loop, RECURSIVE.
  - `GetBrokerConfigs` is `_get_broker_configs`: the broker's report
    without `broker.id`, `log.dirs`, `advertised.listeners` and
    `broker.rack`.
- `HealthPass` models one run of `_collect_metrics` against a changing
  cluster. It uses `KafkaVersion` and an instance of `ConfigConsistency`.
  - Environment actions:
    - `BrokerStop`;
    - `BrokerStart(b, c)`: a restart, possibly with a new configuration;
    - `Register`;
    - `Deregister`.

    Together they are bounded by `MaxEnvSteps`.
  - Script actions follow the code in order:
    - `Start`: the environment reads of `run`. The environment is picked
      from `EnvInputs`, and each value is a sequence of characters.
      `KAFKA_TOTAL_BROKERS_COUNT` goes through `int()` (`Strip`, `IsDigits`,
      `Decimal`). `KAFKA_EXEC_PLUGIN_TIMEOUT` goes through
      `re.match("(\d+)")` (`LeadingDigits`). `KRAFT_ENABLED` goes through
      `_str2bool` (`Lower`). A rejected value ends the run in `"crashed"`.
      The globals `KAFKA_TOTAL_BROKERS_COUNT` and `KRAFT_ENABLED` are
      variables set here;
    - `CreateAdminClient`, which also starts `is_kraft_enabled` as
      `KRAFT_ENABLED`;
    - `DescribeCluster`;
    - `IsKraft`;
    - `FetchBroker(b)`, one per pool thread;
    - `CollectMetrics`: the join, the -1 filter,
      `ConcatenateAllBrokersMetrics` (`_concatenate_all_brokers_metrics_simple`:
      the active ids, their configurations, the last one's version), the
      consistency check, the status and the first line;
    - `CompatDescribe`;
    - `CompatFetch`, one loop iteration;
    - `CompatFinish`.
  - Failure actions:
    - `MainRequestFails`: describe_cluster with all brokers down,
      `broker_ids[0]` of an empty list, or `_is_kraft` to a broker that is
      down;
    - `CompatRequestFails`.

    A request to a broker that is down ends in `"crashed"` (uncaught
    exception) or `"hung"` (it never returns). A pool thread's request ends
    in `"failed"` (-1) or `"hung"`.
  - `collecting` records that `run` got past its environment reads.
- `CrdInit` models the CRD init jobs over the files of `./crds`.
  - `listed` (the files `CRDS_TO_CREATE` selects) and `kind` (a CRD, a file
    `_validate` rejects, or a CRD without the annotation) are chosen in
    Init, so every deployment of up to two files is checked. The constant
    `Kinds` limits the kinds a file may have: all of `FileKinds` in the
    passing run, valid annotated CRDs only in the create-race run.
  - `Walk(j)`: the loop of `run` and the loading of the file by `CRD()`.
  - `LoadCrd(j)`: the get and the version comparison, including the
    `KeyError` of a missing annotation on the cluster.
  - `Create(j)`: AlreadyExists when another job created the CRD first.
  - `Replace(j)`: Conflict when the resourceVersion the job read is stale.
  - `Failure(j)`: the `except` branch of `run`, which goes on with the next
    file or exits 1; `Advance(j)` moves to the next file.
  - `IGNORE_CRD_FAILURE` is `str2bool` of the environment value
    (`IgnoreCrdFailureEnv`). Only `"true"` and `"false"` convert, and any
    other spelling gives the default `True`.
- `CrdRegistry` is the abstract specification of what `_process_crd`'s
  docstring promises. Each CRD may be installed when missing, or upgraded
  to a strictly newer version when annotated, and nothing else may happen
  to it. `CrdInit` instantiates it with the refinement mapping that drops
  the resourceVersion (`Registry == INSTANCE CrdRegistry WITH ...`), and
  `RegistrySpec` checks the implementation against it.
- `BackupRestore` composes one run of `backup.py`, then runs of
  `restore.py` on the snapshot it wrote, with other clients.
  - Environment actions: `TopicCreated`, `TopicDeleted` and `AclDeleted`,
    together bounded by `MaxEnvSteps`. What they change while a script runs
    is recorded in the history variable `touched`. Changes between the runs
    are the loss that restore repairs.
  - Backup: `BackupList` (the `-d` list, or `list_topics` with
    `topic_regex`), `BackupDescribeConfigs` (`exit(1)` on an empty config
    list), `BackupDescribeTopics` (`IndexError` when the topic is gone),
    and `BackupWrite` (`describe_acls`, then the snapshot).
  - Restore: `RestoreStart` (a run, or a rerun after a failure, bounded by
    `MaxRestoreRuns`), `RestoreList`, `RestoreValidate`, `RestoreCreate`
    and `RestoreAcls`.
  - The arguments are records `[d, topics, regex, acl]`. Backup tests
    `topics is None` and restore tests `not topics`, so `-d []` selects
    nothing in backup and everything in restore (`ListsAll`).
- `KmmHealth` models one run of `health_metric.py`.
  - `PROMETHEUS_URLS` is a sequence of tokens: the brackets, commas, quotes
    and blanks, and one token per URL. It is picked from `Inputs` in Init.
  - `Parse`: `TypeError` when it is unset, else `GetListOfServers` (the
    slice `[1:-1]`, `SplitBy` on commas, quotes removed).
  - `NodeChange`: a node goes down, recovers or fails, bounded.
  - `Query`: one loop iteration. `Target` is the node a server string
    reaches: requests strips leading blanks (lstrip), and anything but one
    URL after that has no scheme and raises. It counts nothing when the timeout is a string.
  - `Report`.
  - `Spec` has weak fairness on `Parse`, `Query` and `Report` only.
  - `RunEnds`: the run ends, printing or raising, however the nodes behave.
    Its mutant drops the timeout, so a `down` node (which may accept the
    connection and never answer) blocks `Query`.
  - `answered` is a history variable: the positions whose node was healthy
    when asked. `failedUrls` is another: the nodes that were down or
    failing at some point of the run.
- `MCMetricFunctions`, `MCHealthPass`, `MCCrdInit`, `MCBackupRestore` and
  `MCKmmHealth` define the model values and the reference definitions the
  properties compare with.
  - `MCMetricFunctions` also adds a one-step harness for the pure
    operators of `KafkaVersion` and `ConfigConsistency`: Init picks an
    input, a step evaluates the code's operator.

Properties are stated in the modules, each with a comment saying what it
claims and of which code.

## 3. Runs

Every passing run has a mutant in `PROJECT.json`: a plausible bug in a mapped
definition, written just before it. TLC finds the property violated when that
mutant replaces the definition.

| Run | Checks | Result |
|---|---|---|
| `metric_functions` (`MetricFunctions_pass.cfg`) | `CompatibleMatchesSpec`: the verdict is the spec's `min <= v <= max`, wildcards in any position. `MinVersionIsOldest`: the compatibility minimum is a broker's version and no broker's is older. `VerdictMatchesSpec` and `DivergenceIsFirst` (the `No` message names the first differing broker and key, in the first broker's order), on lists of up to 3 brokers with the same keys. The harness also evaluates `GetBrokerConfigs` on describe_configs reports of up to 3 brokers, with no property of its own. | pass, 108,700 states |
| `metric_functions_upgrade` (`MetricFunctions_upgrade.cfg`) | `NeverRaises`, on brokers where only upgraded ones have a key. | violation: `KeyError` when the first broker has the key and a later one does not |
| `health_pass` (`HealthPass_safety.cfg`) | `StatusMatchesSpec`, `DownWithoutConnection`. 3 brokers on 3.6 / 3.7 / a release without the IBP key, 3 cluster changes, five environments (two valid, three rejected). | pass, 1,965,870 states, under 2 min |
| `health_status_over_total` | `StatusMatchesSpec` with 3 brokers and an expected count of 2 | violation: UP (spec: DEGRADED) |
| `health_version_line` | `ReportedVersionIsOldest` on a mixed 3.6 / 3.7 cluster | violation: the last listed broker's version |
| `health_uncaught` | `NeverRaises` with one cluster change | violation: describe_cluster raises after the cluster went down; an empty listing or a stopped first broker also raises |
| `health_timeout` | `TerminatesWithinTimeout` | violation: a request to a stopped broker blocks forever |
| `crd_init` (`CrdInit_pass.cfg`) | `RegistrySpec` (refinement of `CrdRegistry`), `NewestWhenAllSucceeded`. Three jobs at 1.0.9, 1.1.0 and 1.1.2; `IGNORE_CRD_FAILURE="false"`; two files of any kind and selection; each CRD missing, unannotated or at any version. | pass, 79,147 states |
| `crd_init_create_race` | `NewestWhenAllSucceeded` with the default `IGNORE_CRD_FAILURE=true` on a fresh cluster, every file a valid annotated CRD | violation: the job with the newest CRD loses the create race and exits 0 |
| `backup_restore` (`BackupRestore_pass.cfg`) | `BackupComplete`: a written snapshot holds only selected topics, every selected topic that existed at the listing, and the state of every topic nobody changed. `Recovered`: after a restore that succeeds, every topic both scripts select and nobody changed while a script ran exists, with its backed-up state if restore created it, and with `-mode acl` the ACLs are back. | pass, 3,084,880 states, about 20 s |
| `kmm_health` (`KmmHealth_pass.cfg`) | `FailureIsReal`: for `PROMETHEUS_URLS` in its documented form, status 1 or 2 is printed only if a listed node was down or failing at some point; `RunEnds`: the run always ends. The timeout is left at its integer default, and `PROMETHEUS_URLS` is unset, documented (three or two nodes), unquoted, `[]` or has a trailing comma. | pass, 19,504 states, about a minute (the liveness check) |
| `kmm_health_timeout` | `StatusReflectsAnswers` (0 when every listed server answered 200 or 401 when asked, 2 when none did, 1 otherwise) with `KMM_HEALTH_TIMEOUT` set | violation: status 2 while nodes are healthy |

What the violations mean is recorded as findings in `PROJECT.json`:

- two divergences from `spec.md` (status above the expected count, the
  version on the first line);
- the missing per-request timeout;
- the uncaught failures of the health pass;
- the rolling-upgrade `KeyError`;
- the CRD create race;
- the string timeout of the Mirror Maker probe.

Two further observations came up while modelling, without runs of their own:

- `_parse_version` maps `x` to 99 rather than to a value above every
  component.
- A key that only a later broker has is never compared. The
  `UpgradeConfigs` definition in `MCMetricFunctions` reproduces it.
- With `IGNORE_CRD_FAILURE=true`, a listed file that is not a CRD still
  ends the job with `exit(1)`, and the files after it are skipped (`Walk`).
- A snapshot topic deleted after restore lists the existing topics is
  skipped, and restore reports success without it. `Recovered` leaves out
  topics changed while restore runs.
- `PROMETHEUS_URLS="[]"` parses to one empty server, so status 2 (all
  failed) is printed for a cluster without nodes. A trailing comma adds an
  empty server that always fails, so status 1 is printed while every node
  is healthy. `kmm_health` explores both values; `FailureIsReal` is stated
  for the documented form only.

They are listed as hazards in `PROJECT.json`. Showing them would need
violation runs of their own, and the run cap is spent on the findings above.

### Bounds

- **Health pass:**
  - 3 brokers, enough for a first, a middle and a last broker in a listing;
  - 3 configurations: 3.6; 3.7 with a key 3.6 lacks, which sorts before the
    IBP key as Kafka lists keys alphabetically; and a release without the
    IBP key;
  - 3 cluster changes, which are enough to reach every branch, including a
    compatibility pass that finds an empty listing (stop, deregister, start
    of an unregistered broker).

  - the environments: the deployment's (only the broker count set), one
    with a blank before the count, a `30s` timeout and `KRAFT_ENABLED=True`,
    and three that `run` rejects: no count, a count that is not a number,
    a timeout without leading digits. The violation runs use the
    deployment's.

  Every action and every branch of every action fires in `health_pass`,
  which TLC's coverage report confirms.
- **Version functions:**
  - components {0, 3} and the wildcard, so that prefixes, equality and
    wildcards meet in every position;
  - IBP values of real releases.
- **Consistency check:** every list of up to 3 configurations over two
  compared keys, one exempt key and two values; and every list of up to 3
  describe_configs reports over one compared key and the four per-broker
  keys, with two values each.
- **CRD init:** three jobs, so that a job can read between another's read
  and write, and so that two jobs can race to create while a third replaces.
  Two files, so that a failure on one file is followed by the next.
- **Backup and restore:**
  - two topics, one matched by `topic_regex`, so that a restore can
    create one topic while the other makes it fail;
  - two configurations and two partition layouts;
  - one ACL;
  - both scripts with and without `-d` (empty or not), regex and ACL mode;
  - 2 changes by other clients, enough for a deletion during the backup
    together with a creation during the restore, or a loss between the runs
    followed by a change during a script;
  - 2 restore runs: a partial failure and its rerun.
- **Mirror Maker health:** three nodes, two node changes during the run,
  and six `PROMETHEUS_URLS` values (see the run table). With two changes,
  one node can fail and recover before or after it is asked.

### Fairness

- **`HealthPass`.**
  - Weak fairness on the main thread's steps, on each pool thread and on the
    compatibility pass. These are OS threads of one process: a thread that
    can run eventually does.
  - The cluster's changes have no fairness: a broker need never come back.
  - `TerminatesWithinTimeout` (the `health_timeout` run) asks that every
    run end, printing or raising, and it fails because no timeout is
    applied.
- **`KmmHealth`.** Weak fairness on the script's steps: it is one
  single-threaded process. The nodes' changes have no fairness.
- **`CrdInit`.** Weak fairness per job, since each job is its own pod.
- **`BackupRestore`.** No fairness: its properties are invariants, and the
  operator need never rerun a failed restore.
- **Deadlock checking** is off in these runs because every modelled script
  ends: it prints, raises, or exits.

## 4. What is not modelled, and why

- **Message formatting, logging and the client's TLS/SASL options.** No
  property is about them.
- **Stripping broker-local keys inside `HealthPass`.** A configuration in
  the health pass is already the stripped one. The stripping itself is
  checked in `MCMetricFunctions`. describe_configs reports every broker
  config, unset ones with a null value, so the `del` statements do not raise.
- **`MIN_VERSION`, `MAX_VERSION`, the connection settings and
  `CRD_UPGRADE_WAITING_TIME`.** `os.getenv` returns the version bounds
  unconverted, and they are constants of the runs. The connection settings
  only reach the client. The waiting time only delays the job.
- **The substring match of file names against `CRDS_TO_CREATE`, the
  API-group rewrite of the file and YAML parsing.** These work on strings
  and files. The model takes the selection as any set of files, and a
  file's content as its kind. The substring match is listed as a hazard.
- **The backup's snapshot file format and a crash during its write.** The
  snapshot is written in one step. `list_instances.py` only prints the
  snapshot's topic names.
- **The kubeconfig and Kafka client set-up** at import and in `__init__`.
- **The integration-test readiness checker** (`kafka_pods_checker.py`). It
  is test tooling that changes no state of the system. Its only hazard, the
  tight retry loop after an exception, is a question of load on the API
  server, not of correctness.

## 5. Plan for later work

1. An abstract `HealthReport` specification of one pass: the report as a
   function of the set of brokers that answered. `HealthPass` would be
   checked against it with `INSTANCE ... WITH` a refinement mapping, under
   the spec's assumptions (a timeout, no uncaught errors). This would make
   the divergences above visible as refinement failures.
2. Retries of a failed CRD init pod (a Kubernetes Job's backoff), for the
   liveness question of whether the newest CRD is eventually installed.
