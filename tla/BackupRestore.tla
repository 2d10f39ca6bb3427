---------------------------- MODULE BackupRestore ----------------------------
(***************************************************************************)
(* The backup daemon's topic backup (backup-daemon/scripts/backup.py) and  *)
(* the restore of its snapshot (restore.py), against a cluster whose       *)
(* topics other clients create (a producer with auto.create.topics.enable) *)
(* and delete while either script runs.                                    *)
(*                                                                         *)
(* A topic's partitions, replication factor and configs are abstracted to  *)
(* one value of TopicConfigs.  Backup lists the topics (or takes them from *)
(* its -d argument), describes each one in turn, optionally reads the     *)
(* ACLs, and writes snapshot.json at the end.  Restore, run later on that  *)
(* snapshot, selects the snapshot's topics that do not exist (or those of *)
(* its -d argument), validates the creation, creates them, and optionally *)
(* creates the snapshot's ACLs.  A per-topic error of create_topics raises *)
(* after the broker has created the other topics of the request.          *)
(***************************************************************************)

EXTENDS Integers, FiniteSets, TLC

CONSTANTS
    Topics,         \* topic names
    Confs,          \* what describe_configs reports of a topic
    Parts,          \* what describe_topics reports: partitions and replicas
    Acls,           \* ACL bindings
    Pattern,        \* the topics topic_regex matches
    BackupArgs,     \* [d : BOOLEAN, topics : SUBSET Topics, regex : BOOLEAN, acl : BOOLEAN]
    RestoreArgs,    \* the same, for restore
    MaxEnvSteps,    \* bound on changes by other clients
    MaxRestoreRuns  \* bound on runs of restore on the same snapshot

None == "none"

VARIABLES
    cluster,        \* each topic's [conf, parts], Absent when it does not exist
    acls,           \* the ACL bindings on the cluster
    envSteps,
    bArg,           \* backup's arguments
    bpc,            \* backup: "list", "configs", "topics", "done", "failed"
    bTodo,          \* topics still to describe
    bCur,           \* the topic being described, and its config_list
    bEntries,       \* snapshot['topics'] so far: topic -> [conf, parts]
    snapshot,       \* snapshot.json
    rArg,           \* restore's arguments
    rpc,            \* restore: "idle", "list", "validate", "create", "acl", "done", "failed"
    rRuns,
    rTopics,        \* the names of topics_restore
    atStart,        \* history: topics and ACLs when backup listed the topics
    touched,        \* history: topics and ACLs other clients changed while a script ran
    rCreated        \* history: topics the last run of restore created

envVars == <<cluster, acls, envSteps>>
backupVars == <<bArg, bpc, bTodo, bCur, bEntries, snapshot>>
restoreVars == <<rArg, rpc, rRuns, rTopics>>
histVars == <<atStart, touched, rCreated>>
vars == <<envVars, backupVars, restoreVars, histVars>>

TopicStates == [conf : Confs, parts : Parts]

\* A topic that does not exist.
Absent == [conf |-> None, parts |-> 0]

Exists(t) == cluster[t] # Absent

NoSnapshot == [written |-> FALSE, topics |-> <<>>, acls |-> {}]

\* Whether the topics are listed: backup tests "topics is None", restore
\* "not topics", so an empty -d list selects nothing in backup and all in
\* restore.
ListsAll(arg, script) ==
    IF script = "backup" THEN ~arg.d ELSE ~arg.d \/ arg.topics = {}

\* The -d list, else the candidates topic_regex matches (all without one).
Selected(arg, script, candidates) ==
    IF ListsAll(arg, script)
    THEN IF arg.regex THEN candidates \cap Pattern ELSE candidates
    ELSE arg.topics

Init ==
    /\ cluster \in [Topics -> TopicStates \cup {Absent}]
    /\ acls \in SUBSET Acls
    /\ envSteps = 0
    /\ bArg \in BackupArgs
    /\ bpc = "list"
    /\ bTodo = {}
    /\ bCur = [topic |-> None, conf |-> None]
    /\ bEntries = <<>>
    /\ snapshot = NoSnapshot
    /\ rArg \in RestoreArgs
    /\ rpc = "idle"
    /\ rRuns = 0
    /\ rTopics = {}
    /\ atStart = [topics |-> cluster, acls |-> acls]
    /\ touched = {}
    /\ rCreated = {}

----------------------------------------------------------------------------
(* Other clients: producers that auto-create topics, administrators that  *)
(* delete topics or ACLs.  What they do while backup or restore runs is    *)
(* recorded in touched; between the runs (the loss restore repairs) not.   *)

ScriptRunning ==
    bpc \in {"configs", "topics"} \/ rpc \in {"validate", "create", "acl"}

EnvStep(changed) ==
    /\ envSteps < MaxEnvSteps
    /\ rpc # "done"
    /\ envSteps' = envSteps + 1
    /\ touched' = IF ScriptRunning THEN touched \cup {changed} ELSE touched
    /\ UNCHANGED <<backupVars, restoreVars, atStart, rCreated>>

TopicCreated(t, s) ==
    /\ ~Exists(t)
    /\ cluster' = [cluster EXCEPT ![t] = s]
    /\ UNCHANGED acls
    /\ EnvStep(t)

TopicDeleted(t) ==
    /\ Exists(t)
    /\ cluster' = [cluster EXCEPT ![t] = Absent]
    /\ UNCHANGED acls
    /\ EnvStep(t)

AclDeleted(a) ==
    /\ a \in acls
    /\ acls' = acls \ {a}
    /\ UNCHANGED cluster
    /\ EnvStep(a)

----------------------------------------------------------------------------
(* backup.py: Backup.backup                                                *)

\* Mutant: the topic_regex filter is not applied to the listed topics.
BackupListNoRegex ==
    /\ bpc = "list"
    /\ bTodo' = IF ~bArg.d THEN {t \in Topics : Exists(t)} ELSE bArg.topics
    /\ bpc' = "configs"
    /\ atStart' = [topics |-> cluster, acls |-> acls]
    /\ UNCHANGED <<envVars, bArg, bCur, bEntries, snapshot, restoreVars, touched, rCreated>>

\* The -d list, else list_topics filtered with topic_regex.
BackupList ==
    /\ bpc = "list"
    /\ bTodo' = Selected(bArg, "backup", {t \in Topics : Exists(t)})
    /\ bpc' = "configs"
    /\ atStart' = [topics |-> cluster, acls |-> acls]
    /\ UNCHANGED <<envVars, bArg, bCur, bEntries, snapshot, restoreVars, touched, rCreated>>

\* describe_configs of the next topic; an empty config_list (the topic does
\* not exist) ends the script with sys.exit(1).
BackupDescribeConfigs ==
    /\ bpc = "configs"
    /\ \E t \in bTodo :
          IF Exists(t)
          THEN /\ bCur' = [topic |-> t, conf |-> cluster[t].conf]
               /\ bpc' = "topics"
          ELSE /\ bpc' = "failed"
               /\ UNCHANGED bCur
    /\ UNCHANGED <<envVars, bArg, bTodo, bEntries, snapshot, restoreVars, histVars>>

\* describe_topics of the same topic; partitions[0] raises IndexError when
\* the topic has gone since describe_configs.
BackupDescribeTopics ==
    /\ bpc = "topics"
    /\ IF Exists(bCur.topic)
       THEN /\ bEntries' = (bCur.topic :> [conf |-> bCur.conf,
                                           parts |-> cluster[bCur.topic].parts]) @@ bEntries
            /\ bTodo' = bTodo \ {bCur.topic}
            /\ bpc' = "configs"
       ELSE /\ bpc' = "failed"
            /\ UNCHANGED <<bEntries, bTodo>>
    /\ UNCHANGED <<envVars, bArg, bCur, snapshot, restoreVars, histVars>>

\* Every topic described: with -mode acl describe_acls, then snapshot.json
\* is written.
BackupWrite ==
    /\ bpc = "configs"
    /\ bTodo = {}
    /\ snapshot' = [written |-> TRUE, topics |-> bEntries,
                    acls |-> IF bArg.acl THEN acls ELSE {}]
    /\ bpc' = "done"
    /\ UNCHANGED <<envVars, bArg, bTodo, bCur, bEntries, restoreVars, histVars>>

----------------------------------------------------------------------------
(* restore.py: Restore.restore, run on the snapshot once backup is done,   *)
(* and run again after a failure.                                          *)

RestoreStart ==
    /\ bpc = "done"
    /\ rpc \in {"idle", "failed"}
    /\ rRuns < MaxRestoreRuns
    /\ rpc' = "list"
    /\ rRuns' = rRuns + 1
    /\ rCreated' = {}
    /\ UNCHANGED <<envVars, backupVars, rArg, rTopics, atStart, touched>>

\* Without a -d list: the snapshot's topics list_topics does not return,
\* filtered with topic_regex; then the snapshot's topics of that list.
RestoreList ==
    /\ rpc = "list"
    /\ LET names == DOMAIN snapshot.topics
       IN  rTopics' = names \cap Selected(rArg, "restore", {t \in names : ~Exists(t)})
    /\ rpc' = "validate"
    /\ UNCHANGED <<envVars, backupVars, rArg, rRuns, histVars>>

\* create_topics(validate_only=True) raises when a topic exists.
RestoreValidate ==
    /\ rpc = "validate"
    /\ rpc' = IF \E t \in rTopics : Exists(t) THEN "failed" ELSE "create"
    /\ UNCHANGED <<envVars, backupVars, rArg, rRuns, rTopics, histVars>>

\* Mutant: the create_topics call after the validation is dropped.
RestoreCreateValidateOnly ==
    /\ rpc = "create"
    /\ rpc' = IF rArg.acl THEN "acl" ELSE "done"
    /\ UNCHANGED <<envVars, backupVars, rArg, rRuns, rTopics, histVars>>

\* create_topics: the broker creates every topic that does not exist and
\* the call raises when one did.
RestoreCreate ==
    /\ rpc = "create"
    /\ LET new == {t \in rTopics : ~Exists(t)}
       IN  /\ cluster' = [t \in Topics |-> IF t \in new THEN snapshot.topics[t] ELSE cluster[t]]
           /\ rCreated' = rCreated \cup new
    /\ rpc' = IF \E t \in rTopics : Exists(t) THEN "failed"
              ELSE IF rArg.acl THEN "acl" ELSE "done"
    /\ UNCHANGED <<acls, envSteps, backupVars, rArg, rRuns, rTopics, atStart, touched>>

\* With -mode acl, create_acls of every ACL of the snapshot.
RestoreAcls ==
    /\ rpc = "acl"
    /\ acls' = acls \cup snapshot.acls
    /\ rpc' = "done"
    /\ UNCHANGED <<cluster, envSteps, backupVars, rArg, rRuns, rTopics, histVars>>

Next ==
    \/ \E t \in Topics, s \in TopicStates : TopicCreated(t, s)
    \/ \E t \in Topics : TopicDeleted(t)
    \/ \E a \in Acls : AclDeleted(a)
    \/ BackupList \/ BackupDescribeConfigs \/ BackupDescribeTopics \/ BackupWrite
    \/ RestoreStart \/ RestoreList \/ RestoreValidate \/ RestoreCreate \/ RestoreAcls

Spec == Init /\ [][Next]_vars

----------------------------------------------------------------------------
(* Properties.                                                             *)

InScope(arg, script, t) ==
    IF ListsAll(arg, script) THEN arg.regex => t \in Pattern ELSE t \in arg.topics

\* A written snapshot holds only topics the arguments select, every selected
\* topic that existed when backup listed them, and, for a topic no other
\* client changed during the backup, the partitions and configs it had then.
BackupComplete ==
    snapshot.written =>
        /\ \A t \in DOMAIN snapshot.topics : InScope(bArg, "backup", t)
        /\ \A t \in Topics :
              atStart.topics[t] # Absent /\ InScope(bArg, "backup", t) => t \in DOMAIN snapshot.topics
        /\ \A t \in DOMAIN snapshot.topics \ touched :
              snapshot.topics[t] = atStart.topics[t]

\* Backup followed by a restore that reports success brings back what the
\* backup saw: every topic both select and nobody changed while a script
\* ran exists, with its backed-up partitions and configs if restore created
\* it, and with -mode acl on both every such ACL is on the cluster again.
Recovered ==
    rpc = "done" =>
        /\ \A t \in Topics \ touched :
              atStart.topics[t] # Absent /\ InScope(bArg, "backup", t) /\ InScope(rArg, "restore", t) =>
                  /\ Exists(t)
                  /\ t \in rCreated => cluster[t] = atStart.topics[t]
        /\ bArg.acl /\ rArg.acl => atStart.acls \ touched \subseteq acls
====
