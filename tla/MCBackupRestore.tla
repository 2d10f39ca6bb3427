--------------------------- MODULE MCBackupRestore ---------------------------
(* Two topics, one matched by topic_regex; two configurations and two      *)
(* partition layouts; one ACL; both scripts with and without -d, regex and *)
(* -mode acl.                                                               *)
EXTENDS BackupRestore

\* Without -d (its topics unused), or with -d [] or -d ['t2'].
MCArgs ==
    [d : {FALSE}, topics : {{}}, regex : BOOLEAN, acl : BOOLEAN] \cup
    [d : {TRUE}, topics : {{}, {"t2"}}, regex : BOOLEAN, acl : BOOLEAN]
=============================================================================
