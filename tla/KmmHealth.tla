------------------------------ MODULE KmmHealth ------------------------------
(***************************************************************************)
(* One run of mirror-maker-monitoring/exec-scripts/health_metric.py: the  *)
(* list of servers is parsed from PROMETHEUS_URLS, then the metrics       *)
(* endpoint of every Kafka Mirror Maker node is requested in turn while   *)
(* nodes go down, come back or start answering with errors; a node counts *)
(* as alive when it answers 200 or 401, every exception of the request is *)
(* caught.                                                                 *)
(*                                                                         *)
(* PROMETHEUS_URLS is a sequence of tokens: "[", "]", ",", "'", " " and    *)
(* the URLs (one token each), so that "['u1', 'u2']" is                   *)
(* <<"[", "'", "u1", "'", ",", " ", "'", "u2", "'", "]">>. The slice      *)
(* servers[1:-1] removes one character at each end, so the inputs begin    *)
(* and end with a one-character token.                                     *)
(*                                                                         *)
(* The request timeout is os.getenv('KMM_HEALTH_TIMEOUT', 6): the integer *)
(* 6 when the variable is unset, its string value when it is set, and     *)
(* requests rejects a string timeout with ValueError before connecting.   *)
(***************************************************************************)
EXTENDS Integers, Sequences, FiniteSets, SequencesExt

CONSTANTS
    Urls,               \* the Mirror Maker nodes' URLs
    Inputs,             \* the values PROMETHEUS_URLS may have, Unset among them
    Unset,              \* os.getenv of a variable that is not set (None)
    TimeoutFromEnv,     \* KMM_HEALTH_TIMEOUT is set in the environment
    MaxEnvSteps         \* bound on node state changes during the run

VARIABLES
    node,           \* each node's state: "200", "401", "500" or "down" (refusing
                    \* connections or accepting them and never answering)
    envSteps,
    servers,        \* the PROMETHEUS_URLS value
    pc,             \* "parse", "query", "done" or "crashed"
    servers_list,   \* the parsed list: a sequence of token sequences
    idx,            \* the loop's position in servers_list
    nodes_number,   \* alive nodes counted so far
    status_code,    \* printed status, -1 until printed
    answered,       \* history: the positions whose node answered 200 or 401 when asked
    failedUrls      \* history: the URLs whose node was not 200 or 401 at some point

vars == <<node, envSteps, servers, pc, servers_list, idx, nodes_number,
          status_code, answered, failedUrls>>

NodeStates == {"200", "401", "500", "down"}

Alive == {"200", "401"}

\* str.split(","): the pieces between the commas, at least one.
SplitBy(s, sep) ==
    LET step(acc, t) == IF t = sep THEN Append(acc, <<>>)
                        ELSE [acc EXCEPT ![Len(acc)] = Append(@, t)]
    IN  FoldLeft(step, <<<<>>>>, s)

\* Mutant: the quotes of the pieces are kept.
GetListOfServersKeepQuotes(s) ==
    SplitBy(SubSeq(s, 2, Len(s) - 1), ",")

\* _get_list_of_servers: drop the first and last character, split on
\* commas, remove the quotes of each piece.
GetListOfServers(s) ==
    LET pieces == SplitBy(SubSeq(s, 2, Len(s) - 1), ",")
    IN  [i \in DOMAIN pieces |-> SelectSeq(pieces[i], LAMBDA t : t # "'")]

\* The node a server string reaches: requests strips leading whitespace of
\* the URL (lstrip); anything but a single URL after that (the empty
\* string, a trailing blank, a quote among them) is rejected and requests
\* raises before connecting.
Target(server) ==
    LET text == {i \in DOMAIN server : server[i] # " "}
        url == IF text = {} THEN <<>> ELSE SubSeq(server, Min(text), Len(server))
    IN  IF Len(url) = 1 /\ url[1] \in Urls THEN url[1] ELSE Unset

Init ==
    /\ node \in [Urls -> NodeStates]
    /\ envSteps = 0
    /\ servers \in Inputs
    /\ pc = "parse"
    /\ servers_list = <<>>
    /\ idx = 1
    /\ nodes_number = 0
    /\ status_code = -1
    /\ answered = {}
    /\ failedUrls = {u \in Urls : node[u] \notin Alive}

\* A node stops, restarts, or its endpoint starts failing.
NodeChange(u, st) ==
    /\ pc \in {"parse", "query"}
    /\ envSteps < MaxEnvSteps
    /\ node[u] # st
    /\ node' = [node EXCEPT ![u] = st]
    /\ envSteps' = envSteps + 1
    /\ failedUrls' = IF st \in Alive THEN failedUrls ELSE failedUrls \cup {u}
    /\ UNCHANGED <<servers, pc, servers_list, idx, nodes_number, status_code, answered>>

\* The first lines of run: None[1:-1] raises TypeError when PROMETHEUS_URLS
\* is unset and the script ends with a traceback.
Parse ==
    /\ pc = "parse"
    /\ IF servers = Unset
       THEN pc' = "crashed" /\ UNCHANGED servers_list
       ELSE pc' = "query" /\ servers_list' = GetListOfServers(servers)
    /\ UNCHANGED <<node, envSteps, servers, idx, nodes_number, status_code,
                   answered, failedUrls>>

\* Whether the request to a server answers 200 or 401.
Answers(server) ==
    Target(server) # Unset /\ node[Target(server)] \in Alive

\* Mutant: requests.get without timeout=, so a down node that accepted the
\* connection is waited on forever.
QueryNoTimeout ==
    /\ pc = "query"
    /\ idx <= Len(servers_list)
    /\ Target(servers_list[idx]) # Unset => node[Target(servers_list[idx])] # "down"
    /\ nodes_number' = IF ~TimeoutFromEnv /\ Answers(servers_list[idx])
                       THEN nodes_number + 1 ELSE nodes_number
    /\ answered' = IF Answers(servers_list[idx]) THEN answered \cup {idx} ELSE answered
    /\ idx' = idx + 1
    /\ UNCHANGED <<node, envSteps, servers, pc, servers_list, status_code, failedUrls>>

\* One iteration of _get_number_of_alive_nodes: requests.get raises when
\* the timeout is a string, the URL has no scheme, or the node is down
\* (refused, or no answer within the 6 s timeout); caught, not counted.
Query ==
    /\ pc = "query"
    /\ idx <= Len(servers_list)
    /\ nodes_number' = IF ~TimeoutFromEnv /\ Answers(servers_list[idx])
                       THEN nodes_number + 1 ELSE nodes_number
    /\ answered' = IF Answers(servers_list[idx]) THEN answered \cup {idx} ELSE answered
    /\ idx' = idx + 1
    /\ UNCHANGED <<node, envSteps, servers, pc, servers_list, status_code, failedUrls>>

\* _get_status_code: 0 all alive, 2 none, 1 otherwise.
GetStatusCode(alive_nodes, total_nodes) ==
    IF total_nodes = alive_nodes THEN 0
    ELSE IF alive_nodes = 0 THEN 2
    ELSE 1

\* The loop is over: run prints the status line.
Report ==
    /\ pc = "query"
    /\ idx > Len(servers_list)
    /\ pc' = "done"
    /\ status_code' = GetStatusCode(nodes_number, Len(servers_list))
    /\ UNCHANGED <<node, envSteps, servers, servers_list, idx, nodes_number,
                   answered, failedUrls>>

Next ==
    \/ \E u \in Urls, st \in NodeStates : NodeChange(u, st)
    \/ Parse
    \/ Query
    \/ Report

\* The script is one single-threaded process: a step it can take is taken.
\* The nodes change unfairly.
Spec == Init /\ [][Next]_vars /\ WF_vars(Parse \/ Query \/ Report)

----------------------------------------------------------------------------
(* Properties.                                                             *)

\* str() of a non-empty Python list of URLs, the documented form of
\* PROMETHEUS_URLS: "['u1', 'u2']".
Repr(us) ==
    LET quoted(i) == IF i = 1 THEN <<"'", us[i], "'">> ELSE <<",", " ", "'", us[i], "'">>
    IN  <<"[">> \o FlattenSeq([i \in DOMAIN us |-> quoted(i)]) \o <<"]">>

Documented == {Repr(us) : us \in SeqOf(Urls, Cardinality(Urls)) \ {<<>>}}

\* The printed status is what the nodes' answers, as each was asked, say:
\* 0 when every listed server answered 200 or 401, 2 when none did, 1
\* otherwise (the loop of _get_number_of_alive_nodes and _get_status_code).
StatusReflectsAnswers ==
    status_code # -1 =>
        status_code = IF answered = DOMAIN servers_list THEN 0
                      ELSE IF answered = {} THEN 2
                      ELSE 1

\* For PROMETHEUS_URLS in its documented form, a failure (status 1 or 2)
\* is reported only when a node listed there really was down or answering
\* an error at some point of the run: the parsing of _get_list_of_servers
\* and requests' handling of the resulting strings add no failing server.
FailureIsReal ==
    status_code \in {1, 2} /\ servers \in Documented =>
        failedUrls \cap ToSet(servers) # {}

\* The run ends, printing its line or raising, whatever the nodes do: every
\* request of the loop is bounded by the timeout (health_metric.py passes
\* timeout= to requests.get), so a node that never answers cannot hold it.
RunEnds == <>(pc \in {"done", "crashed"})
=============================================================================
