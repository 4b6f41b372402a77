----------------------------- MODULE MCServices -----------------------------
(* Instances for TLC: two items and two workers; a graph of two nodes and   *)
(* the node that needs both; three callers of the query cache, two of one   *)
(* tenant and two of one user name; two providers with two models each, one *)
(* of which is not eligible; three emitters, one of them in another process. *)
EXTENDS WorkQueue, AnalyticalGraph, CacheService, ModelRouter, EventStream

MCDependencies == [n \in Nodes |-> IF n = "join" THEN Nodes \ {"join"} ELSE {}]

MCProviderOf == [m \in Models |-> IF m \in {"m1", "m2"} THEN "p1" ELSE "p2"]

MCPolicy ==
    [certified |-> TRUE, purposes |-> {"report"}, tags |-> {"finance"}, denied_columns |-> {"salary"},
     metrics |-> {}, maximum_rows |-> 2, maximum_bytes |-> 2, maximum_seconds |-> 2, actions |-> {}]

Trust(source) ==
    [source |-> source, certified |-> TRUE, maximum_age |-> 1, age |-> 1,
     minimum_completeness |-> NotGiven, completeness |-> NotGiven]

Request(tenant, user, sources, actual_rows) ==
    [tenant |-> tenant, user |-> user, purpose |-> "report", query |-> "q", fingerprint |-> "roles",
     sources |-> sources, tags |-> {"finance"}, columns |-> {}, metrics |-> {"revenue"},
     trust |-> {Trust(s) : s \in sources}, estimate |-> [rows |-> 2, bytes |-> 1, seconds |-> 1],
     actions |-> {}, actual_rows |-> actual_rows]

\* The rows bob's load finds are over the quota; eve's request names a denied column.
MCRequests ==
    [ann |-> Request("acme", "ann", {"s1"}, 2), bob |-> Request("acme", "bob", {"s1", "s2"}, 3),
     other |-> Request("other", "ann", {"s2"}, 1),
     eve |-> [Request("acme", "eve", {"s1"}, 1) EXCEPT !.columns = {"salary"}]]

MCConfigurations ==
    {[scope |-> "tenant", backend |-> "memory"], [scope |-> "tenant", backend |-> "redis"],
     [scope |-> "user", backend |-> "memory"], [scope |-> "session", backend |-> "memory"]}

-----------------------------------------------------------------------------
(* The five services do not interact: a behaviour exercises one of Subjects. *)

CONSTANT Subjects

VARIABLE subject

allVars == <<vars, graphVars, cacheVars, routerVars, eventVars, subject>>

MCInit ==
    /\ Init /\ GraphInit /\ CacheInit /\ RouterInit /\ EventInit
    /\ subject \in Subjects
    /\ subject # "cache" => config = [scope |-> "tenant", backend |-> "memory"]
    /\ subject # "events" => bus = CHOOSE b \in Buses : TRUE

MCNext ==
    /\ UNCHANGED subject
    /\ \/ /\ subject = "queue" /\ Next
          /\ UNCHANGED <<graphVars, cacheVars, routerVars, eventVars>>
       \/ /\ subject = "graph" /\ GraphNext
          /\ UNCHANGED <<vars, cacheVars, routerVars, eventVars>>
       \/ /\ subject = "cache" /\ CacheNext
          /\ UNCHANGED <<vars, graphVars, routerVars, eventVars>>
       \/ /\ subject = "router" /\ RouterNext
          /\ UNCHANGED <<vars, graphVars, cacheVars, eventVars>>
       \/ /\ subject = "events" /\ EventNext
          /\ UNCHANGED <<vars, graphVars, cacheVars, routerVars>>

MCSpec == MCInit /\ [][MCNext]_allVars

=============================================================================
