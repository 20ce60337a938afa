------------------------------ MODULE MCEmmaNode ------------------------------
(***************************************************************************)
(* Small nodes: two agents, one local resource and S/time.                 *)
(***************************************************************************)
EXTENDS EmmaNode

CONSTANTS a1, a2, l1, time, none

OneAgent == {a1, time}
TwoAgents == {a1, a2, time}
MCUris == {a1, l1, time}

Flat == [u \in Uris |-> none]
MCRootOf == [u \in Uris |-> CASE u \in {a1, a2} -> "A" [] u = l1 -> "L" [] u = time -> "S"]
MCBoot == <<time>>
MCCapacity == [r \in Roots |-> Cardinality({u \in Uris : MCRootOf[u] = r})]

Request(method, u) == [method |-> method, uri |-> u, num |-> 0, more |-> FALSE, payload |-> FALSE]

(* The blocks 0 .. last of a transfer.                                     *)
Transfer(method, u, last) ==
  {[method |-> method, uri |-> u, num |-> n, more |-> n < last, payload |-> TRUE] : n \in 0 .. last}

To(local, method, u) == [local |-> local, method |-> method, uri |-> u]

(* One sender that installs and updates an agent in three blocks.          *)
OneSender == Transfer("PUT", a1, 2) \cup Transfer("POST", a1, 2)
RemoteAgent == [u \in Uris |-> IF u = a1 THEN {To(FALSE, "PUT", a1)} ELSE {}]

LocalAgent ==
  [u \in Uris |-> IF u = a1 THEN {To(TRUE, "PUT", l1), To(FALSE, "POST", l1)} ELSE {}]

(* Two agents that come and go, by requests and by each other, and        *)
(* requests of every other kind, one of them to the root S.                *)
AgentRequests ==
  Transfer("PUT", a1, 0) \cup Transfer("POST", a2, 0) \cup Transfer("PUT", time, 0)
  \cup {Request(m, a1) : m \in {"GET", "LIST", "CORE", "PUT", "DELETE"}}

AgentTargets ==
  [u \in Uris |-> CASE u = a1 -> {To(TRUE, "POST", a2), To(FALSE, "PUT", a1)}
                    [] u = a2 -> {To(TRUE, "DELETE", a2), To(TRUE, "PUT", a2)}
                    [] u \notin {a1, a2} -> {}]

(* An agent that deletes another one, whenever it runs.                    *)
Deleter == [u \in Uris |-> IF u = a1 THEN {To(TRUE, "DELETE", a2)} ELSE {}]
=============================================================================
