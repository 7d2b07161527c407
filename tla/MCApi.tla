--------------------------------- MODULE MCApi ---------------------------------
(***************************************************************************)
(* Four parts: the rate limiters; the token store at its limit, with       *)
(* routes that need no token; one token that comes and goes, with a route  *)
(* that writes; every kind of route, with a token each for two projects.   *)
(***************************************************************************)
EXTENDS RateLimits, HttpApi
CONSTANTS t1, t2, alice, bob
VARIABLE part
mcVars == <<limitVars, apiVars, part>>

MCInit ==
  /\ LimitInit
  /\ \/ part = "limits" /\ ApiInit(<<>>, Nobody, Nobody)
     \/ part \in {"store", "tokens"} /\ ApiInit(<<>>, Nobody, Nobody) /\ limiter = "bucket"
     \/ part = "routes" /\ limiter = "bucket"
        /\ \E owner, queued \in {alice, Nobody} :
              /\ queued = alice => owner = alice
              /\ ApiInit(<<[tok |-> t1, at |-> 0, user |-> alice],
                           [tok |-> t2, at |-> 0, user |-> bob]>>, owner, queued)
Shared == {k \in Kinds : k.write /\ k.scope = "any"} \cup {NewRequest.kind}
MCNext ==
  /\ UNCHANGED part
  /\ \/ part = "limits" /\ LimitNext /\ UNCHANGED apiVars
     \/ part = "store" /\ ApiNext /\ UNCHANGED <<limitVars, now>>
        /\ \A r \in Requests : req'[r].kind.scope = "open"
     \/ part = "tokens" /\ ApiNext /\ UNCHANGED <<limitVars, laneVars>>
        /\ \A r \in Requests : req'[r].tok \in {Nobody, t1} /\ req'[r].kind \in Shared
        /\ \A i \in DOMAIN tokens' : tokens'[i].tok = t1
        /\ \A u \in Users : granted'[u] >= granted[u]
     \/ part = "routes" /\ ApiNext /\ UNCHANGED <<limitVars, changes, now>>
MCSpec == MCInit /\ [][MCNext]_mcVars

\* The limiters, tokens and requests keep their types (AuthToken,
\* UserProjectContext, ApiResponse).
TypeOK == LimitTypeOK /\ ApiTypeOK
================================================================================
