--------------------------- MODULE MCMdrFeedSeed ---------------------------
(***************************************************************************)
(* MdrFeed with a history variable: owed[f] are the rows whose push to f   *)
(* was aborted by a transient error.                                       *)
(***************************************************************************)
EXTENDS MCMdrFeed

VARIABLE owed

OwedInit == Init /\ owed = [f \in Firewalls |-> {}]

AbortedTo(f) == \E c \in Callers : PostFailed(c, f)

Unsent(f) ==
    UNION {sync[c].queue \cup sync[c].items : c \in {x \in Callers : sync[x].cur = f}}

OwedNext ==
    /\ Next
    /\ owed' = [f \in Firewalls |->
                  IF AbortedTo(f) THEN owed[f] \cup Unsent(f) ELSE owed[f]]

OwedSpec == OwedInit /\ [][OwedNext]_<<vars, owed>>

(* "The firewall's cursor does NOT advance and the same delta is retried": *)
(* after a push was aborted by a transient error, the cursor does not move *)
(* past its rows before the firewall has settled them.                     *)
AbortedPushIsRetried ==
    [][\A f \in Firewalls : \A r \in rows \cap owed[f] :
         ~Passed(f, r) /\ r \notin settled[f] => ~Passed(f, r)']_<<vars, owed>>
=============================================================================
