------------------------------ MODULE MCIngest ------------------------------
(***************************************************************************)
(* The ingest side for TLC: the syslog receiver fills firewall_logs, and   *)
(* its readers read it: two refreshes of the rollup, the rollup beside the *)
(* retention (on a day when old messages still come in), or the login      *)
(* cache.  They share nothing but the table, so each behaviour explores    *)
(* one of the three.                                                       *)
(***************************************************************************)
EXTENDS SyslogReceiver, MapRollup, LoginCache

CONSTANTS pub, priv, odd

VARIABLE reader  \* which of them this behaviour explores

vars == <<tableVars, today, faults, syslogVars, rollupVars, loginVars, reader>>

M(src, dst, type, denied, login, at) ==
    [src |-> src, dst |-> dst, type |-> type, denied |-> denied,
     login |-> login, at |-> at]

MCMessages ==
    {M(priv, pub, "Firewall", FALSE, FALSE, 0),
     M(odd, pub, "Detection", TRUE, FALSE, 1),
     M(pub, priv, "Other", FALSE, TRUE, 0),
     M(pub, NoIp, "Other", TRUE, TRUE, 1)}

Init ==
    /\ SyslogInit /\ RollupInit /\ LoginInit
    /\ reader \in {"rollup", "retention", "logins"}
    /\ today = IF reader = "retention" THEN MaxDay ELSE IF reader = "logins" THEN 1 ELSE 0

\* The messages the reader is about.
Relevant == {m \in Messages : m.login = (reader = "logins")}

\* Two refreshers compete while nothing is purged, and one while something is.
Callers == IF reader = "rollup" THEN Refreshers
           ELSE IF reader = "retention" THEN Jobs ELSE {}

\* Where the login cache is the reader, which sees only what is committed,
\* located or not, rows come one at a time and a top-up waits for the commit:
\* its steps commute with those before.
OneByOne ==
    reader = "logins" =>
      /\ Len(queue') + Len(batch') <= 1 /\ faults' = faults
      /\ \A r \in logs' : r.located

Stored == queue = <<>> /\ batch = <<>>

Receiving(A) == A /\ OneByOne /\ UNCHANGED <<rollupVars, loginVars, reader>>
Reading(A) == A /\ UNCHANGED <<syslogVars, loginVars, reader>>
ToppingUp(A) == reader = "logins" /\ Stored /\ A /\ UNCHANGED <<syslogVars, rollupVars, reader>>

Next ==
    \/ Receiving(SyslogStep(Relevant))
    \/ Reading(RollupStep(Callers))
    \/ reader = "retention" /\ Reading(PurgeStep)
    \/ reader = "logins" /\ Stored /\ Reading(NextDay)
    \/ ToppingUp(LoginStep)

Spec == Init /\ [][Next]_vars

(***************************************************************************)
(* The event loops resume the worker, a refresh and a top-up, the          *)
(* scheduler starts them again and again, a stopped receiver is restarted. *)
(***************************************************************************)
FairSpec ==
    /\ Spec
    /\ WF_vars(Receiving(Worker)) /\ WF_vars(Receiving(Restart))
    /\ WF_vars(Reading(\E r \in Callers : RefreshStep(r)))
    /\ \A j \in LoginJobs : WF_vars(ToppingUp(TopUpStep(j)))

(* The rollup catches up with the receiver (RollupCatchesUp of MapRollup), *)
(* where it runs.                                                          *)
CatchesUp == reader # "logins" => RollupCatchesUp

(* Failed logins reach the cache (LoginsReachCache of LoginCache), where   *)
(* it is filled.                                                           *)
ReachCache == reader = "logins" => LoginsReachCache
=============================================================================
