---------------------------- MODULE FirewallLogs ----------------------------
(***************************************************************************)
(* The table firewall_logs, which the syslog receiver fills and the map    *)
(* rollup, the retention job and the failed-login agent read: what a row   *)
(* records of a syslog message, and which end of the connection is taken   *)
(* for the attacker, by the receiver (to locate it) and by the rollup (to  *)
(* name it).                                                               *)
(***************************************************************************)
EXTENDS Naturals, FiniteSets, FiniteSetsExt

CONSTANTS
    Public,    \* addresses that are globally routable
    Private,   \* addresses in one of the rollup's private ranges
    Special,   \* neither: reserved ranges, every internal IPv6 address
    Messages,  \* the messages the firewalls may send
    NoIp,      \* a field that is not set
    MaxIds,    \* bound: ids the sequence of the table gives out
    MaxFaults  \* bound: failures, shutdowns and losses of the cache

Addresses == Public \cup Private \cup Special

(***************************************************************************)
(* A message names both ends, the type of log (connection logs are of type *)
(* "Firewall", those of ATP, IDP, virus and sandbox modules "Detection"),  *)
(* whether the connection was denied, whether it reports a failed login    *)
(* from outside, and the time on the clock of the firewall.                *)
(***************************************************************************)
Message == [src : Addresses \cup {NoIp}, dst : Addresses \cup {NoIp},
            type : {"Firewall", "Detection", "Other"},
            denied : BOOLEAN, login : BOOLEAN, at : Nat]

ASSUME LogAssumption ==
    /\ Messages \subseteq Message /\ IsFiniteSet(Messages)
    /\ NoIp \notin Addresses
    /\ Public \cap Private = {} /\ Public \cap Special = {}
    /\ Private \cap Special = {}
    /\ MaxIds \in Nat /\ MaxFaults \in Nat

VARIABLES
    logs,      \* the rows committed to firewall_logs
    nextId,    \* the next value of the sequence behind firewall_logs.id
    today,     \* the clock, in days
    faults     \* failures so far

tableVars == <<logs, nextId>>

(***************************************************************************)
(* A row: its id, when its message arrived, the message, and whether the   *)
(* attacker was located.                                                   *)
(***************************************************************************)
Row == [id : Nat, arrival : Nat, msg : Messages, located : BOOLEAN]

\* The end the receiver looks up: a public source, else a public destination
\* unless the connection was denied and nothing detected.
AttackerOf(m) ==
    IF m.src \in Public THEN m.src
    ELSE IF m.dst \in Public /\ (m.type = "Detection" \/ ~m.denied) THEN m.dst
    ELSE NoIp

\* Mutant: the source is the threat, whatever it is.
SourceOf(m) == IF m.src = NoIp THEN m.dst ELSE m.src

\* The end the rollup names.
ThreatOf(m) ==
    IF m.src = NoIp THEN m.dst
    ELSE IF m.dst = NoIp THEN m.src
    ELSE IF m.src \in Private /\ m.dst \notin Private THEN m.dst
    ELSE m.src

Ids(rs) == {r.id : r \in rs}

Fault ==
    /\ faults < MaxFaults
    /\ faults' = faults + 1
=============================================================================
