----------------------------- MODULE Collectors -----------------------------
(***************************************************************************)
(* The collectors poll for what is new since the newest row they stored,   *)
(* looking back a little further because items turn up late.  Alerts and   *)
(* events of Sophos Central move one cursor together, detections only      *)
(* follow it; sign-ins of Microsoft 365 have their own, and a failed one   *)
(* is stored as an alert too.  The job and the button may overlap, a fetch *)
(* may fail, a commit may meet rows of the other cycle.                    *)
(***************************************************************************)
EXTENDS Integers, FiniteSets, FiniteSetsExt, Sequences

CONSTANTS
    AlertItems, EventItems, DetectionItems, LoginItems,  \* what is published
    CentralCycles, LoginCycles,  \* job and button; the collector of sign-ins
    CentralOverlap,  \* how far a cycle of Central looks back (5 minutes)
    LoginOverlap,    \* the same for sign-ins (45 minutes)
    LoginReach,      \* the API gives no older sign-ins (24 hours)
    CentralLag, LoginLag,  \* how late an item may turn up
    CycleTime,       \* how long a cycle takes
    MaxCollectTime, MaxCycles  \* bounds

ASSUME CollectorsAssumption ==
    /\ {CentralOverlap, LoginOverlap, LoginReach, CentralLag, LoginLag, CycleTime} \subseteq Nat
    /\ CentralLag + CycleTime <= CentralOverlap /\ LoginLag + CycleTime <= LoginOverlap
    /\ LoginItems \cap (AlertItems \cup EventItems \cup DetectionItems) = {}

VARIABLES
    shown,     \* when each item was raised, once it has been published
    kept,      \* the items that are stored
    foreign,   \* when the newest failed sign-in among the alerts was raised
    cycle,     \* the locals of each collection cycle
    cut,       \* of which collectors a cycle did not do all of its work
    cycles,    \* bound: cycles so far
    minute

collectVars == <<shown, kept, foreign, cycle, cut, cycles, minute>>

Items == AlertItems \cup EventItems \cup DetectionItems \cup LoginItems
Cycles == CentralCycles \cup LoginCycles
NoCycle == [pc |-> "idle"]
Never == -1

CollectTypeOK ==
    /\ shown \in [Items -> Never..minute] /\ kept \subseteq {x \in Items : shown[x] # Never}
    /\ foreign \in Never..minute
    /\ \A c \in Cycles : cycle[c].pc \in {"idle", "fetch", "check", "commit"}
    /\ cut \subseteq {"central", "logins"}

CollectInit ==
    /\ shown = [x \in Items |-> Never] /\ kept = {} /\ foreign = Never
    /\ cycle = [c \in Cycles |-> NoCycle]
    /\ cut = {} /\ cycles = 0 /\ minute = 0

LagOf(x) == IF x \in LoginItems THEN LoginLag ELSE CentralLag

\* An item appears, dated a little back.
Published ==
    /\ \E x \in Items : \E at \in (minute - LagOf(x))..minute :
         /\ shown[x] = Never /\ at >= 0
         /\ shown' = [shown EXCEPT ![x] = at]
    /\ UNCHANGED <<kept, foreign, cycle, cut, cycles, minute>>

WhoIs(c) == IF c \in CentralCycles THEN "central" ELSE "logins"

\* What the cycle fetches, in this order.
Plan(c) ==
    IF c \in CentralCycles THEN <<AlertItems, EventItems, DetectionItems>>
    ELSE <<LoginItems>>

\* SELECT max(created_at): of alerts and events, or of the sign-ins.
Newest(who) ==
    LET rows == kept \cap IF who = "central" THEN AlertItems \cup EventItems ELSE LoginItems
    IN Max({shown[x] : x \in rows} \cup {IF who = "central" THEN foreign ELSE Never})

\* Mutant: a cycle begins where the rows end.
FromNewest(who) == Newest(who)

\* from_date; without any row everything is fetched.
FromDate(who) ==
    IF Newest(who) = Never THEN Never
    ELSE Newest(who) - IF who = "central" THEN CentralOverlap ELSE LoginOverlap

Clamped(who) == who = "logins" /\ FromDate(who) < minute - LoginReach

CycleStart(c) ==
    /\ cycle[c] = NoCycle
    /\ cycles < MaxCycles /\ cycles' = cycles + 1
    /\ cycle' = [cycle EXCEPT ![c] =
         [pc |-> "fetch", todo |-> Plan(c), began |-> minute,
          from |-> IF Clamped(WhoIs(c)) THEN minute - LoginReach ELSE FromDate(WhoIs(c))]]
    /\ cut' = IF Clamped(WhoIs(c)) THEN cut \cup {WhoIs(c)} ELSE cut
    /\ UNCHANGED <<shown, kept, foreign, minute>>

\* On to the next kind of item, or done.
Onward(c) ==
    IF Len(cycle[c].todo) = 1 THEN NoCycle
    ELSE [pc |-> "fetch", todo |-> Tail(cycle[c].todo),
          began |-> cycle[c].began, from |-> cycle[c].from]

\* get_alerts, get_events, get_detections, get_login_records.
Fetched(c) ==
    /\ cycle[c].pc = "fetch"
    /\ cycle' = [cycle EXCEPT ![c] =
         [pc |-> "check", todo |-> @.todo, began |-> @.began, from |-> @.from,
          batch |-> {x \in Head(@.todo) : shown[x] # Never /\ shown[x] >= @.from}]]
    /\ UNCHANGED <<shown, kept, foreign, cut, cycles, minute>>

\* A fetch fails for good (of sign-ins, one blob): the rest goes on.
FetchFails(c) ==
    /\ cycle[c].pc = "fetch"
    /\ cycle' = [cycle EXCEPT ![c] = Onward(c)]
    /\ cut' = cut \cup {WhoIs(c)}
    /\ UNCHANGED <<shown, kept, foreign, cycles, minute>>

\* Rows that are added and not committed yet; without any, on to the next.
Storing(c, rows) ==
    IF rows = {} THEN Onward(c)
    ELSE [pc |-> "commit", todo |-> cycle[c].todo, began |-> cycle[c].began,
          from |-> cycle[c].from, batch |-> rows]

\* _process_...: each item is looked for before it is added.
Checked(c) ==
    /\ cycle[c].pc = "check"
    /\ cycle' = [cycle EXCEPT ![c] = Storing(c, cycle[c].batch \ kept)]
    /\ UNCHANGED <<shown, kept, foreign, cut, cycles, minute>>

\* A failed sign-in among the rows is an alert as well, and moves the
\* cursor of the alerts.
Stirs(c, rows) ==
    IF c \in LoginCycles /\ \E x \in rows : shown[x] > foreign
    THEN \/ UNCHANGED <<foreign, cut>>
         \/ foreign' = Max({shown[x] : x \in rows}) /\ cut' = cut \cup {"central"}
    ELSE UNCHANGED <<foreign, cut>>

\* The commit at the end, or one that a lookup of an address makes before.
Committed(c) ==
    /\ cycle[c].pc = "commit" /\ cycle[c].batch \cap kept = {}
    /\ \E rows \in (SUBSET cycle[c].batch) \ {{}} :
         /\ kept' = kept \cup rows
         /\ cycle' = [cycle EXCEPT ![c] = Storing(c, cycle[c].batch \ rows)]
         /\ Stirs(c, rows)
    /\ UNCHANGED <<shown, cycles, minute>>

\* The other cycle has stored one of the rows: the session is unusable for
\* the rest of this cycle.
CommitConflict(c) ==
    /\ cycle[c].pc = "commit" /\ cycle[c].batch \cap kept # {}
    /\ cycle' = [cycle EXCEPT ![c] = NoCycle]
    /\ cut' = cut \cup {WhoIs(c)}
    /\ UNCHANGED <<shown, kept, foreign, cycles, minute>>

\* The backend is restarted in the middle of a cycle.
CyclesDie ==
    /\ \E c \in Cycles : cycle[c] # NoCycle
    /\ cut' = cut \cup {WhoIs(c) : c \in {d \in Cycles : cycle[d] # NoCycle}}
    /\ cycle' = [c \in Cycles |-> NoCycle]
    /\ UNCHANGED <<shown, kept, foreign, cycles, minute>>

\* Time passes; no cycle takes longer than CycleTime.
CollectTick ==
    /\ minute < MaxCollectTime /\ minute' = minute + 1
    /\ \A c \in Cycles : cycle[c] # NoCycle => minute < cycle[c].began + CycleTime
    /\ UNCHANGED <<shown, kept, foreign, cycle, cut, cycles>>

CycleStep(c) ==
    \/ CycleStart(c) \/ Fetched(c) \/ FetchFails(c) \/ Checked(c)
    \/ Committed(c) \/ CommitConflict(c)

CollectStep ==
    (\E c \in Cycles : CycleStep(c)) \/ Published \/ CyclesDie \/ CollectTick

----------------------------------------------------------------------------
\* What a running cycle still has to fetch or to store.
Awaited(who) ==
    {x \in Items : \E c \in Cycles :
       /\ WhoIs(c) = who /\ cycle[c] # NoCycle /\ shown[x] >= cycle[c].from
       /\ \/ \E k \in 2..Len(cycle[c].todo) : x \in cycle[c].todo[k]
          \/ cycle[c].pc = "fetch" /\ x \in Head(cycle[c].todo)
          \/ cycle[c].pc # "fetch" /\ x \in cycle[c].batch}

ItemsOf(who) == IF who = "logins" THEN LoginItems ELSE Items \ LoginItems

(* The next cycle never begins behind an item that is missing: what was    *)
(* raised before its from_date is stored, or a running cycle will store it *)
(* - although items turn up late, three lists share one cursor and cycles  *)
(* overlap.  It takes a cycle that was cut short (a failed fetch, a        *)
(* conflict, a restart), a window that reached its limit, or a failed      *)
(* sign-in moving the cursor of the alerts to lose one.                    *)
NoGap ==
    \A who \in {"central", "logins"} \ cut : \A x \in ItemsOf(who) :
      shown[x] # Never /\ shown[x] < FromDate(who) => x \in kept \cup Awaited(who)
=============================================================================
