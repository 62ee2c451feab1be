----------------------------- MODULE IpMonitor -----------------------------
(***************************************************************************)
(* Monitored addresses.  An address on the blocklist or the watchlist can  *)
(* be flagged; each scan looks at the NetFlow buckets of the last minutes, *)
(* keeps a row per pair of host and flagged address and raises an event    *)
(* for a new pair and for one that was quiet for a while.  The job and the *)
(* button run the same scan, also at the same time: both read the rows,    *)
(* and the unique key decides who may insert.                              *)
(***************************************************************************)
EXTENDS NetFlow, FiniteSets, SequencesExt

CONSTANTS
    Scanners,  \* the job and the endpoint
    Lookback,  \* how far back a scan looks (10 minutes)
    Gap,       \* how long a pair must have been quiet (24 hours)
    PushCap,   \* events pushed per scan (20)
    NoRow,     \* a pair without a row
    MaxEvents, \* bound
    MaxEdits   \* bound: changes of the lists

ASSUME IpMonitorAssumption ==
    /\ Lookback \in Nat /\ Gap \in Nat /\ Gap > Lookback /\ NoRow \notin Int
    /\ PushCap \in Nat \ {0} /\ MaxEvents \in Nat /\ MaxEdits \in Nat

VARIABLES
    listed,  \* for each list: not there, there, or there and flagged
    conns,   \* monitored_connections: the last_seen of each pair
    events,  \* monitored_events
    scan,    \* the locals of each scanner
    edits

monitorVars == <<listed, conns, events, scan, edits>>

Lists == {"blocked", "watchlist"}

NoScan == [pc |-> "idle"]

MonitorTypeOK ==
    /\ listed \in [Lists -> {"absent", "plain", "monitored"}]
    /\ conns \in [Pairs -> (0..MaxClock) \cup {NoRow}]
    /\ \A i \in DOMAIN events :
         events[i] \in [pair : Pairs, type : {"new_pair", "reappeared"},
                        at : 0..MaxClock, after : Nat, notified : BOOLEAN]
    /\ Len(events) <= MaxEvents + Cardinality(Pairs) * Cardinality(Scanners)

MonitorInit ==
    /\ listed = [l \in Lists |-> IF l = "blocked" THEN "monitored" ELSE "absent"]
    /\ conns = [p \in Pairs |-> NoRow]
    /\ events = <<>>
    /\ scan = [s \in Scanners |-> NoScan]
    /\ edits = 0

Edit(new) ==
    /\ edits < MaxEdits /\ edits' = edits + 1
    /\ listed' = new /\ listed' # listed
    /\ UNCHANGED <<netVars, clock, conns, events, scan>>

\* Blocking, or adding to the watchlist: a new entry is not flagged.
AddToList ==
    \E l \in Lists : listed[l] = "absent" /\ Edit([listed EXCEPT ![l] = "plain"])

\* The flag goes with the entry.
RemoveFromList == \E l \in Lists : Edit([listed EXCEPT ![l] = "absent"])

\* set_monitor_flag: on every list the address is on.
SetMonitorFlag ==
    \E flag \in {"plain", "monitored"} :
      Edit([l \in Lists |-> IF listed[l] = "absent" THEN "absent" ELSE flag])

Monitored == \E l \in Lists : listed[l] = "monitored"

\* The pairs with a bucket in the window, and the newest of these.
Observed ==
    LET window == {b \in buckets : b.at >= clock - Lookback}
    IN [p \in {b.pair : b \in window} |->
          CHOOSE t \in {b.at : b \in window} :
            /\ [pair |-> p, at |-> t] \in window
            /\ \A b \in window : b.pair = p => b.at <= t]

\* monitor_scan: the flagged addresses and their buckets.
ScanStart(s) ==
    /\ scan[s] = NoScan
    /\ Monitored
    /\ Observed # <<>>
    /\ Len(events) < MaxEvents
    /\ scan' = [scan EXCEPT ![s] =
         [pc |-> "read", now |-> clock, seen |-> Observed, after |-> Len(events)]]
    /\ UNCHANGED <<netVars, clock, listed, conns, events, edits>>

\* The rows of the observed pairs.
ScanRead(s) ==
    /\ scan[s].pc = "read"
    /\ scan' = [scan EXCEPT ![s] =
         [pc |-> "write", now |-> scan[s].now, seen |-> scan[s].seen,
          after |-> scan[s].after,
          rows |-> [p \in DOMAIN scan[s].seen |-> conns[p]]]]
    /\ UNCHANGED <<netVars, clock, listed, conns, events, edits>>

\* Mutant: a known pair is reported whenever it is seen.
RaisesSeen(sc, type) ==
    {p \in DOMAIN sc.seen : (type = "new_pair") = (sc.rows[p] = NoRow)}

\* The pairs of a scan that raise an event of a type.
Raises(sc, type) ==
    {p \in DOMAIN sc.seen :
       IF type = "new_pair" THEN sc.rows[p] = NoRow
       ELSE sc.rows[p] # NoRow /\ sc.now - sc.rows[p] >= Gap}

NewEvents(sc) ==
    UNION {{[pair |-> p, type |-> type, at |-> sc.now, after |-> sc.after, notified |-> FALSE] :
              p \in Raises(sc, type)} : type \in {"new_pair", "reappeared"}}

\* Another scan has inserted the row in between: the unique key objects.
Conflict(sc) == \E p \in Raises(sc, "new_pair") : conns[p] # NoRow

\* last_seen moves forward, from the row as it was read.
LastSeen(sc) ==
    [p \in Pairs |->
       IF p \notin DOMAIN sc.seen THEN conns[p]
       ELSE IF sc.rows[p] = NoRow \/ sc.seen[p] > sc.rows[p] THEN sc.seen[p]
       ELSE conns[p]]

ScanCommit(s) ==
    /\ scan[s].pc = "write" /\ ~Conflict(scan[s])
    /\ conns' = LastSeen(scan[s])
    /\ \E new \in SetToSeqs(NewEvents(scan[s])) :
         /\ events' = events \o new
         /\ scan' = [scan EXCEPT ![s] =
              IF new = <<>> THEN NoScan
              ELSE [pc |-> "notify", from |-> Len(events),
                    upto |-> Len(events) + Len(new)]]
    /\ UNCHANGED <<netVars, clock, listed, edits>>

\* The whole scan is rolled back.
ScanConflict(s) ==
    /\ scan[s].pc = "write" /\ Conflict(scan[s])
    /\ scan' = [scan EXCEPT ![s] = NoScan]
    /\ UNCHANGED <<netVars, clock, listed, conns, events, edits>>

\* The events are pushed after the commit, up to the cap.
ScanNotify(s) ==
    /\ scan[s].pc = "notify"
    /\ LET n == scan[s].from + 1
       IN /\ \E sent \in BOOLEAN : events' = [events EXCEPT ![n].notified = sent]
          /\ scan' = [scan EXCEPT ![s] =
               IF n = scan[s].upto \/ n = scan[s].from + PushCap THEN NoScan
               ELSE [scan[s] EXCEPT !.from = n]]
    /\ UNCHANGED <<netVars, clock, listed, conns, edits>>

\* The backend dies: what was not pushed stays unpushed.
ScanDies(s) ==
    /\ scan[s] # NoScan
    /\ netMeter.failures < MaxNetFails
    /\ netMeter' = [netMeter EXCEPT !.failures = @ + 1]
    /\ scan' = [x \in Scanners |-> NoScan]
    /\ UNCHANGED <<flushAt, buckets, clock, listed, conns, events, edits>>

\* Time passes in steps much longer than a scan, which is bounded by a timeout.
MonitorTick ==
    /\ clock < MaxClock
    /\ \A s \in Scanners : scan[s] = NoScan
    /\ clock' = clock + 1
    /\ UNCHANGED <<netVars, monitorVars>>

ScanStep(s) ==
    \/ ScanStart(s) \/ ScanRead(s) \/ ScanCommit(s) \/ ScanConflict(s)
    \/ ScanNotify(s) \/ ScanDies(s)

MonitorStep ==
    \/ NetStep /\ UNCHANGED monitorVars
    \/ AddToList \/ RemoveFromList \/ SetMonitorFlag
    \/ \E s \in Scanners : ScanStep(s)
    \/ MonitorTick

----------------------------------------------------------------------------
(* A pair is new once, whoever scans and however scans overlap; and a scan *)
(* that begins after an event of the pair is committed raises the next one *)
(* only when the pair has been quiet, as far as the scans could tell, for  *)
(* the gap.  (Two scans at the same time may both report a pair that is    *)
(* back: neither the key nor a lock keeps the second from it.)             *)
EventsSpaced ==
    \A i, j \in DOMAIN events :
      i < j /\ events[i].pair = events[j].pair =>
        /\ events[j].type = "reappeared"
        /\ events[j].after >= i => events[j].at - events[i].at >= Gap - Lookback

(* netflow_buckets and netflow_iface_buckets count every flow record at    *)
(* most once and miss it only after a failed write or a crash.             *)
NetImplementsCounter == Net!Implemented
=============================================================================
