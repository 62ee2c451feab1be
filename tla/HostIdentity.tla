---------------------------- MODULE HostIdentity ----------------------------
(***************************************************************************)
(* The watch over which hardware answers at which internal address.  A     *)
(* scan compares the rows of ip_hostnames with every combination that was  *)
(* ever seen, stores what is new together with an event that says what it  *)
(* means, and raises an alarm for an address that changed its hardware.    *)
(* The first scan learns silently.  The job and the button both scan.      *)
(* How the rows of ip_hostnames come about is in HostNames; here they just *)
(* change.                                                                 *)
(***************************************************************************)
EXTENDS Integers, Bags

CONSTANTS
    Inventory,  \* internal addresses
    Cards,      \* hardware addresses
    Titles,     \* names
    Unknown,    \* no name, no hardware address
    Scans,      \* the job and the button
    AlarmLimit, \* alarms of one scan (20)
    MaxScans, MaxRebound  \* bounds: scans and restarts; changes of a row

ASSUME HostIdentityAssumption ==
    Unknown \notin Cards \cup Titles /\ AlarmLimit \in Nat \ {0}

VARIABLES
    bindings,    \* ip_hostnames: the hardware and the name of each address
    idents,      \* host_identities: the name last seen with each combination
    identEvents, \* host_identity_events, a bag: nothing depends on their order
    identAlarms, \* the events that were sent
    scan,        \* the locals of each scan
    seeded,      \* the combinations learned silently
    overlapped,  \* whether two scans ever ran side by side
    scans, rebound  \* bounds: scans and restarts so far, changes so far

identVars == <<bindings, idents, identEvents, identAlarms, scan, seeded, overlapped,
               scans, rebound>>

NoScan == [pc |-> "idle"]
Combos == Inventory \X Cards

\* The kinds of event that a new combination can be.
Firsts == {"ip_mac_change", "mac_moved", "new_device"}

IdentityTypeOK ==
    /\ bindings \in [Inventory -> [card : Cards \cup {Unknown}, title : Titles \cup {Unknown}]]
    /\ DOMAIN idents \subseteq Combos /\ \A c \in DOMAIN idents : idents[c] \in Titles \cup {Unknown}
    /\ seeded \subseteq DOMAIN idents
    /\ \A e \in BagToSet(identEvents) :
         e.type \in Firsts \cup {"hostname_change"} /\ e.of \in DOMAIN idents
    /\ identAlarms \subseteq BagToSet(identEvents)
    /\ \A s \in Scans : scan[s].pc \in {"idle", "known", "commit", "alarm"}

IdentityInit ==
    /\ bindings = [h \in Inventory |-> [card |-> Unknown, title |-> Unknown]]
    /\ idents = <<>> /\ identEvents = EmptyBag /\ identAlarms = {}
    /\ scan = [s \in Scans |-> NoScan]
    /\ seeded = {} /\ overlapped = FALSE /\ scans = 0 /\ rebound = 0

SpendsScan == scans < MaxScans /\ scans' = scans + 1

\* A row is resolved anew, or deleted with the name an operator takes back;
\* the hardware is kept when none is found.
Rebound ==
    /\ rebound < MaxRebound /\ rebound' = rebound + 1
    /\ \E h \in Inventory, card \in Cards \cup {Unknown}, title \in Titles \cup {Unknown} :
         bindings' = [bindings EXCEPT ![h] = [card |-> card, title |-> title]]
    /\ bindings' # bindings
    /\ UNCHANGED <<idents, identEvents, identAlarms, scan, seeded, overlapped, scans>>

\* The rows with a hardware address.
ScanReads(s) ==
    /\ scan[s] = NoScan /\ SpendsScan
    /\ scan' = [scan EXCEPT ![s] =
         [pc |-> "known",
          rows |-> {<<h, bindings[h].card>> : h \in {x \in Inventory : bindings[x].card # Unknown}},
          labels |-> [h \in Inventory |-> bindings[h].title]]]
    /\ overlapped' = (overlapped \/ \E t \in Scans : scan[t] # NoScan)
    /\ UNCHANGED <<bindings, idents, identEvents, identAlarms, seeded, rebound>>

ScanCompares(s) ==
    /\ scan[s].pc = "known"
    /\ scan' = [scan EXCEPT ![s] =
         [pc |-> "commit", rows |-> @.rows, labels |-> @.labels, known |-> idents]]
    /\ UNCHANGED <<bindings, idents, identEvents, identAlarms, seeded, overlapped, scans, rebound>>

\* What a combination means that is not known yet.
KindOf(c, known) ==
    IF \E k \in known : k[1] = c[1] THEN "ip_mac_change"
    ELSE IF \E k \in known : k[2] = c[2] THEN "mac_moved"
    ELSE "new_device"

\* The events of a scan: for new combinations, and for known ones whose
\* name is another one now.  One that seeds has none.
Findings(s) ==
    LET known == scan[s].known
        renamed == {c \in scan[s].rows \cap DOMAIN known :
                      Unknown \notin {scan[s].labels[c[1]], known[c]}
                        /\ scan[s].labels[c[1]] # known[c]}
    IN IF DOMAIN known = {} THEN {}
       ELSE {[type |-> KindOf(c, DOMAIN known), of |-> c] : c \in scan[s].rows \ DOMAIN known}
              \cup {[type |-> "hostname_change", of |-> c] : c \in renamed}

\* What the scan leaves of the combination, which it loaded with a name.
Relabelled(s, c) ==
    LET label == scan[s].labels[c[1]]
    IN IF c \notin DOMAIN scan[s].known THEN label
       ELSE IF label # Unknown /\ label # scan[s].known[c] THEN label ELSE idents[c]

Unseen(s) == scan[s].rows \ DOMAIN scan[s].known

Stores(s) ==
    /\ idents' = [c \in DOMAIN idents \cup Unseen(s) |->
         IF c \in scan[s].rows THEN Relabelled(s, c) ELSE idents[c]]
    /\ seeded' = IF DOMAIN scan[s].known = {} THEN seeded \cup Unseen(s) ELSE seeded
    /\ identEvents' = identEvents (+) SetToBag(Findings(s))
    /\ scan' = [scan EXCEPT ![s] =
         LET alarming == {e \in Findings(s) : e.type \in {"ip_mac_change", "hostname_change"}}
         IN IF alarming = {} THEN NoScan
            ELSE [pc |-> "alarm", due |-> alarming, sent |-> 0]]
    /\ UNCHANGED <<bindings, identAlarms, overlapped, scans, rebound>>

\* Mutant: a combination that the other scan has stored is no conflict.
ScanMerges(s) == scan[s].pc = "commit" /\ Stores(s)

\* Combinations and events are committed together.
ScanCommits(s) == scan[s].pc = "commit" /\ Unseen(s) \cap DOMAIN idents = {} /\ Stores(s)

\* UNIQUE (ip, mac): the other scan has stored one; nothing is kept.
ScanConflicts(s) ==
    /\ scan[s].pc = "commit" /\ Unseen(s) \cap DOMAIN idents # {}
    /\ scan' = [scan EXCEPT ![s] = NoScan]
    /\ UNCHANGED <<bindings, idents, identEvents, identAlarms, seeded, overlapped, scans, rebound>>

\* notify, best effort, of no more than AlarmLimit events.
ScanAlarms(s) ==
    /\ scan[s].pc = "alarm"
    /\ \E e \in scan[s].due :
         /\ identAlarms' \in {identAlarms, identAlarms \cup {e}}
         /\ scan' = [scan EXCEPT ![s] =
              IF @.due = {e} \/ @.sent + 1 = AlarmLimit THEN NoScan
              ELSE [pc |-> "alarm", due |-> @.due \ {e}, sent |-> @.sent + 1]]
    /\ UNCHANGED <<bindings, idents, identEvents, seeded, overlapped, scans, rebound>>

\* The backend is restarted.
ScansDie ==
    /\ SpendsScan /\ \E s \in Scans : scan[s] # NoScan
    /\ scan' = [s \in Scans |-> NoScan]
    /\ UNCHANGED <<bindings, idents, identEvents, identAlarms, seeded, overlapped, rebound>>

ScanStep(s) ==
    \/ ScanReads(s) \/ ScanCompares(s) \/ ScanCommits(s) \/ ScanConflicts(s) \/ ScanAlarms(s)

IdentityStep ==
    \/ \E s \in Scans : ScanStep(s)
    \/ Rebound \/ ScansDie

----------------------------------------------------------------------------
\* How many events tell of a combination that it is new.
Times(type, c) ==
    IF BagIn([type |-> type, of |-> c], identEvents)
    THEN identEvents[[type |-> type, of |-> c]] ELSE 0

FirstsOf(c) ==
    Times("ip_mac_change", c) + Times("mac_moved", c) + Times("new_device", c)

(* "Every observed combination is stored, and changes are caught": what    *)
(* was not learned by the first scan is reported exactly once, however     *)
(* scans overlap, meet each other's rows or are cut off; and an address    *)
(* that has been seen with two hardware addresses has an event saying that *)
(* it changed - unless two scans ran side by side, which may each find one *)
(* of the two and take it for a new device.                                *)
IdentityReportedOnce ==
    /\ \A c \in DOMAIN idents :
         FirstsOf(c) = IF c \in seeded THEN 0 ELSE 1
    /\ overlapped \/ \A c, d \in DOMAIN idents :
         c[1] = d[1] /\ c # d
           => \E x \in {c, d} : BagIn([type |-> "ip_mac_change", of |-> x], identEvents)
=============================================================================
