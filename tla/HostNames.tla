----------------------------- MODULE HostNames -----------------------------
(***************************************************************************)
(* The names of internal hosts.  A page that shows an address it has no    *)
(* name for queues it; a worker drains the queue, and the "reconcile"      *)
(* button resolves every host at once, each host a task of its own.  An    *)
(* operator may name a host, or take the name back, at any time.           *)
(***************************************************************************)
EXTENDS Integers

CONSTANTS
    Hosts,       \* internal addresses
    HostLabels,  \* names a host may have
    Macs,        \* hardware addresses
    None,        \* no name, no hardware address
    Resolvers,   \* runs of the worker and of the button
    MaxHostWork  \* bound: resolutions, edits, scans, failures

ASSUME HostNamesAssumption == None \notin HostLabels \cup Macs /\ MaxHostWork \in Nat

VARIABLES
    names,    \* ip_hostnames
    pending,  \* Redis: the addresses that wait for the worker
    resolve,  \* the task of each run for each host
    editor,   \* the request of the operator
    given,    \* the name an operator gave a host last
    raced,    \* whether an edit and a resolver held the row of a host at once
    hostWork

nameVars == <<names, pending, resolve, editor, given, raced, hostWork>>

Label == HostLabels \cup {None}
Mac == Macs \cup {None}

\* source: sophos, dns, netbios and dhcp are "found"; a miss is stored too.
Unnamed == [source |-> "absent", name |-> None, mac |-> None]
NoTask == [pc |-> "idle"]

NamesTypeOK ==
    /\ names \in [Hosts -> [source : {"absent", "manual", "found", "miss"},
                            name : Label, mac : Mac]]
    /\ pending \subseteq Hosts /\ given \in [Hosts -> Label] /\ raced \in BOOLEAN
    /\ \A r \in Resolvers, h \in Hosts :
         resolve[r][h].pc \in {"idle", "resolve", "store"}
    /\ editor.pc \in {"idle", "store"} /\ hostWork \in 0..MaxHostWork

NamesInit ==
    /\ names = [h \in Hosts |-> Unnamed]
    /\ pending = {}
    /\ resolve = [r \in Resolvers |-> [h \in Hosts |-> NoTask]]
    /\ editor = NoTask
    /\ given = [h \in Hosts |-> None]
    /\ raced = FALSE /\ hostWork = 0

Works == hostWork < MaxHostWork /\ hostWork' = hostWork + 1

\* queue_for_resolution, of what lookup_cached had no fresh answer for.
Queue ==
    /\ \E h \in Hosts \ pending :
         names[h].source # "manual" /\ pending' = pending \cup {h}
    /\ UNCHANGED <<names, resolve, editor, given, raced, hostWork>>

Rests(r) == \A h \in Hosts : resolve[r][h] = NoTask

Begin(r, hosts) ==
    resolve' = [resolve EXCEPT ![r] =
      [h \in Hosts |-> IF h \in hosts THEN [pc |-> "resolve"] ELSE NoTask]]

\* hostname_resolve_worker takes a batch; its addresses leave the queue.
WorkerTakes(r) ==
    /\ Rests(r) /\ Works
    /\ \E batch \in (SUBSET pending) \ {{}} : Begin(r, batch) /\ pending' = pending \ batch
    /\ UNCHANGED <<names, editor, given, raced>>

\* resolve_internal_hosts_now
ReconcilePressed(r) ==
    /\ Rests(r) /\ Works
    /\ Begin(r, Hosts)
    /\ UNCHANGED <<names, pending, editor, given, raced>>

\* _resolve_one has asked its sources; _upsert loads the row.
Resolved(r, h) ==
    /\ resolve[r][h].pc = "resolve"
    /\ \E name \in Label, mac \in Mac :
         resolve' = [resolve EXCEPT ![r][h] =
           [pc |-> "store", name |-> name, mac |-> mac, row |-> names[h]]]
    /\ UNCHANGED <<names, pending, editor, given, raced, hostWork>>

\* The row it was prepared for is still there, or still missing.
StillFits(row, h) == (row.source = "absent") = (names[h].source = "absent")

\* Mutant: a name the operator gave is a name like any other.
UpsertAny(row, now, task, moved) ==
    LET source == IF task.name = None THEN "miss" ELSE "found"
    IN [source |-> IF moved \/ source # row.source THEN source ELSE now.source,
        name |-> IF task.name # row.name THEN task.name ELSE now.name,
        mac |-> IF task.mac # None THEN task.mac ELSE now.mac]

\* What _upsert leaves of the row, which it loaded as "row" and which is "now"
\* by its commit: columns that it does not change are not written.
Upsert(row, now, task, moved) ==
    LET source == IF task.name = None THEN "miss" ELSE "found"
    IN IF row.source = "manual"
       THEN [now EXCEPT !.mac = IF row.mac = None /\ task.mac # None THEN task.mac ELSE @]
       ELSE [source |-> IF moved \/ source # row.source THEN source ELSE now.source,
             name |-> IF row.source = "absent" \/ task.name # row.name
                      THEN task.name ELSE now.name,
             mac |-> IF task.mac # None /\ task.mac # row.mac THEN task.mac ELSE now.mac]

\* The source may have moved, from dns to netbios, say.
Stored(r, h) ==
    /\ resolve[r][h].pc = "store" /\ StillFits(resolve[r][h].row, h)
    /\ \E moved \in BOOLEAN :
         names' = [names EXCEPT ![h] = Upsert(resolve[r][h].row, @, resolve[r][h], moved)]
    /\ resolve' = [resolve EXCEPT ![r][h] = NoTask]
    /\ raced' = (raced \/ (editor.pc = "store" /\ editor.host = h))
    /\ UNCHANGED <<pending, editor, given, hostWork>>

\* A key that exists by now, a row that vanished: the task fails.
StoreFails(r, h) ==
    /\ resolve[r][h].pc = "store" /\ ~StillFits(resolve[r][h].row, h)
    /\ resolve' = [resolve EXCEPT ![r][h] = NoTask]
    /\ UNCHANGED <<names, pending, editor, given, raced, hostWork>>

\* set_manual loads the row; None takes a name back.
EditBegins ==
    /\ editor = NoTask /\ Works
    /\ \E h \in Hosts, name \in Label :
         editor' = [pc |-> "store", host |-> h, name |-> name, row |-> names[h]]
    /\ UNCHANGED <<names, pending, resolve, given, raced>>

\* What an edit leaves of a row that is "now" there: an unchanged name is not
\* written.
Marked(now) ==
    [now EXCEPT !.source = "manual",
                !.name = IF editor.name = editor.row.name THEN now.name ELSE editor.name]

\* Deleting a row that is gone does nothing; updating one fails.
EditStored ==
    /\ editor.pc = "store"
    /\ LET h == editor.host
           deletes == editor.name = None
           fits == StillFits(editor.row, h)
           changes == IF deletes THEN editor.row.source # "absent" ELSE fits
       IN /\ names' = [names EXCEPT ![h] =
               IF ~changes THEN @
               ELSE IF deletes THEN Unnamed
               ELSE Marked(@)]
          /\ given' = [given EXCEPT ![h] = IF deletes \/ fits THEN editor.name ELSE @]
          /\ raced' = (raced \/ \E r \in Resolvers : resolve[r][h].pc = "store")
    /\ editor' = NoTask
    /\ UNCHANGED <<pending, resolve, hostWork>>

\* The backend is restarted; what the worker had taken is not queued again.
ResolversDie ==
    /\ Works /\ \E r \in Resolvers : ~Rests(r)
    /\ resolve' = [r \in Resolvers |-> [h \in Hosts |-> NoTask]]
    /\ editor' = NoTask
    /\ UNCHANGED <<names, pending, given, raced>>

ResolveStep(r) ==
    \/ WorkerTakes(r) \/ ReconcilePressed(r)
    \/ \E h \in Hosts : Resolved(r, h) \/ Stored(r, h) \/ StoreFails(r, h)

NameStep ==
    \/ \E r \in Resolvers : ResolveStep(r)
    \/ Queue \/ EditBegins \/ EditStored \/ ResolversDie

----------------------------------------------------------------------------
(* "Manual names are never overwritten by the auto-resolver": the name an  *)
(* operator gave stays, and stays marked as manual, whatever the worker    *)
(* and the button resolve, as long as the edit and one of their tasks did  *)
(* not hold the row at the same time - such a task writes its own name,    *)
(* and may leave it marked as manual.                                      *)
OperatorNameStands ==
    ~raced => \A h \in Hosts :
      given[h] # None => names[h].source = "manual" /\ names[h].name = given[h]
=============================================================================
