------------------------------ MODULE MdrFeed ------------------------------
(***************************************************************************)
(* Pushing the blocklists to the firewalls' MDR threat feed                *)
(* (firewall_feed.py).  Blocklist rows carry a timestamp taken before      *)
(* their transaction commits.  A sync fetches, per firewall, the rows      *)
(* after that firewall's durable cursor and at least Lag old, posts them   *)
(* in chunks and advances the cursor if no post failed transiently; the    *)
(* cursors of all firewalls are saved together at the end.  The scheduler  *)
(* and an administrator may both call the sync; a lock lets one through.   *)
(* The process may crash between any two awaits.                           *)
(*                                                                         *)
(* Not modelled: turning the feature off, the transaction ids kept for a   *)
(* later verification, and the wording of results.                         *)
(***************************************************************************)
EXTENDS Naturals, FiniteSets

CONSTANTS
    Firewalls,   \* firewall ids
    Flaky,       \* firewalls whose posts may fail transiently
    Targetings,  \* the sets of firewalls a sync may find configured
    Tables,      \* blocked_ips, blocked_domains, blocked_urls
    Vals,        \* blocked values, ordered as the cursor orders them
    Wildcards,   \* values the MDR feed does not take (wildcard domains)
    Callers,     \* who may call sync_mdr_threat_feed
    Chunk,       \* indicators per post
    Lag,         \* _COMMIT_LAG_SECONDS
    MaxDelay,    \* longest time between taking a timestamp and committing
    MaxTime,     \* bound: the clock stops here
    MaxFaults,   \* bound: crashes and failed saves
    None, NoCursor

ASSUME FeedAssumption ==
    /\ Flaky \subseteq Firewalls
    /\ Targetings \subseteq SUBSET Firewalls
    /\ Vals \subseteq Nat
    /\ Wildcards \subseteq Vals
    /\ Chunk \in Nat \ {0}
    /\ Lag \in Nat /\ MaxDelay \in Nat /\ MaxDelay < Lag
    /\ MaxTime \in Nat /\ MaxFaults \in Nat
    /\ None \notin Callers \cup Firewalls

VARIABLES
    now,       \* the clock
    writing,   \* rows of transactions that have not committed
    rows,      \* the committed rows of the three tables
    cursors,   \* mdr_feed_state: [Firewalls -> cursor or NoCursor]
    lock,      \* _SYNC_LOCK: the caller holding it, or None
    sync,      \* [Callers -> locals of the sync]
    faults,    \* crashes and failed saves so far
    settled,   \* history: rows each firewall took or refused for good
    baseline   \* history: rows skipped when a firewall's cursor was initialized

tableVars == <<now, writing, rows>>
history   == <<settled, baseline>>
vars == <<now, writing, rows, cursors, lock, sync, faults,
          settled, baseline>>

Row == [tab : Tables, val : Vals, ts : Nat]

(***************************************************************************)
(* A cursor holds, per table, the position of the last row delivered: that *)
(* row, as a set, or the empty set where there is none yet.                *)
(***************************************************************************)
Cursor == [Tables -> SUBSET Row]
EmptyCursor == [t \in Tables |-> {}]

ASSUME NoCursorAssumption == NoCursor \notin Cursor

\* The composite order (blocked_at, value): r comes after q.
Later(r, q) == r.ts > q.ts \/ (r.ts = q.ts /\ r.val > q.val)

\* r is not after the cursor's position in its table.
Covered(c, r) == \E q \in c[r.tab] : ~Later(r, q)

In(t, rs) == {r \in rs : r.tab = t}

\* The newest of some rows of one table; empty if there are none.
Newest(rs) == {r \in rs : \A q \in rs : ~Later(q, r)}

\* Mutant: no lag, everything committed so far is due.
DueAtOnce(r, asof) == r.ts <= asof

\* At or before the horizon of a sync that looked at the clock at "asof".
Due(r, asof) == r.ts + Lag <= asof

(***************************************************************************)
(* The locals of a sync: what it was called for (full, asof), the          *)
(* firewalls still to plan (todo) and to serve (work), those to initialize *)
(* (init) at which position (snapshot), the rows to push (delta), the      *)
(* cursors as they will be saved (new, changed), and the push in progress: *)
(* to whom (cur), the rows not posted yet (queue) and the rows of a        *)
(* refused chunk still to be posted one by one (items).                    *)
(***************************************************************************)
Sync == [pc : {"idle", "load", "plan", "push"}, full : BOOLEAN, asof : Nat,
         todo : SUBSET Firewalls, work : SUBSET Firewalls,
         init : SUBSET Firewalls, snapshot : Cursor,
         delta : [Firewalls -> SUBSET Row],
         new : [Firewalls -> Cursor \cup {NoCursor}], changed : BOOLEAN,
         cur : Firewalls \cup {None}, queue : SUBSET Row, items : SUBSET Row]

NoSync == [pc |-> "idle", full |-> FALSE, asof |-> 0, todo |-> {},
           work |-> {}, init |-> {}, snapshot |-> EmptyCursor,
           delta |-> [f \in Firewalls |-> {}],
           new |-> [f \in Firewalls |-> NoCursor], changed |-> FALSE,
           cur |-> None, queue |-> {}, items |-> {}]

Init ==
    /\ now = 0
    /\ writing = {} /\ rows = {}
    /\ cursors = [f \in Firewalls |-> NoCursor]
    /\ lock = None
    /\ sync = [c \in Callers |-> NoSync]
    /\ faults = 0
    /\ settled = [f \in Firewalls |-> {}]
    /\ baseline = [f \in Firewalls |-> {}]

----------------------------------------------------------------------------
(* The blocklist tables and the clock                                      *)

\* A transaction older than MaxDelay has committed or is gone.
Tick ==
    /\ now < MaxTime
    /\ \A r \in writing : now < r.ts + MaxDelay
    /\ now' = now + 1
    /\ UNCHANGED <<writing, rows, cursors, lock, sync, faults, history>>

SameKey(r, q) == r.tab = q.tab /\ r.val = q.val

\* Blocks are taken only while there is time left for them to become due.
StampTimes == {t \in 0 .. MaxTime : t + Lag <= MaxTime}

Stamp(t, v) ==
    LET r == [tab |-> t, val |-> v, ts |-> now]
    IN  /\ now \in StampTimes
        /\ \A q \in rows \cup writing : ~SameKey(q, r)
        /\ writing' = writing \cup {r}
        /\ UNCHANGED <<now, rows, cursors, lock, sync, faults, history>>

Commit(r) ==
    /\ r \in writing
    /\ writing' = writing \ {r}
    /\ rows' = rows \cup {r}
    /\ UNCHANGED <<now, cursors, lock, sync, faults, history>>

Rollback(r) ==
    /\ r \in writing
    /\ writing' = writing \ {r}
    /\ UNCHANGED <<now, rows, cursors, lock, sync, faults, history>>

Unblock(r) ==
    /\ r \in rows
    /\ rows' = rows \ {r}
    /\ UNCHANGED <<now, writing, cursors, lock, sync, faults, history>>

----------------------------------------------------------------------------
(* Starting a sync, loading the cursors, computing the deltas              *)

Become(c, s) == sync' = [sync EXCEPT ![c] = s]

\* Mutant: the sync does not look at the lock.
SyncStartUnlocked(c) ==
    /\ sync[c].pc = "idle"
    /\ lock' = c
    /\ \E fs \in Targetings \ {{}}, full \in BOOLEAN :
         Become(c, [NoSync EXCEPT !.pc = "load", !.full = full, !.asof = now,
                      !.todo = fs])
    /\ UNCHANGED <<tableVars, cursors, faults, history>>

\* A caller that finds the lock taken returns at once.
SyncStart(c) ==
    /\ sync[c].pc = "idle" /\ lock = None
    /\ lock' = c
    /\ \E fs \in Targetings \ {{}}, full \in BOOLEAN :
         Become(c, [NoSync EXCEPT !.pc = "load", !.full = full, !.asof = now,
                      !.todo = fs])
    /\ UNCHANGED <<tableVars, cursors, faults, history>>

SyncLoad(c) ==
    /\ sync[c].pc = "load"
    /\ Become(c, [sync[c] EXCEPT !.pc = "plan", !.new = cursors,
         !.snapshot = [t \in Tables |->
            Newest({r \in In(t, rows) : Due(r, sync[c].asof)})]])
    /\ UNCHANGED <<tableVars, cursors, lock, faults, history>>

\* The cursor a push starts from; a full seed starts from none.
From(s, f) ==
    IF s.full \/ s.new[f] = NoCursor THEN EmptyCursor ELSE s.new[f]

\* Mutant: the whole list is fetched every time.
WholeList(s, f) == {r \in rows : Due(r, s.asof)}

DeltaOf(s, f) == {r \in rows : Due(r, s.asof) /\ ~Covered(From(s, f), r)}

\* Without a cursor the firewall is only to be initialized, unless seeded.
OnlyInit(s, f) == s.new[f] = NoCursor /\ ~s.full

SyncPlan(c, f) ==
    LET s == sync[c]
    IN  /\ s.pc = "plan" /\ f \in s.todo
        /\ Become(c, [s EXCEPT
             !.todo = @ \ {f}, !.work = @ \cup {f},
             !.pc = IF s.todo = {f} THEN "push" ELSE "plan",
             !.init = IF OnlyInit(s, f) THEN @ \cup {f} ELSE @,
             !.delta[f] = IF OnlyInit(s, f) THEN {} ELSE DeltaOf(s, f)])
        /\ UNCHANGED <<tableVars, cursors, lock, faults, history>>

----------------------------------------------------------------------------
(* Serving the firewalls one after the other                               *)

Serving(c, f) == sync[c].pc = "push" /\ sync[c].cur = f

\* The next firewall, when no push is in progress.
Upcoming(c, f) == Serving(c, None) /\ f \in sync[c].work

PushInit(c, f) ==
    /\ Upcoming(c, f) /\ f \in sync[c].init
    /\ Become(c, [sync[c] EXCEPT !.work = @ \ {f}, !.changed = TRUE,
                                 !.new[f] = sync[c].snapshot])
    /\ baseline' = [baseline EXCEPT
         ![f] = baseline[f] \cup {r \in rows : Covered(sync[c].snapshot, r)}]
    /\ UNCHANGED <<tableVars, cursors, lock, faults, settled>>

PushNothing(c, f) ==
    /\ Upcoming(c, f) /\ f \notin sync[c].init
    /\ sync[c].delta[f] = {}
    /\ Become(c, [sync[c] EXCEPT !.work = @ \ {f}])
    /\ UNCHANGED <<tableVars, cursors, lock, faults, history>>

\* Wildcards are dropped up front; the cursor will advance past them.
PushBegin(c, f) ==
    LET wild == {r \in sync[c].delta[f] : r.val \in Wildcards}
    IN  /\ Upcoming(c, f) /\ f \notin sync[c].init
        /\ sync[c].delta[f] # {}
        /\ Become(c, [sync[c] EXCEPT !.work = @ \ {f}, !.cur = f,
                                     !.queue = sync[c].delta[f] \ wild])
        /\ settled' = [settled EXCEPT ![f] = settled[f] \cup wild]
        /\ UNCHANGED <<tableVars, cursors, lock, faults, baseline>>

\* The next post: one row of a refused chunk, or the next chunk of the queue
\* (which rows share a chunk makes no difference).
Posts(s) ==
    IF s.items # {} THEN {{r} : r \in s.items}
    ELSE {rs \in SUBSET s.queue :
            Cardinality(rs) = IF Cardinality(s.queue) < Chunk
                              THEN Cardinality(s.queue) ELSE Chunk}

Remaining(s, rs) == [s EXCEPT !.queue = @ \ rs, !.items = @ \ rs]

\* The firewall takes the post, or refuses a single value for good.
PostSettled(c, f) ==
    /\ Serving(c, f)
    /\ \E rs \in Posts(sync[c]) :
         /\ rs # {}
         /\ Become(c, Remaining(sync[c], rs))
         /\ settled' = [settled EXCEPT ![f] = settled[f] \cup rs]
    /\ UNCHANGED <<tableVars, cursors, lock, faults, baseline>>

\* A chunk is refused for good: its values are posted again one by one.
PostRefused(c, f) ==
    /\ Serving(c, f) /\ sync[c].items = {}
    /\ \E rs \in Posts(sync[c]) :
         /\ Cardinality(rs) > 1
         /\ Become(c, [sync[c] EXCEPT !.queue = @ \ rs, !.items = rs])
    /\ UNCHANGED <<tableVars, cursors, lock, faults, history>>

EndPush(s) == [s EXCEPT !.cur = None, !.queue = {}, !.items = {}]

\* Mutant: the error ends the sync of the other firewalls, too.
PostFailedForAll(c, f) ==
    /\ Serving(c, f) /\ f \in Flaky
    /\ sync[c].queue \cup sync[c].items # {}
    /\ Become(c, NoSync) /\ lock' = None
    /\ UNCHANGED <<tableVars, cursors, faults, history>>

\* Any other error aborts this firewall; its cursor stays.
PostFailed(c, f) ==
    /\ Serving(c, f) /\ f \in Flaky
    /\ sync[c].queue \cup sync[c].items # {}
    /\ Become(c, EndPush(sync[c]))
    /\ UNCHANGED <<tableVars, cursors, lock, faults, history>>

\* The cursor moves, per table, to the last row of the delta.
Advanced(cursor, rs) ==
    [t \in Tables |->
       IF In(t, rs) # {} THEN Newest(In(t, rs))
       ELSE IF cursor = NoCursor THEN {} ELSE cursor[t]]

PushDone(c, f) ==
    /\ Serving(c, f) /\ f \in Firewalls
    /\ sync[c].queue = {} /\ sync[c].items = {}
    /\ Become(c, [EndPush(sync[c]) EXCEPT !.changed = TRUE,
         !.new[f] = Advanced(@, sync[c].delta[f])])
    /\ UNCHANGED <<tableVars, cursors, lock, faults, history>>

----------------------------------------------------------------------------
(* Saving the cursors of all firewalls, and failing to                     *)

Served(c) == Serving(c, None) /\ sync[c].work = {}

\* Mutant: the lock is reset as if it were a flag.
ReleaseFlag(c) ==
    /\ lock' = FALSE
    /\ Become(c, NoSync)

Release(c) ==
    /\ lock' = None
    /\ Become(c, NoSync)

SyncSave(c) ==
    /\ Served(c)
    /\ cursors' = IF sync[c].changed THEN sync[c].new ELSE cursors
    /\ Release(c)
    /\ UNCHANGED <<tableVars, faults, history>>

SyncSaveFailed(c) ==
    /\ Served(c) /\ sync[c].changed
    /\ faults < MaxFaults
    /\ faults' = faults + 1
    /\ Release(c)
    /\ UNCHANGED <<tableVars, cursors, history>>

\* The database fails while cursors and deltas are read: the sync gives up.
SyncGiveUp(c) ==
    /\ sync[c].pc \in {"load", "plan"}
    /\ faults < MaxFaults
    /\ faults' = faults + 1
    /\ Release(c)
    /\ UNCHANGED <<tableVars, cursors, history>>

\* The process dies: open transactions roll back, syncs and the lock are gone.
Crash ==
    /\ faults < MaxFaults
    /\ faults' = faults + 1
    /\ writing' = {}
    /\ lock' = None
    /\ sync' = [c \in Callers |-> NoSync]
    /\ UNCHANGED <<now, rows, cursors, history>>

----------------------------------------------------------------------------
SyncStep(c) ==
    \/ SyncLoad(c)
    \/ \E f \in Firewalls :
         \/ SyncPlan(c, f)
         \/ PushInit(c, f) \/ PushNothing(c, f) \/ PushBegin(c, f)
         \/ PostSettled(c, f) \/ PostRefused(c, f) \/ PostFailed(c, f)
         \/ PushDone(c, f)
    \/ SyncSave(c)
    \/ SyncSaveFailed(c)
    \/ SyncGiveUp(c)

TableStep ==
    \/ \E t \in Tables, v \in Vals : Stamp(t, v)
    \/ \E r \in writing : Commit(r) \/ Rollback(r)
    \/ \E r \in rows : Unblock(r)

Next ==
    \/ Tick
    \/ TableStep
    \/ \E c \in Callers : SyncStart(c) \/ SyncStep(c)
    \/ Crash

Spec == Init /\ [][Next]_vars

(***************************************************************************)
(* The event loop resumes a sync whenever its await has returned, the      *)
(* scheduler calls it again and again, and transactions end.  Nothing is   *)
(* assumed of a flaky firewall, of crashes, or of who calls the sync.      *)
(***************************************************************************)
FairSpec ==
    /\ Spec
    /\ WF_vars(Tick)
    /\ WF_vars(\E r \in writing : Commit(r) \/ Rollback(r))
    /\ WF_vars(\E c \in Callers : SyncStart(c))
    /\ \A c \in Callers : WF_vars(SyncStep(c))

----------------------------------------------------------------------------
TypeOK ==
    /\ now \in Nat
    /\ writing \subseteq Row /\ rows \subseteq Row
    /\ cursors \in [Firewalls -> Cursor \cup {NoCursor}]
    /\ lock \in Callers \cup {None}
    /\ sync \in [Callers -> Sync]
    /\ faults \in Nat
    /\ settled \in [Firewalls -> SUBSET Row]
    /\ baseline \in [Firewalls -> SUBSET Row]

Passed(f, r) == cursors[f] # NoCursor /\ Covered(cursors[f], r)

(* No indicator is lost: a row the durable cursor of a firewall has moved  *)
(* past was taken or refused by that firewall, or existed when the cursor  *)
(* was initialized.  In particular no row commits behind a cursor, no      *)
(* aborted, unsaved or crashed push moves one, and no caller overwrites    *)
(* what another one saved.                                                 *)
NoLoss ==
    \A f \in Firewalls : \A r \in rows :
      Passed(f, r) => r \in settled[f] \cup baseline[f]

(* "Only the delta is pushed": outside a full seed, nothing that is about  *)
(* to be posted is behind the firewall's durable cursor already, whoever   *)
(* called the sync and whatever another caller did meanwhile.              *)
DeltaIsNew ==
    \A c \in Callers, f \in Firewalls :
      Serving(c, f) /\ ~sync[c].full =>
        /\ cursors[f] # NoCursor
        /\ \A r \in sync[c].queue \cup sync[c].items : ~Passed(f, r)

(* A firewall that has a durable cursor keeps one: losing it would         *)
(* initialize it anew and skip every block since.                          *)
CursorKept ==
    [][\A f \in Firewalls :
         cursors[f] # NoCursor => cursors'[f] # NoCursor]_vars

(* "One unreachable firewall only stalls its own cursor": a row that stays *)
(* on the blocklist reaches every firewall that answers, whatever the      *)
(* flaky ones do.                                                          *)
Delivered ==
    \A f \in Firewalls \ Flaky :
      \A t \in Tables, v \in Vals, at \in StampTimes :
        LET r == [tab |-> t, val |-> v, ts |-> at]
        IN  r \in rows ~> r \notin rows \/ r \in settled[f] \cup baseline[f]

(***************************************************************************)
(* The account of a firewall in the contract: it has one as soon as its    *)
(* cursor is durable, and is owed the rows its cursor has not passed.      *)
(***************************************************************************)
Joined == {f \in Firewalls : cursors[f] # NoCursor}
Account == [f \in Firewalls |-> {r \in rows : f \in Joined /\ ~Passed(f, r)}]

Contract == INSTANCE FeedContract WITH
                listed <- rows, joined <- Joined, owed <- Account, excused <- baseline

(* The feed keeps the contract: a firewall keeps its account for good; a   *)
(* row that is blocked from then on, however late its transaction commits, *)
(* is owed to it, and no save of a cursor - of a delta, of a full seed, of *)
(* two syncs or after a crash - takes it off the account before the        *)
(* firewall has settled it, nor brings back what was taken off.            *)
KeepsContract == Contract!Spec
=============================================================================
