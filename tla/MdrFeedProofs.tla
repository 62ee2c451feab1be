--------------------------- MODULE MdrFeedProofs ---------------------------
(***************************************************************************)
(* Proofs about the MDR threat feed, for any firewalls, tables, values and *)
(* callers, and for every lag that exceeds the longest time between a      *)
(* row's timestamp and its commit: no indicator is lost, a delta repeats   *)
(* nothing, a cursor once saved is kept, and the feed implements its       *)
(* contract (FeedContract).                                                *)
(*                                                                         *)
(* What makes NoLoss inductive is that everything a cursor stands on is    *)
(* older than any row that can still commit, and that a sync in progress   *)
(* has planned, for every firewall it has still to serve, all the rows     *)
(* between that firewall's cursor and its own horizon.                     *)
(***************************************************************************)
EXTENDS MdrFeed, TLAPS, FiniteSetTheorems, WellFoundedInduction

\* Timestamps are taken before the commit, at most MaxDelay before.
Clock ==
    /\ \A r \in rows : r.ts <= now
    /\ \A r \in writing : r.ts <= now /\ now <= r.ts + MaxDelay

\* The rows a cursor stands on are at least Lag old.
Aged(c) == \A t \in Tables : \A q \in c[t] : q.ts + Lag <= now

CursorsAged == \A f \in Firewalls : cursors[f] # NoCursor => Aged(cursors[f])

\* What is behind a cursor has been settled, or was there at its start.
Honest(f, c) ==
    \A r \in rows : Covered(c, r) => r \in settled[f] \cup baseline[f]

\* The delta for f is what lies between its cursor and the horizon.
PlanComplete(s, f) ==
    /\ s.full \/ s.new[f] # NoCursor
    /\ \A r \in s.delta[f] : Due(r, s.asof) /\ ~Covered(From(s, f), r)
    /\ \A r \in rows :
         Due(r, s.asof) => r \in s.delta[f] \/ Covered(From(s, f), r)

\* A sync may still touch the cursor of f.
Ahead(s) == s.todo \cup s.work \cup (Firewalls \cap {s.cur})

\* What the locals of a sync in progress promise.
Loaded(s) ==
    /\ Aged(s.snapshot)
    /\ \A f \in Firewalls :
         /\ s.new[f] = NoCursor => cursors[f] = NoCursor
         /\ s.new[f] # NoCursor => Aged(s.new[f]) /\ Honest(f, s.new[f])
    /\ \A f \in Ahead(s) : s.new[f] = cursors[f]
    /\ s.todo \cap s.work = {}
    /\ \A f \in s.work \ s.init : PlanComplete(s, f)

Pushing(s) ==
    /\ s.pc = "push"
    /\ s.cur \notin s.work
    /\ PlanComplete(s, s.cur)
    /\ s.queue \cup s.items \subseteq s.delta[s.cur]
    /\ s.delta[s.cur] \subseteq settled[s.cur] \cup s.queue \cup s.items

Good(s) ==
    s.pc # "idle" =>
      /\ s.asof <= now
      /\ s.pc \in {"plan", "push"} => Loaded(s)
      /\ s.pc = "load" => s.work = {}
      /\ s.pc = "push" => s.todo = {}
      /\ s.cur = None => s.items = {}
      /\ s.cur \in Firewalls => Pushing(s)

FeedInv ==
    /\ TypeOK
    /\ Clock
    /\ CursorsAged
    /\ NoLoss
    /\ \A c \in Callers : sync[c].pc # "idle" => lock = c
    /\ \A c \in Callers : Good(sync[c])

----------------------------------------------------------------------------
(* Cursors and rows                                                        *)

LEMMA Parameters ==
    /\ Lag \in Nat /\ MaxDelay \in Nat /\ MaxDelay < Lag
    /\ NoCursor \notin Cursor
    /\ None \notin Callers /\ None \notin Firewalls
BY FeedAssumption, NoCursorAssumption

\* A row younger than the lag is not behind a cursor.
LEMMA YoungNotCovered ==
    ASSUME NEW c \in Cursor, Aged(c), NEW r \in Row, now \in Nat,
           now < r.ts + Lag
    PROVE  ~Covered(c, r)
<1> SUFFICES ASSUME NEW q \in c[r.tab], ~Later(r, q) PROVE FALSE
  BY DEF Covered
<1>1. r.tab \in Tables /\ r.ts \in Nat
  BY DEF Row
<1>2. q \in Row
  BY <1>1 DEF Cursor
<1>3. q.ts \in Nat /\ q.ts + Lag <= now
  BY <1>1, <1>2 DEF Aged, Row
<1>4. r.ts > q.ts
  BY <1>1, <1>3, Parameters
<1> QED
  BY <1>4 DEF Later

LEMMA NewestSubset == ASSUME NEW rs PROVE Newest(rs) \subseteq rs
BY DEF Newest

LEMMA NoSyncType == NoSync \in Sync /\ NoSync.pc = "idle"
BY DEF NoSync, Sync, Cursor, EmptyCursor

LEMMA IdleGood == ASSUME NEW s, s.pc = "idle" PROVE Good(s)
BY DEF Good

----------------------------------------------------------------------------
(* Steps of the tables and of the clock                                    *)

\* Time may pass, rows may disappear, and young rows may appear.
TablesMove ==
    /\ writing' \subseteq Row /\ rows' \subseteq Row
    /\ now' \in Nat /\ now <= now'
    /\ \A r \in rows' : r \in rows \/ now < r.ts + Lag

LEMMA AgedStable ==
    ASSUME TypeOK, TablesMove, NEW c \in Cursor, Aged(c)
    PROVE  Aged(c)'
<1> SUFFICES ASSUME NEW t \in Tables, NEW q \in c[t] PROVE q.ts + Lag <= now'
  BY DEF Aged
<1>1. q \in Row
  BY DEF Cursor
<1>2. q.ts \in Nat /\ q.ts + Lag <= now
  BY <1>1 DEF Aged, Row
<1> QED
  BY <1>2, Parameters DEF TablesMove, TypeOK

LEMMA HonestStable ==
    ASSUME TypeOK, TablesMove, UNCHANGED history, NEW f \in Firewalls,
           NEW c \in Cursor, Aged(c), Honest(f, c)
    PROVE  Honest(f, c)'
<1> SUFFICES ASSUME NEW r \in rows', Covered(c, r)
             PROVE  r \in settled[f] \cup baseline[f]
  BY DEF Honest, history
<1>1. r \in Row
  BY DEF TablesMove
<1>2. r \in rows
  BY <1>1, YoungNotCovered DEF TablesMove, TypeOK
<1> QED
  BY <1>2 DEF Honest

LEMMA PlanStable ==
    ASSUME TypeOK, TablesMove, NEW s \in Sync, s.asof <= now, NEW f,
           PlanComplete(s, f)
    PROVE  PlanComplete(s, f)'
<1>1. \A r \in rows' : Due(r, s.asof) => r \in rows
  <2> SUFFICES ASSUME NEW r \in rows', r.ts + Lag <= s.asof PROVE r \in rows
    BY DEF Due
  <2>1. r.ts \in Nat /\ s.asof \in Nat /\ now \in Nat
    BY DEF TablesMove, Row, Sync, TypeOK
  <2>2. ~(now < r.ts + Lag)
    BY <2>1, Parameters
  <2> QED
    BY <2>2 DEF TablesMove
<1> QED
  BY <1>1 DEF PlanComplete

LEMMA GoodTables ==
    ASSUME TypeOK, TablesMove, UNCHANGED <<cursors, settled, baseline>>,
           NEW s \in Sync, Good(s)
    PROVE  Good(s)'
<1> SUFFICES ASSUME s.pc # "idle" PROVE Good(s)'
  BY IdleGood DEF Good
<1>1. s.asof <= now /\ s.asof <= now'
  BY DEF Good, TablesMove, Sync, TypeOK
<1>2. s.snapshot \in Cursor
      /\ \A f \in Firewalls : s.new[f] \in Cursor \cup {NoCursor}
  BY DEF Sync
<1>3. ASSUME Loaded(s) PROVE Loaded(s)'
  <2>1. Aged(s.snapshot)'
    BY <1>2, <1>3, AgedStable DEF Loaded
  <2>2. ASSUME NEW f \in Firewalls, s.new[f] # NoCursor
        PROVE  Aged(s.new[f])' /\ Honest(f, s.new[f])'
    BY <1>2, <1>3, <2>2, AgedStable, HonestStable DEF Loaded, history
  <2>3. \A f \in s.work \ s.init : PlanComplete(s, f)'
    BY <1>1, <1>3, PlanStable DEF Loaded
  <2> QED
    BY <1>3, <2>1, <2>2, <2>3 DEF Loaded
<1>4. ASSUME Pushing(s) PROVE Pushing(s)'
  BY <1>1, <1>4, PlanStable DEF Pushing
<1> QED
  BY <1>1, <1>3, <1>4 DEF Good

LEMMA TablesKeep ==
    ASSUME FeedInv, TablesMove, Clock',
           UNCHANGED <<cursors, lock, sync, faults, history>>
    PROVE  FeedInv'
<1>1. TypeOK'
  BY DEF FeedInv, TypeOK, TablesMove, history
<1>2. \A f \in Firewalls : cursors[f] # NoCursor =>
        cursors[f] \in Cursor /\ Aged(cursors[f]) /\ Honest(f, cursors[f])
  BY DEF FeedInv, TypeOK, CursorsAged, NoLoss, Honest, Passed
<1>3. \A f \in Firewalls : \A c \in Cursor :
        Aged(c) /\ Honest(f, c) => Aged(c)' /\ Honest(f, c)'
  BY AgedStable, HonestStable DEF FeedInv
<1>4. CursorsAged' /\ NoLoss'
  BY <1>2, <1>3 DEF CursorsAged, NoLoss, Passed, Aged, Honest
<1>5. ASSUME NEW c \in Callers PROVE Good(sync[c])'
  <2>1. PICK s \in Sync : s = sync[c] /\ s = sync'[c]
    BY DEF FeedInv, TypeOK
  <2>2. Good(s)'
    BY <2>1, GoodTables DEF FeedInv, history
  <2> QED
    BY <2>1, <2>2 DEF Good, Loaded, Pushing, PlanComplete, Ahead
<1>6. \A c \in Callers : sync'[c].pc # "idle" => lock' = c
  BY DEF FeedInv
<1> QED
  BY <1>1, <1>4, <1>5, <1>6 DEF FeedInv

LEMMA TickKeeps == FeedInv /\ Tick => FeedInv'
<1> SUFFICES ASSUME FeedInv, Tick PROVE FeedInv'
  OBVIOUS
<1>1. /\ now \in Nat /\ now' = now + 1 /\ writing' = writing /\ rows' = rows
      /\ writing \subseteq Row /\ rows \subseteq Row
  BY DEF FeedInv, TypeOK, Tick
<1>2. TablesMove
  BY <1>1 DEF TablesMove
<1>3. Clock'
  <2>1. \A r \in rows : r.ts \in Nat /\ r.ts <= now + 1
    BY <1>1 DEF FeedInv, Clock, Row
  <2>2. \A r \in writing : /\ r.ts \in Nat /\ r.ts <= now + 1
                           /\ now + 1 <= r.ts + MaxDelay
    BY <1>1, Parameters DEF FeedInv, Clock, Row, Tick
  <2> QED
    BY <1>1, <2>1, <2>2 DEF Clock
<1> QED
  BY <1>2, <1>3, TablesKeep DEF Tick

LEMMA TableStepKeeps == FeedInv /\ TableStep => FeedInv'
<1> SUFFICES ASSUME FeedInv, TableStep PROVE FeedInv'
  OBVIOUS
<1>0. /\ now \in Nat /\ writing \subseteq Row /\ rows \subseteq Row
      /\ now <= now /\ Clock
  BY DEF FeedInv, TypeOK
<1>1. ASSUME NEW t \in Tables, NEW v \in Vals, Stamp(t, v) PROVE FeedInv'
  <2> DEFINE r == [tab |-> t, val |-> v, ts |-> now]
  <2>1. r \in Row /\ r.ts = now
    BY <1>0 DEF Row
  <2>2. writing' = writing \cup {r} /\ rows' = rows /\ now' = now
    BY <1>1 DEF Stamp
  <2> HIDE DEF r
  <2>3. TablesMove
    BY <1>0, <2>1, <2>2 DEF TablesMove
  <2>4. now <= now + MaxDelay
    BY <1>0, Parameters
  <2>5. Clock'
    BY <1>0, <2>1, <2>2, <2>4 DEF Clock
  <2> QED
    BY <1>1, <2>3, <2>5, TablesKeep DEF Stamp
<1>2. ASSUME NEW r \in writing, Commit(r) PROVE FeedInv'
  <2>1. /\ writing' = writing \ {r} /\ rows' = rows \cup {r} /\ now' = now
        /\ r \in Row
    BY <1>0, <1>2 DEF Commit
  <2>2. r.ts \in Nat /\ r.ts <= now /\ now < r.ts + Lag
    BY <1>0, <2>1, Parameters DEF Clock, Row
  <2>3. TablesMove /\ Clock'
    BY <1>0, <2>1, <2>2 DEF TablesMove, Clock
  <2> QED
    BY <1>2, <2>3, TablesKeep DEF Commit
<1>3. ASSUME NEW r \in writing, Rollback(r) PROVE FeedInv'
  <2>1. TablesMove /\ Clock'
    BY <1>0, <1>3 DEF Rollback, TablesMove, Clock
  <2> QED
    BY <1>3, <2>1, TablesKeep DEF Rollback
<1>4. ASSUME NEW r \in rows, Unblock(r) PROVE FeedInv'
  <2>1. TablesMove /\ Clock'
    BY <1>0, <1>4 DEF Unblock, TablesMove, Clock
  <2> QED
    BY <1>4, <2>1, TablesKeep DEF Unblock
<1> QED
  BY <1>1, <1>2, <1>3, <1>4 DEF TableStep

LEMMA CrashKeeps == FeedInv /\ Crash => FeedInv'
<1> SUFFICES ASSUME FeedInv, Crash PROVE FeedInv'
  OBVIOUS
<1>1. /\ sync' = [c \in Callers |-> NoSync] /\ lock' = None /\ writing' = {}
      /\ faults' = faults + 1
      /\ UNCHANGED <<now, rows, cursors, settled, baseline>>
  BY DEF Crash, history
<1>2. TypeOK'
  BY <1>1, NoSyncType DEF FeedInv, TypeOK
<1>3. Clock' /\ CursorsAged' /\ NoLoss'
  BY <1>1 DEF FeedInv, Clock, CursorsAged, NoLoss, Aged, Passed
<1>4. \A c \in Callers : sync'[c].pc = "idle"
  BY <1>1, NoSyncType
<1>5. \A c \in Callers : Good(sync[c])'
  BY <1>4 DEF Good
<1> QED
  BY <1>2, <1>3, <1>4, <1>5 DEF FeedInv

----------------------------------------------------------------------------
(* Steps of a sync                                                         *)

\* c becomes s while every other caller is idle.
LEMMA SyncKeeps ==
    ASSUME FeedInv, NEW c \in Callers, NEW s \in Sync, Become(c, s),
           \A u \in Callers \ {c} : sync[u].pc = "idle",
           UNCHANGED tableVars, lock' \in Callers \cup {None}, faults' \in Nat,
           cursors' \in [Firewalls -> Cursor \cup {NoCursor}],
           settled' \in [Firewalls -> SUBSET Row],
           baseline' \in [Firewalls -> SUBSET Row],
           s.pc # "idle" => lock' = c,
           CursorsAged', NoLoss', Good(s)'
    PROVE  FeedInv'
<1>1. sync' \in [Callers -> Sync] /\ sync'[c] = s
      /\ \A u \in Callers \ {c} : sync'[u].pc = "idle"
  BY DEF FeedInv, TypeOK, Become
<1>2. TypeOK' /\ Clock'
  BY <1>1 DEF FeedInv, TypeOK, Clock, tableVars
<1>3. \A u \in Callers : sync'[u].pc # "idle" => lock' = u
  BY <1>1
<1>4. \A u \in Callers \ {c} : Good(sync[u])'
  BY <1>1 DEF Good
<1>5. Good(sync[c])'
  BY <1>1 DEF Good, Loaded, Pushing, PlanComplete, Ahead
<1> QED
  BY <1>2, <1>3, <1>4, <1>5 DEF FeedInv

\* The step leaves the durable cursors alone and settles rows, if anything.
MayServe ==
    /\ UNCHANGED <<tableVars, cursors, lock, faults>>
    /\ settled' \in [Firewalls -> SUBSET Row]
    /\ baseline' \in [Firewalls -> SUBSET Row]
    /\ \A f \in Firewalls : /\ settled[f] \subseteq settled'[f]
                            /\ baseline[f] \subseteq baseline'[f]

LEMMA ServeKeeps ==
    ASSUME FeedInv, NEW c \in Callers, sync[c].pc # "idle", NEW s \in Sync,
           Become(c, s), MayServe, Good(s)'
    PROVE  FeedInv'
<1>1. lock = c /\ \A u \in Callers \ {c} : sync[u].pc = "idle"
  BY DEF FeedInv
<1>2. /\ lock' \in Callers \cup {None} /\ faults' \in Nat /\ lock' = c
      /\ cursors' \in [Firewalls -> Cursor \cup {NoCursor}]
      /\ UNCHANGED tableVars
  BY <1>1 DEF FeedInv, TypeOK, MayServe
<1>3. CursorsAged'
  BY DEF FeedInv, CursorsAged, Aged, MayServe, tableVars
<1>4. NoLoss'
  BY DEF FeedInv, NoLoss, Passed, MayServe, tableVars
<1> QED
  BY <1>1, <1>2, <1>3, <1>4, SyncKeeps DEF MayServe

\* What a sync has planned survives a step that serves.
LEMMA GoodServed ==
    ASSUME FeedInv, MayServe, NEW s \in Sync
    PROVE  /\ Loaded(s) => Loaded(s)'
           /\ \A f : PlanComplete(s, f) => PlanComplete(s, f)'
           /\ s.cur \in Firewalls /\ Pushing(s) => Pushing(s)'
<1>1. /\ now' = now /\ rows' = rows /\ cursors' = cursors
      /\ \A f \in Firewalls : /\ settled[f] \subseteq settled'[f]
                              /\ baseline[f] \subseteq baseline'[f]
  BY DEF MayServe, tableVars
<1>2. \A f : PlanComplete(s, f) => PlanComplete(s, f)'
  BY <1>1 DEF PlanComplete
<1>3. Loaded(s) => Loaded(s)'
  BY <1>1, <1>2 DEF Loaded, Aged, Honest
<1>4. s.cur \in Firewalls /\ Pushing(s) => Pushing(s)'
  BY <1>1, <1>2 DEF Pushing
<1> QED
  BY <1>2, <1>3, <1>4

LEMMA SyncStartKeeps ==
    ASSUME FeedInv, NEW c \in Callers, SyncStart(c)
    PROVE  FeedInv'
<1>1. PICK fs \in SUBSET Firewalls, full \in BOOLEAN :
        Become(c, [NoSync EXCEPT !.pc = "load", !.full = full, !.asof = now,
                    !.todo = fs])
  BY FeedAssumption DEF SyncStart
<1>2. PICK n \in Nat : n = now
  BY DEF FeedInv, TypeOK
<1> DEFINE x == [NoSync EXCEPT !.pc = "load", !.full = full, !.asof = n,
                   !.todo = fs]
<1>3. /\ x \in Sync /\ x.pc = "load" /\ x.asof = n /\ x.work = {}
      /\ x.cur = None /\ x.items = {}
  BY NoSyncType DEF NoSync, Sync
<1>4. Become(c, x)
  BY <1>1, <1>2
<1> HIDE DEF x
<1>5. lock = None /\ lock' = c /\ UNCHANGED <<tableVars, cursors, faults, history>>
  BY DEF SyncStart
<1>6. \A u \in Callers : sync[u].pc = "idle"
  BY <1>5, Parameters DEF FeedInv
<1>7. now' = now /\ n <= now'
  BY <1>2, <1>5 DEF tableVars
<1>8. Good(x)'
  BY <1>3, <1>7, Parameters DEF Good
<1>9. CursorsAged' /\ NoLoss'
  BY <1>5 DEF FeedInv, CursorsAged, Aged, NoLoss, Passed, tableVars, history
<1>10. /\ lock' \in Callers \cup {None} /\ faults' \in Nat
       /\ cursors' \in [Firewalls -> Cursor \cup {NoCursor}]
       /\ settled' \in [Firewalls -> SUBSET Row]
       /\ baseline' \in [Firewalls -> SUBSET Row]
  BY <1>5 DEF FeedInv, TypeOK, history
<1> QED
  BY <1>3, <1>4, <1>5, <1>6, <1>8, <1>9, <1>10, SyncKeeps

\* A step that serves nothing leaves everything but the locals alone.
LEMMA QuietServe ==
    ASSUME FeedInv, UNCHANGED <<tableVars, cursors, lock, faults, history>>
    PROVE  MayServe
BY DEF FeedInv, TypeOK, MayServe, history

LEMMA SyncLoadKeeps ==
    ASSUME FeedInv, NEW c \in Callers, SyncLoad(c)
    PROVE  FeedInv'
<1>1. PICK s \in Sync : s = sync[c] /\ s.pc = "load"
  BY DEF SyncLoad, FeedInv, TypeOK
<1> DEFINE newest(t) == Newest({r \in In(t, rows) : Due(r, s.asof)})
<1>2. PICK snap \in Cursor : snap = [t \in Tables |-> newest(t)]
  BY NewestSubset DEF Cursor, In, FeedInv, TypeOK
<1>3. PICK cs \in [Firewalls -> Cursor \cup {NoCursor}] : cs = cursors
  BY DEF FeedInv, TypeOK
<1> DEFINE x == [s EXCEPT !.pc = "plan", !.new = cs, !.snapshot = snap]
<1>4. /\ x \in Sync /\ x.pc = "plan" /\ x.new = cs /\ x.snapshot = snap
      /\ x.work = s.work /\ x.todo = s.todo /\ x.cur = s.cur
      /\ x.items = s.items /\ x.asof = s.asof
  BY DEF Sync
<1>5. Become(c, x) /\ MayServe
  BY <1>1, <1>2, <1>3, QuietServe DEF SyncLoad
<1> HIDE DEF x
<1>6. /\ Good(s) /\ s.asof <= now /\ s.work = {} /\ s.cur \notin Firewalls
      /\ s.cur = None => s.items = {}
  BY <1>1 DEF FeedInv, Good, Pushing
<1>7. Aged(snap)
  <2> SUFFICES ASSUME NEW t \in Tables, NEW q \in snap[t]
               PROVE  q.ts + Lag <= now
    BY DEF Aged
  <2>1. q \in {r \in In(t, rows) : Due(r, s.asof)}
    BY <1>2, NewestSubset
  <2>2. q \in Row /\ q.ts + Lag <= s.asof
    BY <2>1 DEF In, Due, FeedInv, TypeOK
  <2>3. q.ts \in Nat /\ s.asof \in Nat /\ now \in Nat
    BY <2>2 DEF Row, Sync, FeedInv, TypeOK
  <2> QED
    BY <1>6, <2>2, <2>3, Parameters
<1>8. \A f \in Firewalls : cs[f] # NoCursor => Aged(cs[f]) /\ Honest(f, cs[f])
  BY <1>3 DEF FeedInv, CursorsAged, NoLoss, Passed, Honest, Aged
<1>9. Loaded(x)
  BY <1>3, <1>4, <1>6, <1>7, <1>8 DEF Loaded, Ahead
<1>10. Loaded(x)'
  BY <1>4, <1>5, <1>9, GoodServed
<1>11. Good(x)'
  BY <1>4, <1>5, <1>6, <1>10 DEF Good, MayServe, tableVars
<1> QED
  BY <1>1, <1>4, <1>5, <1>11, ServeKeeps

LEMMA SyncPlanKeeps ==
    ASSUME FeedInv, NEW c \in Callers, NEW f \in Firewalls, SyncPlan(c, f)
    PROVE  FeedInv'
<1>1. PICK s \in Sync : s = sync[c] /\ s.pc = "plan" /\ f \in s.todo
  BY DEF SyncPlan, FeedInv, TypeOK
<1>2. PICK d \in SUBSET Row :
        d = IF OnlyInit(s, f) THEN {} ELSE DeltaOf(s, f)
  BY DEF DeltaOf, FeedInv, TypeOK
<1> DEFINE init == IF OnlyInit(s, f) THEN s.init \cup {f} ELSE s.init
           x == [s EXCEPT !.todo = @ \ {f}, !.work = @ \cup {f},
                   !.pc = IF s.todo = {f} THEN "push" ELSE "plan",
                   !.init = IF OnlyInit(s, f) THEN @ \cup {f} ELSE @,
                   !.delta[f] = d]
<1>3. /\ x \in Sync /\ x.pc = IF s.todo = {f} THEN "push" ELSE "plan"
      /\ x.todo = s.todo \ {f} /\ x.work = s.work \cup {f} /\ x.init = init
      /\ x.delta = [s.delta EXCEPT ![f] = d]
  <2> DEFINE pc == IF s.todo = {f} THEN "push" ELSE "plan"
             delta == [s.delta EXCEPT ![f] = d]
             y == [s EXCEPT !.todo = s.todo \ {f}, !.work = s.work \cup {f},
                     !.pc = pc, !.init = init, !.delta = delta]
  <2>1. delta \in [Firewalls -> SUBSET Row]
    BY DEF Sync
  <2>2. init \in SUBSET Firewalls
    BY DEF Sync
  <2>3. pc \in {"plan", "push"}
    OBVIOUS
  <2>4. x = y
    BY DEF Sync
  <2> HIDE DEF x, pc, delta, init
  <2>5. y \in Sync
    BY <2>1, <2>2, <2>3 DEF Sync
  <2>6. /\ y.pc = pc /\ y.todo = s.todo \ {f} /\ y.work = s.work \cup {f}
        /\ y.init = init /\ y.delta = delta
    BY DEF Sync
  <2> QED
    BY <2>4, <2>5, <2>6 DEF pc, delta
<1>4. /\ x.new = s.new /\ x.full = s.full /\ x.asof = s.asof /\ x.cur = s.cur
      /\ x.items = s.items /\ x.snapshot = s.snapshot
  BY DEF Sync
<1>5. Become(c, x) /\ MayServe
  BY <1>1, <1>2, QuietServe DEF SyncPlan
<1> HIDE DEF x
<1>6. /\ s.asof <= now /\ Loaded(s) /\ s.cur \notin Firewalls
      /\ s.cur = None => s.items = {}
  BY <1>1 DEF FeedInv, Good, Pushing
<1>7. \A g : From(x, g) = From(s, g)
  BY <1>4 DEF From
<1>8. s.delta \in [Firewalls -> SUBSET Row]
  BY DEF Sync
<1>9. ASSUME f \notin x.init PROVE PlanComplete(x, f)
  <2>1. ~OnlyInit(s, f)
    BY <1>3, <1>9
  <2>2. x.delta[f] = DeltaOf(s, f) /\ (s.full \/ s.new[f] # NoCursor)
    BY <1>2, <1>3, <1>8, <2>1 DEF OnlyInit, Sync
  <2> QED
    BY <1>4, <1>7, <2>2 DEF PlanComplete, DeltaOf
<1>10. ASSUME NEW g \in x.work \ x.init, g # f PROVE PlanComplete(x, g)
  <2>1. g \in s.work \ s.init
    BY <1>3, <1>10
  <2>2. PlanComplete(s, g)
    BY <1>6, <2>1 DEF Loaded
  <2>3. x.delta[g] = s.delta[g]
    BY <1>3, <1>8, <1>10, <2>1 DEF Sync
  <2> QED
    BY <1>4, <1>7, <2>2, <2>3 DEF PlanComplete
<1>11. Loaded(x)
  <2>1. \A g \in x.work \ x.init : PlanComplete(x, g)
    BY <1>9, <1>10
  <2>2. x.todo \cap x.work = {} /\ Ahead(x) = Ahead(s)
    BY <1>1, <1>3, <1>4, <1>6 DEF Loaded, Ahead
  <2> QED
    BY <1>4, <1>6, <2>1, <2>2 DEF Loaded
<1>12. Loaded(x)'
  BY <1>3, <1>5, <1>11, GoodServed
<1>13. Good(x)'
  BY <1>3, <1>4, <1>5, <1>6, <1>12 DEF Good, MayServe, tableVars
<1> QED
  BY <1>1, <1>3, <1>5, <1>13, ServeKeeps

\* The locals of a sync between two firewalls.
LEMMA UpcomingFacts ==
    ASSUME FeedInv, NEW c \in Callers, NEW f \in Firewalls, Upcoming(c, f)
    PROVE  \E s \in Sync :
             /\ s = sync[c] /\ s.pc = "push" /\ s.cur = None /\ f \in s.work
             /\ s.asof <= now /\ Loaded(s) /\ s.todo = {} /\ s.items = {}
BY DEF Upcoming, Serving, FeedInv, TypeOK, Good

LEMMA ServingFacts ==
    ASSUME FeedInv, NEW c \in Callers, NEW f \in Firewalls, Serving(c, f)
    PROVE  \E s \in Sync :
             /\ s = sync[c] /\ s.pc = "push" /\ s.cur = f /\ s.todo = {}
             /\ s.asof <= now /\ Loaded(s) /\ Pushing(s)
BY DEF Serving, FeedInv, TypeOK, Good

LEMMA PushInitKeeps ==
    ASSUME FeedInv, NEW c \in Callers, NEW f \in Firewalls, PushInit(c, f)
    PROVE  FeedInv'
<1>1. PICK s \in Sync :
        /\ s = sync[c] /\ s.pc = "push" /\ s.cur = None /\ f \in s.work
        /\ s.asof <= now /\ Loaded(s) /\ s.todo = {} /\ s.items = {}
  BY UpcomingFacts DEF PushInit
<1> DEFINE x == [s EXCEPT !.work = @ \ {f}, !.changed = TRUE,
                   !.new[f] = s.snapshot]
<1>2. /\ x \in Sync /\ x.work = s.work \ {f}
      /\ x.new = [s.new EXCEPT ![f] = s.snapshot]
  BY DEF Sync
<1>3. /\ x.pc = s.pc /\ x.todo = s.todo /\ x.cur = s.cur /\ x.asof = s.asof
      /\ x.items = s.items /\ x.snapshot = s.snapshot /\ x.init = s.init
      /\ x.full = s.full /\ x.delta = s.delta
  BY DEF Sync
<1>4. Become(c, x)
  BY <1>1 DEF PushInit
<1> HIDE DEF x
<1>5. s.snapshot \in Cursor /\ s.snapshot # NoCursor
      /\ s.new \in [Firewalls -> Cursor \cup {NoCursor}]
  BY Parameters DEF Sync
<1>6. baseline' = [baseline EXCEPT
        ![f] = baseline[f] \cup {r \in rows : Covered(s.snapshot, r)}]
      /\ UNCHANGED <<tableVars, cursors, lock, faults, settled>>
  BY <1>1 DEF PushInit
<1>7. MayServe
  BY <1>6 DEF MayServe, FeedInv, TypeOK
<1>8. Loaded(s)'
  BY <1>1, <1>7, GoodServed
<1>9. Honest(f, s.snapshot)'
  <2>1. rows' = rows /\ settled' = settled
    BY <1>6 DEF tableVars
  <2>2. \A r \in rows : Covered(s.snapshot, r) => r \in baseline'[f]
    BY <1>6 DEF FeedInv, TypeOK
  <2> QED
    BY <2>1, <2>2 DEF Honest
<1>10. x.new[f] = s.snapshot /\ \A g \in Firewalls \ {f} : x.new[g] = s.new[g]
  BY <1>2, <1>5
<1>11. \A g \in x.work \ x.init : PlanComplete(x, g)'
  <2> SUFFICES ASSUME NEW g \in x.work \ x.init PROVE PlanComplete(x, g)'
    OBVIOUS
  <2>1. g \in s.work \ s.init /\ g # f /\ g \in Firewalls
    BY <1>2, <1>3 DEF Sync
  <2>2. PlanComplete(s, g)'
    BY <1>8, <2>1 DEF Loaded
  <2>3. From(x, g) = From(s, g) /\ x.new[g] = s.new[g]
    BY <1>3, <1>10, <2>1 DEF From
  <2> QED
    BY <1>3, <2>2, <2>3 DEF PlanComplete
<1>12. Loaded(x)'
  <2>1. Ahead(x) \subseteq Ahead(s) /\ f \notin Ahead(x)
    BY <1>1, <1>2, <1>3, Parameters DEF Ahead
  <2>2. \A g \in Ahead(x) : x.new[g] = cursors'[g]
    BY <1>8, <1>10, <2>1 DEF Loaded, Ahead, Sync
  <2>3. \A g \in Firewalls :
          /\ x.new[g] = NoCursor => cursors'[g] = NoCursor
          /\ x.new[g] # NoCursor => Aged(x.new[g])' /\ Honest(g, x.new[g])'
    BY <1>5, <1>8, <1>9, <1>10 DEF Loaded
  <2>4. x.todo \cap x.work = {}
    BY <1>1, <1>3
  <2> QED
    BY <1>3, <1>8, <1>11, <2>2, <2>3, <2>4 DEF Loaded
<1>13. Good(x)'
  BY <1>1, <1>3, <1>6, <1>12, Parameters DEF Good, tableVars
<1> QED
  BY <1>1, <1>2, <1>4, <1>7, <1>13, ServeKeeps

LEMMA PushNothingKeeps ==
    ASSUME FeedInv, NEW c \in Callers, NEW f \in Firewalls, PushNothing(c, f)
    PROVE  FeedInv'
<1>1. PICK s \in Sync :
        /\ s = sync[c] /\ s.pc = "push" /\ s.cur = None /\ f \in s.work
        /\ s.asof <= now /\ Loaded(s) /\ s.todo = {} /\ s.items = {}
  BY UpcomingFacts DEF PushNothing
<1> DEFINE x == [s EXCEPT !.work = @ \ {f}]
<1>2. /\ x \in Sync /\ x.work = s.work \ {f} /\ x.new = s.new
      /\ x.pc = s.pc /\ x.todo = s.todo /\ x.cur = s.cur /\ x.asof = s.asof
      /\ x.items = s.items /\ x.snapshot = s.snapshot /\ x.init = s.init
      /\ x.full = s.full /\ x.delta = s.delta
  BY DEF Sync
<1>3. Become(c, x) /\ MayServe
  BY <1>1, QuietServe DEF PushNothing
<1> HIDE DEF x
<1>4. Loaded(x)
  BY <1>1, <1>2 DEF Loaded, Ahead, PlanComplete, From
<1>5. Loaded(x)'
  BY <1>2, <1>3, <1>4, GoodServed
<1>6. Good(x)'
  BY <1>1, <1>2, <1>3, <1>5, Parameters DEF Good, MayServe, tableVars
<1> QED
  BY <1>1, <1>2, <1>3, <1>6, ServeKeeps

LEMMA PushBeginKeeps ==
    ASSUME FeedInv, NEW c \in Callers, NEW f \in Firewalls, PushBegin(c, f)
    PROVE  FeedInv'
<1>1. PICK s \in Sync :
        /\ s = sync[c] /\ s.pc = "push" /\ s.cur = None /\ f \in s.work
        /\ s.asof <= now /\ Loaded(s) /\ s.todo = {} /\ s.items = {}
  BY UpcomingFacts DEF PushBegin
<1> DEFINE wild == {r \in s.delta[f] : r.val \in Wildcards}
           x == [s EXCEPT !.work = @ \ {f}, !.cur = f,
                          !.queue = s.delta[f] \ wild]
<1>0. s.delta[f] \in SUBSET Row
  BY DEF Sync
<1>2. /\ x \in Sync /\ x.work = s.work \ {f} /\ x.cur = f
      /\ x.queue = s.delta[f] \ wild
  BY <1>0 DEF Sync
<1>3. /\ x.pc = s.pc /\ x.todo = s.todo /\ x.asof = s.asof
      /\ x.items = s.items /\ x.snapshot = s.snapshot /\ x.init = s.init
      /\ x.full = s.full /\ x.delta = s.delta /\ x.new = s.new
  BY DEF Sync
<1>4. Become(c, x) /\ f \notin s.init
  BY <1>1 DEF PushBegin
<1>5. settled' = [settled EXCEPT ![f] = settled[f] \cup wild]
      /\ UNCHANGED <<tableVars, cursors, lock, faults, baseline>>
  BY <1>1 DEF PushBegin
<1>6. wild \subseteq Row
  BY <1>0
<1> HIDE DEF x, wild
<1>7. MayServe
  BY <1>5, <1>6 DEF MayServe, FeedInv, TypeOK
<1>8. Loaded(x)
  <2>1. Ahead(x) \subseteq Ahead(s) /\ x.work \subseteq s.work
    BY <1>1, <1>2, <1>3 DEF Ahead
  <2> QED
    BY <1>1, <1>2, <1>3, <2>1 DEF Loaded, PlanComplete, From
<1>9. Loaded(x)'
  BY <1>2, <1>7, <1>8, GoodServed
<1>10. Pushing(x)'
  <2>1. PlanComplete(s, f)
    BY <1>1, <1>4 DEF Loaded
  <2>2. PlanComplete(x, f)
    BY <1>3, <2>1 DEF PlanComplete, From
  <2>3. PlanComplete(x, f)'
    BY <1>2, <1>7, <2>2, GoodServed
  <2>4. wild \subseteq settled'[f]
    BY <1>5 DEF FeedInv, TypeOK
  <2>5. x.delta[f] \subseteq settled'[f] \cup x.queue
    BY <1>2, <1>3, <2>4
  <2> QED
    BY <1>1, <1>2, <1>3, <2>3, <2>5 DEF Pushing
<1>11. Good(x)'
  BY <1>1, <1>2, <1>3, <1>5, <1>9, <1>10, Parameters DEF Good, tableVars
<1> QED
  BY <1>1, <1>2, <1>4, <1>7, <1>11, ServeKeeps

\* A post changes only what is left to post.
LEMMA PostKeeps ==
    ASSUME FeedInv, NEW c \in Callers, NEW f \in Firewalls,
           NEW s \in Sync, s = sync[c], s.pc = "push", s.cur = f, s.todo = {},
           s.asof <= now, Loaded(s), Pushing(s),
           NEW q \in SUBSET Row, NEW i \in SUBSET Row,
           Become(c, [s EXCEPT !.queue = q, !.items = i]), MayServe,
           q \cup i \subseteq s.queue \cup s.items,
           s.queue \cup s.items \subseteq settled'[f] \cup q \cup i
    PROVE  FeedInv'
<1> DEFINE x == [s EXCEPT !.queue = q, !.items = i]
<1>1. /\ x \in Sync /\ x.queue = q /\ x.items = i
      /\ x.pc = s.pc /\ x.todo = s.todo /\ x.asof = s.asof /\ x.cur = s.cur
      /\ x.snapshot = s.snapshot /\ x.init = s.init /\ x.work = s.work
      /\ x.full = s.full /\ x.delta = s.delta /\ x.new = s.new
  BY DEF Sync
<1>2. Become(c, x)
  OBVIOUS
<1> HIDE DEF x
<1>3. Loaded(x)
  BY <1>1 DEF Loaded, Ahead, PlanComplete, From
<1>4. Loaded(x)'
  BY <1>1, <1>3, GoodServed
<1>5. PlanComplete(x, f)'
  <2>1. PlanComplete(x, f)
    BY <1>1 DEF Pushing, PlanComplete, From
  <2> QED
    BY <1>1, <2>1, GoodServed
<1>6. settled[f] \subseteq settled'[f]
  BY DEF MayServe
<1>7. Pushing(x)'
  BY <1>1, <1>5, <1>6 DEF Pushing
<1>8. Good(x)'
  BY <1>1, <1>4, <1>7, Parameters DEF Good, MayServe, tableVars
<1> QED
  BY <1>1, <1>2, <1>8, ServeKeeps

LEMMA PostSettledKeeps ==
    ASSUME FeedInv, NEW c \in Callers, NEW f \in Firewalls, PostSettled(c, f)
    PROVE  FeedInv'
<1>1. PICK s \in Sync :
        /\ s = sync[c] /\ s.pc = "push" /\ s.cur = f /\ s.todo = {}
        /\ s.asof <= now /\ Loaded(s) /\ Pushing(s)
  BY ServingFacts DEF PostSettled
<1>2. s.queue \in SUBSET Row /\ s.items \in SUBSET Row
  BY DEF Sync
<1>3. PICK rs \in Posts(s) :
        /\ Become(c, Remaining(s, rs))
        /\ settled' = [settled EXCEPT ![f] = settled[f] \cup rs]
  BY <1>1 DEF PostSettled
<1>4. rs \in SUBSET Row
  <2>1. CASE s.items = {}
    BY <1>2, <2>1 DEF Posts
  <2>2. CASE s.items # {}
    BY <1>2, <2>2 DEF Posts
  <2> QED
    BY <2>1, <2>2
<1>5. PICK q \in SUBSET Row, i \in SUBSET Row :
        q = s.queue \ rs /\ i = s.items \ rs
  BY <1>2
<1>6. Become(c, [s EXCEPT !.queue = q, !.items = i])
  BY <1>3, <1>5 DEF Remaining
<1>7. UNCHANGED <<tableVars, cursors, lock, faults, baseline>>
  BY DEF PostSettled
<1>8. MayServe
  BY <1>3, <1>4, <1>7 DEF MayServe, FeedInv, TypeOK
<1>9. rs \subseteq settled'[f]
  BY <1>3 DEF FeedInv, TypeOK
<1>10. /\ q \cup i \subseteq s.queue \cup s.items
       /\ s.queue \cup s.items \subseteq settled'[f] \cup q \cup i
  BY <1>5, <1>9
<1> QED
  BY <1>1, <1>6, <1>8, <1>10, PostKeeps

LEMMA PostRefusedKeeps ==
    ASSUME FeedInv, NEW c \in Callers, NEW f \in Firewalls, PostRefused(c, f)
    PROVE  FeedInv'
<1>1. PICK s \in Sync :
        /\ s = sync[c] /\ s.pc = "push" /\ s.cur = f /\ s.todo = {}
        /\ s.asof <= now /\ Loaded(s) /\ Pushing(s)
  BY ServingFacts DEF PostRefused
<1>2. s.queue \in SUBSET Row /\ s.items = {}
  BY <1>1 DEF Sync, PostRefused
<1>3. PICK i \in SUBSET s.queue :
        Become(c, [s EXCEPT !.queue = @ \ i, !.items = i])
  BY <1>1, <1>2 DEF PostRefused, Posts
<1>4. PICK q \in SUBSET Row : q = s.queue \ i
  BY <1>2
<1>5. Become(c, [s EXCEPT !.queue = q, !.items = i])
  BY <1>3, <1>4
<1>6. MayServe
  BY QuietServe DEF PostRefused
<1>7. /\ q \cup i \subseteq s.queue \cup s.items
      /\ s.queue \cup s.items \subseteq settled'[f] \cup q \cup i
      /\ i \in SUBSET Row
  BY <1>2, <1>4
<1> QED
  BY <1>1, <1>5, <1>6, <1>7, PostKeeps

LEMMA PostFailedKeeps ==
    ASSUME FeedInv, NEW c \in Callers, NEW f \in Firewalls, PostFailed(c, f)
    PROVE  FeedInv'
<1>1. PICK s \in Sync :
        /\ s = sync[c] /\ s.pc = "push" /\ s.cur = f /\ s.todo = {}
        /\ s.asof <= now /\ Loaded(s) /\ Pushing(s)
  BY ServingFacts DEF PostFailed
<1> DEFINE x == EndPush(s)
<1>2. /\ x \in Sync /\ x.cur = None /\ x.items = {}
      /\ x.pc = s.pc /\ x.todo = s.todo /\ x.asof = s.asof
      /\ x.snapshot = s.snapshot /\ x.init = s.init /\ x.work = s.work
      /\ x.full = s.full /\ x.delta = s.delta /\ x.new = s.new
  BY DEF Sync, EndPush
<1>3. Become(c, x) /\ MayServe
  BY <1>1, QuietServe DEF PostFailed
<1> HIDE DEF x
<1>4. Loaded(x)
  <2>1. Ahead(x) \subseteq Ahead(s)
    BY <1>2, Parameters DEF Ahead
  <2> QED
    BY <1>1, <1>2, <2>1 DEF Loaded, PlanComplete, From
<1>5. Loaded(x)'
  BY <1>2, <1>3, <1>4, GoodServed
<1>6. Good(x)'
  BY <1>1, <1>2, <1>3, <1>5, Parameters DEF Good, MayServe, tableVars
<1> QED
  BY <1>1, <1>2, <1>3, <1>6, ServeKeeps

\* The cursor of a push that is through stands on rows of the delta, or
\* where it stood.
LEMMA AdvancedRows ==
    ASSUME NEW cursor \in Cursor \cup {NoCursor}, NEW rs \in SUBSET Row
    PROVE  /\ Advanced(cursor, rs) \in Cursor
           /\ \A t \in Tables : \A q \in Advanced(cursor, rs)[t] :
                q \in rs \/ (cursor # NoCursor /\ q \in cursor[t])
<1>1. ASSUME NEW t \in Tables
      PROVE  /\ Advanced(cursor, rs)[t] \subseteq Row
             /\ \A q \in Advanced(cursor, rs)[t] :
                  q \in rs \/ (cursor # NoCursor /\ q \in cursor[t])
  <2>1. CASE In(t, rs) # {}
    BY <2>1, NewestSubset DEF Advanced, In
  <2>2. CASE In(t, rs) = {} /\ cursor = NoCursor
    BY <2>2 DEF Advanced
  <2>3. CASE In(t, rs) = {} /\ cursor # NoCursor
    BY <2>3 DEF Advanced, Cursor
  <2> QED
    BY <2>1, <2>2, <2>3
<1> QED
  BY <1>1 DEF Advanced, Cursor

\* What is behind the advanced cursor was delivered, or was behind the
\* cursor the push started from.
LEMMA AdvancedHonest ==
    ASSUME FeedInv, NEW s \in Sync, NEW f \in Firewalls, Loaded(s),
           PlanComplete(s, f), s.asof <= now,
           s.delta[f] \subseteq settled[f]
    PROVE  /\ Aged(Advanced(s.new[f], s.delta[f]))
           /\ Honest(f, Advanced(s.new[f], s.delta[f]))
<1> DEFINE d == s.delta[f]
           k == Advanced(s.new[f], d)
<1>1. /\ d \in SUBSET Row /\ s.new[f] \in Cursor \cup {NoCursor}
      /\ s.asof \in Nat /\ now \in Nat /\ rows \subseteq Row
  BY DEF Sync, FeedInv, TypeOK
<1>2. \A t \in Tables : \A q \in k[t] :
        q \in d \/ (s.new[f] # NoCursor /\ q \in s.new[f][t])
  BY <1>1, AdvancedRows
<1>3. k \in Cursor
  BY <1>1, AdvancedRows
<1>4. \A q \in d : q \in Row /\ Due(q, s.asof)
  BY <1>1 DEF PlanComplete
<1> HIDE DEF k, d
<1>5. s.new[f] # NoCursor => Aged(s.new[f]) /\ Honest(f, s.new[f])
  BY DEF Loaded
<1>6. Aged(k)
  <2> SUFFICES ASSUME NEW t \in Tables, NEW q \in k[t] PROVE q.ts + Lag <= now
    BY DEF Aged
  <2>1. CASE q \in d
    <3>1. q.ts \in Nat /\ q.ts + Lag <= s.asof
      BY <1>4, <2>1 DEF Row, Due
    <3> QED
      BY <1>1, <3>1, Parameters
  <2>2. CASE s.new[f] # NoCursor /\ q \in s.new[f][t]
    BY <1>5, <2>2 DEF Aged
  <2> QED
    BY <1>2, <2>1, <2>2
<1>7. ASSUME NEW r \in rows, Covered(k, r) PROVE r \in settled[f] \cup baseline[f]
  <2>1. PICK q \in k[r.tab] : ~Later(r, q)
    BY <1>7 DEF Covered
  <2>2. r.tab \in Tables /\ r.ts \in Nat /\ r \in Row
    BY <1>1 DEF Row
  <2>3. CASE q \in d
    <3>1. q.ts \in Nat /\ q.ts + Lag <= s.asof
      BY <1>4, <2>3 DEF Row, Due
    <3>2. r.ts <= q.ts
      BY <2>1, <2>2, <3>1 DEF Later
    <3>3. Due(r, s.asof)
      BY <1>1, <2>2, <3>1, <3>2, Parameters DEF Due
    <3>4. r \in d \/ Covered(From(s, f), r)
      BY <3>3 DEF PlanComplete, d
    <3>5. CASE r \in d
      BY <3>5 DEF d
    <3>6. CASE Covered(From(s, f), r)
      <4>1. From(s, f) # EmptyCursor
        BY <2>2, <3>6 DEF Covered, EmptyCursor
      <4>2. s.new[f] # NoCursor /\ From(s, f) = s.new[f]
        BY <4>1 DEF From
      <4> QED
        BY <1>5, <3>6, <4>2 DEF Honest
    <3> QED
      BY <3>4, <3>5, <3>6
  <2>4. CASE s.new[f] # NoCursor /\ q \in s.new[f][r.tab]
    <3>1. Covered(s.new[f], r)
      BY <2>1, <2>4 DEF Covered
    <3> QED
      BY <1>5, <2>4, <3>1 DEF Honest
  <2> QED
    BY <1>2, <2>1, <2>2, <2>3, <2>4
<1> QED
  BY <1>6, <1>7 DEF Honest, k, d

LEMMA PushDoneKeeps ==
    ASSUME FeedInv, NEW c \in Callers, NEW f \in Firewalls, PushDone(c, f)
    PROVE  FeedInv'
<1>1. PICK s \in Sync :
        /\ s = sync[c] /\ s.pc = "push" /\ s.cur = f /\ s.todo = {}
        /\ s.asof <= now /\ Loaded(s) /\ Pushing(s)
  BY ServingFacts DEF PushDone
<1>2. s.queue = {} /\ s.items = {}
  BY <1>1 DEF PushDone
<1>3. s.delta[f] \in SUBSET Row /\ s.new[f] \in Cursor \cup {NoCursor}
  BY DEF Sync
<1>4. PICK k \in Cursor : k = Advanced(s.new[f], s.delta[f])
  BY <1>3, AdvancedRows
<1>5. Aged(k) /\ Honest(f, k)
  <2>1. PlanComplete(s, f) /\ s.delta[f] \subseteq settled[f]
    BY <1>1, <1>2 DEF Pushing
  <2> QED
    BY <1>1, <1>4, <2>1, AdvancedHonest
<1> DEFINE x == [EndPush(s) EXCEPT !.changed = TRUE, !.new[f] = k]
<1>6. /\ x \in Sync /\ x.cur = None /\ x.items = {}
      /\ x.pc = s.pc /\ x.todo = s.todo /\ x.asof = s.asof
      /\ x.snapshot = s.snapshot /\ x.init = s.init /\ x.work = s.work
      /\ x.full = s.full /\ x.delta = s.delta
      /\ x.new = [s.new EXCEPT ![f] = k]
  BY DEF Sync, EndPush
<1>7. Become(c, x)
  BY <1>1, <1>4 DEF PushDone, EndPush
<1>8. MayServe
  BY QuietServe DEF PushDone
<1> HIDE DEF x
<1>9. s.new \in [Firewalls -> Cursor \cup {NoCursor}] /\ k # NoCursor
  BY Parameters DEF Sync
<1>10. x.new[f] = k /\ \A g \in Firewalls \ {f} : x.new[g] = s.new[g]
  BY <1>6, <1>9
<1>11. f \notin s.work
  BY <1>1 DEF Pushing
<1>12. ASSUME NEW g \in x.work \ x.init PROVE PlanComplete(x, g)
  <2>1. g \in s.work \ s.init /\ g # f /\ g \in Firewalls
    BY <1>6, <1>11 DEF Sync
  <2>2. PlanComplete(s, g)
    BY <1>1, <2>1 DEF Loaded
  <2>3. From(x, g) = From(s, g) /\ x.new[g] = s.new[g]
    BY <1>6, <1>10, <2>1 DEF From
  <2> QED
    BY <1>6, <2>2, <2>3 DEF PlanComplete
<1>13. Loaded(x)
  <2>1. Ahead(x) \subseteq Ahead(s) /\ f \notin Ahead(x)
        /\ Ahead(x) \subseteq Firewalls
    BY <1>1, <1>6, <1>11, Parameters DEF Ahead, Sync
  <2>2. \A g \in Ahead(x) : x.new[g] = cursors[g]
    BY <1>1, <1>10, <2>1 DEF Loaded
  <2>3. \A g \in Firewalls :
          /\ x.new[g] = NoCursor => cursors[g] = NoCursor
          /\ x.new[g] # NoCursor => Aged(x.new[g]) /\ Honest(g, x.new[g])
    BY <1>1, <1>5, <1>9, <1>10 DEF Loaded
  <2>4. x.todo \cap x.work = {}
    BY <1>1, <1>6
  <2> QED
    BY <1>1, <1>6, <1>12, <2>2, <2>3, <2>4 DEF Loaded
<1>14. Loaded(x)'
  BY <1>6, <1>8, <1>13, GoodServed
<1>15. Good(x)'
  BY <1>1, <1>6, <1>8, <1>14, Parameters DEF Good, MayServe, tableVars
<1> QED
  BY <1>1, <1>6, <1>7, <1>8, <1>15, ServeKeeps

----------------------------------------------------------------------------
(* The end of a sync                                                       *)

\* c lets go of the lock; the durable cursors are the old ones or its own.
LEMMA ReleaseKeeps ==
    ASSUME FeedInv, NEW c \in Callers, sync[c].pc # "idle", Release(c),
           UNCHANGED <<tableVars, history>>, faults' \in Nat,
           cursors' = cursors \/ (Loaded(sync[c]) /\ cursors' = sync[c].new)
    PROVE  FeedInv'
<1>1. lock = c /\ \A u \in Callers \ {c} : sync[u].pc = "idle"
  BY DEF FeedInv
<1>2. PICK s \in Sync : s = NoSync /\ s.pc = "idle"
  BY NoSyncType
<1>3. Become(c, s) /\ lock' = None
  BY <1>2 DEF Release
<1>4. Good(s)'
  BY <1>2 DEF Good
<1>5. sync[c].new \in [Firewalls -> Cursor \cup {NoCursor}]
  BY DEF FeedInv, TypeOK, Sync
<1>6. /\ cursors' \in [Firewalls -> Cursor \cup {NoCursor}]
      /\ settled' \in [Firewalls -> SUBSET Row]
      /\ baseline' \in [Firewalls -> SUBSET Row]
  BY <1>5 DEF FeedInv, TypeOK, history
<1>7. \A f \in Firewalls : cursors'[f] # NoCursor =>
        Aged(cursors'[f]) /\ Honest(f, cursors'[f])
  <2>1. \A f \in Firewalls : cursors[f] # NoCursor =>
          Aged(cursors[f]) /\ Honest(f, cursors[f])
    BY DEF FeedInv, CursorsAged, NoLoss, Passed, Honest
  <2> QED
    BY <2>1 DEF Loaded
<1>8. CursorsAged' /\ NoLoss'
  BY <1>7 DEF CursorsAged, NoLoss, Passed, Aged, Honest, tableVars, history
<1>9. lock' \in Callers \cup {None} /\ UNCHANGED tableVars
  BY <1>3
<1> QED
  BY <1>1, <1>2, <1>3, <1>4, <1>6, <1>8, <1>9, SyncKeeps

LEMMA EndKeeps ==
    ASSUME FeedInv, NEW c \in Callers,
           SyncSave(c) \/ SyncSaveFailed(c) \/ SyncGiveUp(c)
    PROVE  FeedInv'
<1>1. faults \in Nat
  BY DEF FeedInv, TypeOK
<1>2. CASE SyncSave(c)
  <2>1. sync[c].pc = "push"
    BY <1>2 DEF SyncSave, Served, Serving
  <2>2. Loaded(sync[c])
    BY <2>1 DEF FeedInv, Good
  <2> QED
    BY <1>1, <1>2, <2>1, <2>2, ReleaseKeeps DEF SyncSave
<1>3. CASE SyncSaveFailed(c)
  <2>1. sync[c].pc = "push"
    BY <1>3 DEF SyncSaveFailed, Served, Serving
  <2> QED
    BY <1>1, <1>3, <2>1, ReleaseKeeps DEF SyncSaveFailed
<1>4. CASE SyncGiveUp(c)
  <2>1. sync[c].pc # "idle"
    BY <1>4 DEF SyncGiveUp
  <2> QED
    BY <1>1, <1>4, <2>1, ReleaseKeeps DEF SyncGiveUp
<1> QED
  BY <1>2, <1>3, <1>4

----------------------------------------------------------------------------
(* The theorems                                                            *)

LEMMA InitFeedInv == Init => FeedInv
<1> SUFFICES ASSUME Init PROVE FeedInv
  OBVIOUS
<1>1. \A c \in Callers : sync[c] = NoSync
  BY DEF Init
<1>2. TypeOK
  BY NoSyncType DEF Init, TypeOK
<1>3. Clock /\ CursorsAged /\ NoLoss
  BY DEF Init, Clock, CursorsAged, NoLoss, Passed
<1> QED
  BY <1>1, <1>2, <1>3, NoSyncType DEF FeedInv, Good

LEMMA StepFeedInv == FeedInv /\ [Next]_vars => FeedInv'
<1> SUFFICES ASSUME FeedInv, [Next]_vars PROVE FeedInv'
  OBVIOUS
<1>1. CASE Tick
  BY <1>1, TickKeeps
<1>2. CASE TableStep
  BY <1>2, TableStepKeeps
<1>3. ASSUME NEW c \in Callers, SyncStart(c) PROVE FeedInv'
  BY <1>3, SyncStartKeeps
<1>4. ASSUME NEW c \in Callers, SyncStep(c) PROVE FeedInv'
  <2>1. CASE SyncLoad(c)
    BY <2>1, SyncLoadKeeps
  <2>2. ASSUME NEW f \in Firewalls,
               SyncPlan(c, f) \/ PushInit(c, f) \/ PushNothing(c, f)
               \/ PushBegin(c, f)
        PROVE  FeedInv'
    BY <2>2, SyncPlanKeeps, PushInitKeeps, PushNothingKeeps, PushBeginKeeps
  <2>3. ASSUME NEW f \in Firewalls,
               PostSettled(c, f) \/ PostRefused(c, f) \/ PostFailed(c, f)
               \/ PushDone(c, f)
        PROVE  FeedInv'
    BY <2>3, PostSettledKeeps, PostRefusedKeeps, PostFailedKeeps, PushDoneKeeps
  <2>4. CASE SyncSave(c) \/ SyncSaveFailed(c) \/ SyncGiveUp(c)
    BY <2>4, EndKeeps
  <2> QED
    BY <1>4, <2>1, <2>2, <2>3, <2>4 DEF SyncStep
<1>5. CASE Crash
  BY <1>5, CrashKeeps
<1>6. CASE UNCHANGED vars
  <2>1. TablesMove /\ Clock'
    BY <1>6 DEF vars, TablesMove, Clock, FeedInv, TypeOK
  <2> QED
    BY <1>6, <2>1, TablesKeep DEF vars, history
<1> QED
  BY <1>1, <1>2, <1>3, <1>4, <1>5, <1>6 DEF Next

\* The invariant of the feed (firewall_feed.py), in every reachable state.
THEOREM FeedInvariant == Spec => []FeedInv
<1>1. Init => FeedInv
  BY InitFeedInv
<1>2. FeedInv /\ [Next]_vars => FeedInv'
  BY StepFeedInv
<1> QED
  BY <1>1, <1>2, PTL DEF Spec

\* Tables, cursors and the locals of every sync keep their types.
THEOREM FeedTypeCorrect == Spec => []TypeOK
<1>1. FeedInv => TypeOK
  BY DEF FeedInv
<1> QED
  BY <1>1, FeedInvariant, PTL

\* No row a durable cursor has passed was lost on its way to the firewall
\* (_push_to_firewall, _sync), whatever commits late, fails or crashes.
THEOREM NothingLost == Spec => []NoLoss
<1>1. FeedInv => NoLoss
  BY DEF FeedInv
<1> QED
  BY <1>1, FeedInvariant, PTL

LEMMA DeltaNew == FeedInv => DeltaIsNew
<1> SUFFICES ASSUME FeedInv, NEW c \in Callers, NEW f \in Firewalls,
                    Serving(c, f), ~sync[c].full
             PROVE  /\ cursors[f] # NoCursor
                    /\ \A r \in sync[c].queue \cup sync[c].items : ~Passed(f, r)
  BY DEF DeltaIsNew
<1>1. PICK s \in Sync :
        /\ s = sync[c] /\ s.pc = "push" /\ s.cur = f /\ s.todo = {}
        /\ s.asof <= now /\ Loaded(s) /\ Pushing(s)
  BY ServingFacts
<1>2. PlanComplete(s, f) /\ s.queue \cup s.items \subseteq s.delta[f]
  BY <1>1 DEF Pushing
<1>3. s.new[f] = cursors[f]
  BY <1>1 DEF Loaded, Ahead
<1>4. s.new[f] # NoCursor /\ From(s, f) = cursors[f]
  BY <1>1, <1>2, <1>3 DEF PlanComplete, From
<1> QED
  BY <1>1, <1>2, <1>3, <1>4 DEF PlanComplete, Passed

\* Outside a full seed nothing is posted again (_fetch_delta, _SYNC_LOCK).
THEOREM DeltasAreNew == Spec => []DeltaIsNew
BY DeltaNew, FeedInvariant, PTL

LEMMA CursorStep ==
    ASSUME FeedInv, [Next]_vars, NEW f \in Firewalls, cursors[f] # NoCursor
    PROVE  cursors'[f] # NoCursor
<1>1. ASSUME NEW c \in Callers, SyncSave(c) PROVE cursors'[f] # NoCursor
  <2>1. Loaded(sync[c])
    BY <1>1 DEF SyncSave, Served, Serving, FeedInv, Good
  <2> QED
    BY <1>1, <2>1 DEF Loaded, SyncSave
<1>2. Tick \/ TableStep \/ Crash \/ UNCHANGED vars => cursors' = cursors
  BY DEF Tick, TableStep, Stamp, Commit, Rollback, Unblock, Crash, vars
<1>3. ASSUME NEW c \in Callers, SyncStart(c) \/ SyncStep(c), ~SyncSave(c)
      PROVE  cursors' = cursors
  <2>1. ASSUME NEW g \in Firewalls,
               SyncPlan(c, g) \/ PushInit(c, g) \/ PushNothing(c, g)
               \/ PushBegin(c, g) \/ PostSettled(c, g) \/ PostRefused(c, g)
               \/ PostFailed(c, g) \/ PushDone(c, g)
        PROVE  cursors' = cursors
    BY <2>1 DEF SyncPlan, PushInit, PushNothing, PushBegin, PostSettled,
       PostRefused, PostFailed, PushDone
  <2>2. SyncStart(c) \/ SyncLoad(c) \/ SyncSaveFailed(c) \/ SyncGiveUp(c)
        => cursors' = cursors
    BY DEF SyncStart, SyncLoad, SyncSaveFailed, SyncGiveUp
  <2> QED
    BY <1>3, <2>1, <2>2 DEF SyncStep
<1> QED
  BY <1>1, <1>2, <1>3 DEF Next

\* A durable cursor is never lost (_save_watermarks writes all of them).
THEOREM CursorsStay == Spec => CursorKept
<1>1. FeedInv /\ [Next]_vars =>
        [\A f \in Firewalls : cursors[f] # NoCursor => cursors'[f] # NoCursor]_vars
  BY CursorStep
<1> QED
  BY <1>1, FeedInvariant, PTL DEF Spec, CursorKept

----------------------------------------------------------------------------
(* The contract: what makes every step of the feed one of FeedContract, or *)
(* one that the contract does not notice.                                  *)

\* Tables and deltas are finite, so that there is a newest row to stand on.
FeedFinite(s) == \A f \in Firewalls : IsFiniteSet(s.delta[f])

\* The cursors a sync has found are no newer than its own horizon.
Behind(s) ==
    \A f \in Joined, t \in Tables : \A q \in cursors[f][t] : Due(q, s.asof)

\* Who has an account will not be initialized, and the cursor a sync will
\* save for him stands on rows it has pushed, and not before the old one.
Keeping(s) ==
    /\ s.init \cap s.todo = {}
    /\ \A f \in s.init \cap s.work : s.new[f] = NoCursor
    /\ \A f \in Joined : \A r \in rows :
         /\ Covered(cursors[f], r) => Covered(s.new[f], r)
         /\ Covered(s.new[f], r) => Covered(cursors[f], r) \/ r \in settled[f]

Contracted(s) ==
    s.pc # "idle" =>
      /\ FeedFinite(s) /\ Behind(s)
      /\ s.pc = "load" => s.init = {}
      /\ s.pc \in {"plan", "push"} => Keeping(s)

ContractInv ==
    /\ FeedInv /\ IsFiniteSet(rows)
    /\ \A c \in Callers : Contracted(sync[c])

\* The composite order (blocked_at, value) is a strict order.
LEMMA LaterOrder ==
    ASSUME NEW a \in Row, NEW b \in Row, NEW c \in Row
    PROVE  ~Later(a, a) /\ (Later(a, b) /\ Later(b, c) => Later(a, c))
<1>1. /\ a.ts \in Nat /\ b.ts \in Nat /\ c.ts \in Nat
      /\ a.val \in Nat /\ b.val \in Nat /\ c.val \in Nat
  BY FeedAssumption DEF Row
<1> QED
  BY <1>1 DEF Later

\* Of finitely many rows one is the newest: no row has fewest above it otherwise.
LEMMA NewestThere ==
    ASSUME NEW S, S \subseteq Row, IsFiniteSet(S), S # {}
    PROVE  \E m \in S : m \in Newest(S)
<1> DEFINE Above(q) == {x \in S : Later(x, q)}
           Sets == {Above(q) : q \in S}
           Order == StrictSubsetOrdering(S)
<1>1. IsWellFoundedOn(Order, SUBSET S)
  BY FS_StrictSubsetOrderingWellFounded, FS_FiniteSubsetsOfFinite
<1>2. Sets \subseteq SUBSET S /\ Sets # {}
  OBVIOUS
<1>3. PICK A \in Sets : \A B \in Sets : ~(<<B, A>> \in Order)
  <2> HIDE DEF Sets, Order
  <2> QED
    BY <1>1, <1>2, WFMin, Zenon
<1>4. PICK m \in S : A = Above(m)
  BY <1>3
<1>5. ASSUME NEW x \in S, Later(x, m) PROVE FALSE
  <2>1. Above(x) \subseteq Above(m)
    <3>1. SUFFICES ASSUME NEW y \in S, Later(y, x) PROVE Later(y, m)
      OBVIOUS
    <3>2. x \in Row /\ y \in Row /\ m \in Row
      OBVIOUS
    <3> QED
      BY <1>5, <3>1, <3>2, LaterOrder
  <2>2. x \in Above(m) /\ x \notin Above(x)
    <3>1. x \in Row
      OBVIOUS
    <3>2. ~Later(x, x)
      BY <3>1, LaterOrder
    <3> QED
      BY <1>5, <3>2
  <2>3. <<Above(x), Above(m)>> \in Order
    <3>1. <<Above(x), Above(m)>> \in (SUBSET S) \X (SUBSET S) /\ Above(x) # Above(m)
      BY <2>2
    <3> HIDE DEF Above
    <3> QED
      BY <2>1, <3>1 DEF StrictSubsetOrdering
  <2>4. Above(x) \in Sets
    OBVIOUS
  <2> HIDE DEF Above, Sets, Order
  <2> QED
    BY <1>3, <1>4, <2>3, <2>4
<1> QED
  BY <1>5 DEF Newest

----------------------------------------------------------------------------
(* The contract: steps of the tables and of the clock                      *)

LEMMA TablesAlone ==
    ASSUME FeedInv, Tick \/ TableStep \/ UNCHANGED vars
    PROVE  TablesMove /\ UNCHANGED <<cursors, lock, sync, faults, history>>
<1>1. /\ now \in Nat /\ writing \subseteq Row /\ rows \subseteq Row
      /\ now <= now /\ Clock
  BY DEF FeedInv, TypeOK
<1>2. CASE Tick
  <2>1. now' \in Nat /\ now <= now'
    BY <1>1, <1>2 DEF Tick
  <2> QED
    BY <1>1, <1>2, <2>1 DEF Tick, TablesMove
<1>3. ASSUME NEW t \in Tables, NEW v \in Vals, Stamp(t, v)
      PROVE  TablesMove /\ UNCHANGED <<cursors, lock, sync, faults, history>>
  <2>1. [tab |-> t, val |-> v, ts |-> now] \in Row
    BY <1>1 DEF Row
  <2> QED
    BY <1>1, <1>3, <2>1 DEF Stamp, TablesMove
<1>4. ASSUME NEW r \in writing, Commit(r)
      PROVE  TablesMove /\ UNCHANGED <<cursors, lock, sync, faults, history>>
  <2>1. r \in Row /\ r.ts \in Nat
    BY <1>1 DEF Row
  <2>2. now < r.ts + Lag
    BY <1>1, <2>1, Parameters DEF Clock
  <2> QED
    BY <1>1, <1>4, <2>1, <2>2 DEF Commit, TablesMove
<1>5. ASSUME NEW r \in writing, Rollback(r)
      PROVE  TablesMove /\ UNCHANGED <<cursors, lock, sync, faults, history>>
  BY <1>1, <1>5 DEF Rollback, TablesMove
<1>6. ASSUME NEW r \in rows, Unblock(r)
      PROVE  TablesMove /\ UNCHANGED <<cursors, lock, sync, faults, history>>
  BY <1>1, <1>6 DEF Unblock, TablesMove
<1>7. CASE UNCHANGED vars
  BY <1>1, <1>7 DEF vars, TablesMove, history
<1> QED
  BY <1>2, <1>3, <1>4, <1>5, <1>6, <1>7 DEF TableStep

LEMMA RowsFinite ==
    ASSUME IsFiniteSet(rows), [Next]_vars
    PROVE  IsFiniteSet(rows')
<1>1. rows' = rows \/ (\E r : rows' = rows \cup {r}) \/ rows' \subseteq rows
  <2>1. Tick \/ Crash \/ UNCHANGED vars => rows' = rows
    BY DEF Tick, Crash, vars
  <2>2. TableStep => rows' = rows \/ (\E r : rows' = rows \cup {r}) \/ rows' \subseteq rows
    BY DEF TableStep, Stamp, Commit, Rollback, Unblock
  <2>3. ASSUME NEW c \in Callers, SyncStart(c) \/ SyncStep(c) PROVE rows' = rows
    <3>1. ASSUME NEW g \in Firewalls,
                 SyncPlan(c, g) \/ PushInit(c, g) \/ PushNothing(c, g)
                 \/ PushBegin(c, g) \/ PostSettled(c, g) \/ PostRefused(c, g)
                 \/ PostFailed(c, g) \/ PushDone(c, g)
          PROVE  rows' = rows
      BY <3>1 DEF SyncPlan, PushInit, PushNothing, PushBegin, PostSettled,
         PostRefused, PostFailed, PushDone, tableVars
    <3>2. SyncStart(c) \/ SyncLoad(c) \/ SyncSave(c) \/ SyncSaveFailed(c) \/ SyncGiveUp(c)
          => rows' = rows
      BY DEF SyncStart, SyncLoad, SyncSave, SyncSaveFailed, SyncGiveUp, tableVars
    <3> QED
      BY <2>3, <3>1, <3>2 DEF SyncStep
  <2> QED
    BY <2>1, <2>2, <2>3 DEF Next
<1> QED
  BY <1>1, FS_AddElement, FS_Subset

\* A row that appears is behind no cursor, whether durable or still to save.
LEMMA ContractedTables ==
    ASSUME FeedInv, TablesMove, UNCHANGED <<cursors, settled>>,
           NEW s \in Sync, Good(s), Contracted(s)
    PROVE  Contracted(s)'
<1>1. SUFFICES ASSUME s.pc # "idle" PROVE Contracted(s)'
  BY DEF Contracted
<1>2. FeedFinite(s)' /\ Behind(s)'
  BY <1>1 DEF Contracted, FeedFinite, Behind, Joined
<1>3. ASSUME s.pc \in {"plan", "push"} PROVE Keeping(s)'
  <2>1. Loaded(s) /\ Keeping(s)
    BY <1>1, <1>3 DEF Good, Contracted
  <2>2. SUFFICES ASSUME NEW f \in Joined, NEW r \in rows'
                 PROVE  /\ Covered(cursors[f], r) => Covered(s.new[f], r)
                        /\ Covered(s.new[f], r) => Covered(cursors[f], r) \/ r \in settled[f]
    BY <2>1 DEF Keeping, Joined
  <2>3. CASE r \in rows
    BY <2>1, <2>3 DEF Keeping
  <2>4. CASE r \notin rows
    <3>1. r \in Row /\ now < r.ts + Lag /\ now \in Nat
      BY <2>4 DEF TablesMove, FeedInv, TypeOK
    <3>2. cursors[f] \in Cursor /\ Aged(cursors[f]) /\ f \in Firewalls
      BY DEF Joined, FeedInv, TypeOK, CursorsAged
    <3>3. ~Covered(cursors[f], r)
      BY <3>1, <3>2, YoungNotCovered
    <3>4. s.new[f] # NoCursor /\ Aged(s.new[f])
      BY <2>1 DEF Loaded, Joined
    <3>5. s.new[f] \in Cursor
      BY <3>2, <3>4 DEF Sync
    <3>6. ~Covered(s.new[f], r)
      BY <3>1, <3>4, <3>5, YoungNotCovered
    <3> QED
      BY <3>3, <3>6
  <2> QED
    BY <2>3, <2>4
<1> QED
  BY <1>1, <1>2, <1>3 DEF Contracted

LEMMA ContractTables ==
    ASSUME ContractInv, Tick \/ TableStep \/ UNCHANGED vars
    PROVE  \A c \in Callers : Contracted(sync[c])'
<1>1. TablesMove /\ UNCHANGED <<cursors, lock, sync, faults, history>>
  BY TablesAlone DEF ContractInv
<1> SUFFICES ASSUME NEW c \in Callers PROVE Contracted(sync[c])'
  OBVIOUS
<1>2. PICK s \in Sync : s = sync[c] /\ s = sync'[c]
  BY <1>1 DEF ContractInv, FeedInv, TypeOK
<1>3. Good(s) /\ Contracted(s) /\ FeedInv /\ UNCHANGED <<cursors, settled>>
  BY <1>1, <1>2 DEF ContractInv, FeedInv, history
<1>4. Contracted(s)'
  BY <1>1, <1>3, ContractedTables
<1> QED
  BY <1>2, <1>4 DEF Contracted, FeedFinite, Behind, Keeping, Joined

----------------------------------------------------------------------------
(* The contract: steps of a sync                                           *)

LEMMA OthersRest ==
    ASSUME FeedInv, NEW c \in Callers, sync[c].pc # "idle"
    PROVE  \A u \in Callers \ {c} : sync[u].pc = "idle"
BY DEF FeedInv

LEMMA ContractedNext ==
    ASSUME FeedInv, NEW c \in Callers, NEW s \in Sync, Become(c, s),
           \A u \in Callers \ {c} : sync[u].pc = "idle", Contracted(s)'
    PROVE  \A u \in Callers : Contracted(sync[u])'
<1>1. sync'[c] = s /\ \A u \in Callers \ {c} : sync'[u].pc = "idle"
  BY DEF FeedInv, TypeOK, Become
<1>2. \A u \in Callers \ {c} : Contracted(sync[u])'
  BY <1>1 DEF Contracted
<1>3. Contracted(sync[c])'
  BY <1>1 DEF Contracted, FeedFinite, Behind, Keeping, Joined
<1> QED
  BY <1>2, <1>3

\* A step that serves, as long as the sync keeps to what it has planned.
LEMMA ContractedServed ==
    ASSUME FeedInv, MayServe, NEW c \in Callers, NEW s \in Sync, s = sync[c],
           s.pc = "push", Contracted(s),
           NEW x \in Sync, Become(c, x), x.pc = "push", x.asof = s.asof, x.delta = s.delta,
           x.new = s.new, x.init = s.init, x.todo = s.todo, x.work \subseteq s.work
    PROVE  \A u \in Callers : Contracted(sync[u])'
<1>1. /\ rows' = rows /\ cursors' = cursors /\ Joined' = Joined
      /\ \A f \in Firewalls : settled[f] \subseteq settled'[f]
  BY DEF MayServe, tableVars, Joined
<1>2. FeedFinite(s) /\ Behind(s) /\ Keeping(s)
  BY DEF Contracted
<1>3. FeedFinite(x)' /\ Behind(x)'
  BY <1>1, <1>2 DEF FeedFinite, Behind
<1>4. Joined \subseteq Firewalls
  BY DEF Joined
<1>5. Keeping(x)'
  BY <1>1, <1>2, <1>4 DEF Keeping
<1>6. Contracted(x)'
  BY <1>3, <1>5 DEF Contracted
<1> QED
  BY <1>6, OthersRest, ContractedNext

LEMMA ContractStart ==
    ASSUME ContractInv, NEW c \in Callers, SyncStart(c)
    PROVE  \A u \in Callers : Contracted(sync[u])'
<1>0. FeedInv
  BY DEF ContractInv
<1>1. PICK fs \in SUBSET Firewalls, full \in BOOLEAN :
        Become(c, [NoSync EXCEPT !.pc = "load", !.full = full, !.asof = now,
                    !.todo = fs])
  BY FeedAssumption DEF SyncStart
<1>2. PICK n \in Nat : n = now
  BY <1>0 DEF FeedInv, TypeOK
<1> DEFINE x == [NoSync EXCEPT !.pc = "load", !.full = full, !.asof = n,
                   !.todo = fs]
<1>3. /\ x \in Sync /\ x.pc = "load" /\ x.asof = n /\ x.init = {}
      /\ \A f \in Firewalls : x.delta[f] = {}
  BY NoSyncType DEF NoSync, Sync
<1>4. Become(c, x)
  BY <1>1, <1>2
<1> HIDE DEF x
<1>5. lock = None /\ UNCHANGED <<tableVars, cursors, faults, history>>
  BY DEF SyncStart
<1>6. \A u \in Callers : sync[u].pc = "idle"
  BY <1>0, <1>5, Parameters DEF FeedInv
<1>7. FeedFinite(x)'
  BY <1>3, FS_EmptySet DEF FeedFinite
<1>8. Behind(x)'
  BY <1>0, <1>2, <1>3, <1>5 DEF Behind, Joined, FeedInv, CursorsAged, Aged, Due
<1>9. Contracted(x)'
  BY <1>3, <1>7, <1>8 DEF Contracted
<1> QED
  BY <1>0, <1>3, <1>4, <1>6, <1>9, ContractedNext

LEMMA ContractLoad ==
    ASSUME ContractInv, NEW c \in Callers, SyncLoad(c)
    PROVE  \A u \in Callers : Contracted(sync[u])'
<1>0. FeedInv
  BY DEF ContractInv
<1>1. PICK s \in Sync : s = sync[c] /\ s.pc = "load"
  BY <1>0 DEF SyncLoad, FeedInv, TypeOK
<1> DEFINE newest(t) == Newest({r \in In(t, rows) : Due(r, s.asof)})
<1>2. PICK snap \in Cursor : snap = [t \in Tables |-> newest(t)]
  BY <1>0, NewestSubset DEF Cursor, In, FeedInv, TypeOK
<1>3. PICK cs \in [Firewalls -> Cursor \cup {NoCursor}] : cs = cursors
  BY <1>0 DEF FeedInv, TypeOK
<1> DEFINE x == [s EXCEPT !.pc = "plan", !.new = cs, !.snapshot = snap]
<1>4. /\ x \in Sync /\ x.pc = "plan" /\ x.new = cs /\ x.init = s.init
      /\ x.asof = s.asof /\ x.delta = s.delta
  BY DEF Sync
<1>5. Become(c, x)
  BY <1>1, <1>2, <1>3 DEF SyncLoad
<1> HIDE DEF x
<1>6. UNCHANGED <<tableVars, cursors, history>>
  BY DEF SyncLoad
<1>7. FeedFinite(s) /\ Behind(s) /\ s.init = {}
  BY <1>1 DEF ContractInv, Contracted
<1>8. FeedFinite(x)' /\ Behind(x)'
  BY <1>4, <1>6, <1>7 DEF FeedFinite, Behind, Joined
<1>9. Keeping(x)'
  BY <1>3, <1>4, <1>6, <1>7 DEF Keeping, Joined
<1>10. Contracted(x)'
  BY <1>4, <1>8, <1>9 DEF Contracted
<1> QED
  BY <1>0, <1>1, <1>4, <1>5, <1>10, OthersRest, ContractedNext

LEMMA ContractPlan ==
    ASSUME ContractInv, NEW c \in Callers, NEW f \in Firewalls, SyncPlan(c, f)
    PROVE  \A u \in Callers : Contracted(sync[u])'
<1>0. FeedInv /\ IsFiniteSet(rows)
  BY DEF ContractInv
<1>1. PICK s \in Sync : s = sync[c] /\ s.pc = "plan" /\ f \in s.todo
  BY <1>0 DEF SyncPlan, FeedInv, TypeOK
<1>2. PICK d \in SUBSET Row :
        d = (IF OnlyInit(s, f) THEN {} ELSE DeltaOf(s, f))
  BY <1>0 DEF DeltaOf, FeedInv, TypeOK
<1>3. PICK init \in SUBSET Firewalls :
        init = (IF OnlyInit(s, f) THEN s.init \cup {f} ELSE s.init)
  BY DEF Sync
<1>4. PICK pc \in {"plan", "push"} : pc = (IF s.todo = {f} THEN "push" ELSE "plan")
  OBVIOUS
<1>5. PICK delta \in [Firewalls -> SUBSET Row] : delta = [s.delta EXCEPT ![f] = d]
  BY DEF Sync
<1> DEFINE x == [s EXCEPT !.todo = s.todo \ {f}, !.work = s.work \cup {f},
                   !.pc = pc, !.init = init, !.delta = delta]
<1>6. /\ x \in Sync /\ x.pc = pc /\ x.todo = s.todo \ {f} /\ x.work = s.work \cup {f}
      /\ x.init = init /\ x.delta = delta /\ x.new = s.new /\ x.asof = s.asof
  BY DEF Sync
<1>7. Become(c, x)
  BY <1>1, <1>2, <1>3, <1>4, <1>5 DEF SyncPlan, Sync
<1> HIDE DEF x
<1>8. UNCHANGED <<tableVars, cursors, history>>
  BY DEF SyncPlan
<1>9. FeedFinite(s) /\ Behind(s) /\ Keeping(s)
  BY <1>1 DEF ContractInv, Contracted
<1>10. FeedFinite(x)'
  <2>1. IsFiniteSet(d)
    BY <1>0, <1>2, FS_EmptySet, FS_Subset DEF DeltaOf
  <2>2. \A g \in Firewalls : delta[g] = d \/ delta[g] = s.delta[g]
    BY <1>5 DEF Sync
  <2> QED
    BY <1>6, <1>9, <2>1, <2>2 DEF FeedFinite
<1>11. Behind(x)'
  BY <1>6, <1>8, <1>9 DEF Behind, Joined
<1>12. Keeping(x)'
  <2>1. x.init \cap x.todo = {}
    BY <1>3, <1>6, <1>9 DEF Keeping
  <2>2. \A g \in x.init \cap x.work : x.new[g] = NoCursor
    BY <1>1, <1>3, <1>6, <1>9 DEF Keeping, OnlyInit
  <2> QED
    BY <1>6, <1>8, <1>9, <2>1, <2>2 DEF Keeping, Joined, tableVars, history
<1>13. Contracted(x)'
  BY <1>6, <1>10, <1>11, <1>12 DEF Contracted
<1> QED
  BY <1>0, <1>1, <1>6, <1>7, <1>13, OthersRest, ContractedNext

\* Whom a sync initializes has no account.
LEMMA InitHasNone ==
    ASSUME ContractInv, NEW c \in Callers, NEW f \in Firewalls, PushInit(c, f)
    PROVE  f \notin Joined
<1>1. PICK s \in Sync :
        /\ s = sync[c] /\ s.pc = "push" /\ s.cur = None /\ f \in s.work
        /\ s.asof <= now /\ Loaded(s) /\ s.todo = {} /\ s.items = {}
  BY UpcomingFacts DEF PushInit, ContractInv
<1>2. Keeping(s) /\ f \in s.init
  BY <1>1 DEF ContractInv, Contracted, PushInit
<1> QED
  BY <1>1, <1>2 DEF Keeping, Loaded, Ahead, Joined

LEMMA ContractInit ==
    ASSUME ContractInv, NEW c \in Callers, NEW f \in Firewalls, PushInit(c, f)
    PROVE  \A u \in Callers : Contracted(sync[u])'
<1>0. FeedInv
  BY DEF ContractInv
<1>1. PICK s \in Sync :
        /\ s = sync[c] /\ s.pc = "push" /\ s.cur = None /\ f \in s.work
        /\ s.asof <= now /\ Loaded(s) /\ s.todo = {} /\ s.items = {}
  BY <1>0, UpcomingFacts DEF PushInit
<1> DEFINE x == [s EXCEPT !.work = @ \ {f}, !.changed = TRUE,
                   !.new[f] = s.snapshot]
<1>2. /\ x \in Sync /\ x.work = s.work \ {f} /\ x.pc = s.pc /\ x.todo = s.todo
      /\ x.new = [s.new EXCEPT ![f] = s.snapshot]
      /\ x.asof = s.asof /\ x.init = s.init /\ x.delta = s.delta
  BY DEF Sync
<1>3. Become(c, x)
  BY <1>1 DEF PushInit
<1> HIDE DEF x
<1>4. UNCHANGED <<tableVars, cursors, settled>>
  BY DEF PushInit
<1>5. FeedFinite(s) /\ Behind(s) /\ Keeping(s)
  BY <1>1 DEF ContractInv, Contracted
<1>6. FeedFinite(x)' /\ Behind(x)'
  BY <1>2, <1>4, <1>5 DEF FeedFinite, Behind, Joined
<1>7. \A g \in Firewalls \ {f} : x.new[g] = s.new[g]
  BY <1>2 DEF Sync
<1>8. Keeping(x)'
  <2>1. f \notin Joined /\ Joined \subseteq Firewalls
    BY InitHasNone DEF Joined
  <2>2. \A g \in Joined : x.new[g] = s.new[g]
    BY <1>7, <2>1
  <2>3. \A g \in x.init \cap x.work : x.new[g] = NoCursor
    BY <1>2, <1>5, <1>7 DEF Keeping, Sync
  <2> QED
    BY <1>2, <1>4, <1>5, <2>2, <2>3 DEF Keeping, Joined, tableVars
<1>9. Contracted(x)'
  BY <1>1, <1>2, <1>6, <1>8 DEF Contracted
<1> QED
  BY <1>0, <1>1, <1>2, <1>3, <1>9, OthersRest, ContractedNext

LEMMA ContractNothing ==
    ASSUME ContractInv, NEW c \in Callers, NEW f \in Firewalls, PushNothing(c, f)
    PROVE  \A u \in Callers : Contracted(sync[u])'
<1>1. PICK s \in Sync : s = sync[c] /\ s.pc = "push"
  BY DEF PushNothing, Upcoming, Serving, ContractInv, FeedInv, TypeOK
<1> DEFINE x == [s EXCEPT !.work = @ \ {f}]
<1>2. /\ x \in Sync /\ x.pc = "push" /\ x.asof = s.asof /\ x.delta = s.delta
      /\ x.new = s.new /\ x.init = s.init /\ x.todo = s.todo /\ x.work \subseteq s.work
  BY <1>1 DEF Sync
<1>3. Become(c, x) /\ MayServe /\ FeedInv /\ Contracted(s)
  BY <1>1, QuietServe DEF PushNothing, ContractInv
<1> HIDE DEF x
<1> QED
  BY <1>1, <1>2, <1>3, ContractedServed

LEMMA ContractBegin ==
    ASSUME ContractInv, NEW c \in Callers, NEW f \in Firewalls, PushBegin(c, f)
    PROVE  \A u \in Callers : Contracted(sync[u])'
<1>1. PICK s \in Sync : s = sync[c] /\ s.pc = "push"
  BY DEF PushBegin, Upcoming, Serving, ContractInv, FeedInv, TypeOK
<1> DEFINE wild == {r \in s.delta[f] : r.val \in Wildcards}
           x == [s EXCEPT !.work = @ \ {f}, !.cur = f,
                          !.queue = s.delta[f] \ wild]
<1>2. s.delta[f] \in SUBSET Row /\ wild \subseteq Row
  BY DEF Sync
<1>3. /\ x \in Sync /\ x.pc = "push" /\ x.asof = s.asof /\ x.delta = s.delta
      /\ x.new = s.new /\ x.init = s.init /\ x.todo = s.todo /\ x.work \subseteq s.work
  BY <1>1, <1>2 DEF Sync
<1>4. Become(c, x)
  BY <1>1 DEF PushBegin
<1>5. settled' = [settled EXCEPT ![f] = settled[f] \cup wild]
      /\ UNCHANGED <<tableVars, cursors, lock, faults, baseline>>
  BY <1>1 DEF PushBegin
<1> HIDE DEF x, wild
<1>6. FeedInv /\ Contracted(s)
  BY <1>1 DEF ContractInv
<1>7. MayServe
  BY <1>2, <1>5, <1>6 DEF MayServe, FeedInv, TypeOK
<1> QED
  BY <1>1, <1>3, <1>4, <1>6, <1>7, ContractedServed

LEMMA ContractPost ==
    ASSUME ContractInv, NEW c \in Callers, NEW f \in Firewalls,
           PostSettled(c, f) \/ PostRefused(c, f) \/ PostFailed(c, f)
    PROVE  \A u \in Callers : Contracted(sync[u])'
<1>0. FeedInv
  BY DEF ContractInv
<1>1. PICK s \in Sync : s = sync[c] /\ s.pc = "push"
  BY <1>0 DEF PostSettled, PostRefused, PostFailed, Serving, FeedInv, TypeOK
<1>2. Contracted(s) /\ s.queue \in SUBSET Row /\ s.items \in SUBSET Row
  BY <1>1 DEF ContractInv, Sync
<1>3. CASE PostSettled(c, f)
  <2>1. PICK rs \in Posts(s) :
          /\ Become(c, Remaining(s, rs))
          /\ settled' = [settled EXCEPT ![f] = settled[f] \cup rs]
    BY <1>1, <1>3 DEF PostSettled
  <2>2. rs \in SUBSET Row
    <3>1. CASE s.items = {}
      BY <1>2, <3>1 DEF Posts
    <3>2. CASE s.items # {}
      BY <1>2, <3>2 DEF Posts
    <3> QED
      BY <3>1, <3>2
  <2> DEFINE x == Remaining(s, rs)
  <2>3. /\ x \in Sync /\ x.pc = "push" /\ x.asof = s.asof /\ x.delta = s.delta
        /\ x.new = s.new /\ x.init = s.init /\ x.todo = s.todo /\ x.work \subseteq s.work
    BY <1>1 DEF Sync, Remaining
  <2>4. MayServe
    BY <1>0, <1>3, <2>1, <2>2 DEF PostSettled, MayServe, FeedInv, TypeOK
  <2> HIDE DEF x
  <2> QED
    BY <1>0, <1>1, <1>2, <2>1, <2>3, <2>4, ContractedServed DEF x
<1>4. CASE PostRefused(c, f)
  <2>1. PICK rs \in Posts(s) : Become(c, [s EXCEPT !.queue = @ \ rs, !.items = rs])
    BY <1>1, <1>4 DEF PostRefused
  <2>2. rs \in SUBSET Row
    BY <1>1, <1>2, <1>4 DEF PostRefused, Posts
  <2> DEFINE x == [s EXCEPT !.queue = @ \ rs, !.items = rs]
  <2>3. /\ x \in Sync /\ x.pc = "push" /\ x.asof = s.asof /\ x.delta = s.delta
        /\ x.new = s.new /\ x.init = s.init /\ x.todo = s.todo /\ x.work \subseteq s.work
    BY <1>1, <2>2 DEF Sync
  <2>4. MayServe
    BY <1>0, <1>4, QuietServe DEF PostRefused
  <2>5. Become(c, x)
    BY <2>1
  <2> HIDE DEF x
  <2> QED
    BY <1>0, <1>1, <1>2, <2>3, <2>4, <2>5, ContractedServed
<1>5. CASE PostFailed(c, f)
  <2> DEFINE x == EndPush(s)
  <2>1. /\ x \in Sync /\ x.pc = "push" /\ x.asof = s.asof /\ x.delta = s.delta
        /\ x.new = s.new /\ x.init = s.init /\ x.todo = s.todo /\ x.work \subseteq s.work
    BY <1>1 DEF Sync, EndPush
  <2>2. MayServe /\ Become(c, x)
    BY <1>0, <1>1, <1>5, QuietServe DEF PostFailed
  <2> HIDE DEF x
  <2> QED
    BY <1>0, <1>1, <1>2, <2>1, <2>2, ContractedServed
<1> QED
  BY <1>3, <1>4, <1>5

\* A push that is through moves the cursor past nothing but what it pushed,
\* and never back, though a full seed starts from no cursor at all.
LEMMA AdvancedKeeps ==
    ASSUME FeedInv, NEW s \in Sync, NEW f \in Joined, Loaded(s), PlanComplete(s, f),
           s.new[f] = cursors[f], IsFiniteSet(s.delta[f]), s.delta[f] \subseteq settled[f],
           Behind(s), NEW r \in rows
    PROVE  LET k == Advanced(s.new[f], s.delta[f])
           IN  /\ Covered(cursors[f], r) => Covered(k, r)
               /\ Covered(k, r) => Covered(cursors[f], r) \/ r \in settled[f]
<1> DEFINE d == s.delta[f]
           k == Advanced(s.new[f], d)
<1>1. /\ f \in Firewalls /\ cursors[f] # NoCursor /\ cursors[f] \in Cursor
      /\ d \in SUBSET Row /\ s.asof \in Nat
  BY DEF Joined, Sync, FeedInv, TypeOK
<1>2. /\ r \in Row /\ r.tab \in Tables /\ r.ts \in Nat /\ cursors[f][r.tab] \subseteq Row
      /\ \A q \in Row : q.ts \in Nat
  BY <1>1 DEF FeedInv, TypeOK, Row, Cursor
<1>3. From(s, f) = cursors[f] \/ From(s, f) = EmptyCursor
  BY DEF From
<1>4. ASSUME NEW q \in Row, ~Later(r, q), Due(q, s.asof)
      PROVE  r \in d \/ Covered(From(s, f), r)
  <2>1. q.ts \in Nat /\ q.ts + Lag <= s.asof /\ r.ts <= q.ts
    BY <1>2, <1>4 DEF Due, Later
  <2>2. Due(r, s.asof)
    BY <1>1, <1>2, <2>1, Parameters DEF Due
  <2> QED
    BY <2>2 DEF PlanComplete
<1>5. ASSUME Covered(cursors[f], r) PROVE Covered(k, r)
  <2>1. PICK q \in cursors[f][r.tab] : ~Later(r, q)
    BY <1>5 DEF Covered
  <2>2. q \in Row /\ Due(q, s.asof)
    BY <1>2, <2>1 DEF Behind
  <2>3. CASE In(r.tab, d) = {}
    <3>1. k[r.tab] = cursors[f][r.tab]
      BY <1>1, <1>2, <2>3 DEF Advanced
    <3> QED
      BY <2>1, <3>1 DEF Covered
  <2>4. CASE In(r.tab, d) # {}
    <3>1. In(r.tab, d) \subseteq Row /\ IsFiniteSet(In(r.tab, d))
      BY <1>1, FS_Subset DEF In
    <3>2. PICK m \in In(r.tab, d) : m \in Newest(In(r.tab, d))
      BY <2>4, <3>1, NewestThere
    <3>3. k[r.tab] = Newest(In(r.tab, d)) /\ m \in Row /\ m \in d /\ m.tab = r.tab
      BY <1>2, <2>4, <3>1, <3>2 DEF Advanced, In
    <3>4. r \in d \/ Covered(From(s, f), r)
      BY <1>4, <2>1, <2>2
    <3>5. CASE r \in d
      <4>1. r \in In(r.tab, d)
        BY <3>5 DEF In
      <4>2. ~Later(r, m)
        BY <3>2, <4>1 DEF Newest
      <4> QED
        BY <3>2, <3>3, <4>2 DEF Covered
    <3>6. CASE Covered(From(s, f), r)
      <4>1. From(s, f) = cursors[f]
        BY <1>2, <1>3, <3>6 DEF Covered, EmptyCursor
      <4>2. ~Covered(cursors[f], m)
        BY <3>3, <4>1 DEF PlanComplete
      <4>3. Later(m, q)
        BY <2>1, <3>3, <4>2 DEF Covered
      <4>4. ~Later(r, m)
        BY <1>2, <2>1, <2>2, <3>3, <4>3, LaterOrder
      <4> QED
        BY <3>2, <3>3, <4>4 DEF Covered
    <3> QED
      BY <3>4, <3>5, <3>6
  <2> QED
    BY <2>3, <2>4
<1>6. ASSUME Covered(k, r) PROVE Covered(cursors[f], r) \/ r \in settled[f]
  <2>1. PICK q \in k[r.tab] : ~Later(r, q)
    BY <1>6 DEF Covered
  <2>2. q \in d \/ q \in cursors[f][r.tab]
    BY <1>1, <1>2, <2>1, AdvancedRows
  <2>3. CASE q \in d
    <3>1. q \in Row /\ Due(q, s.asof)
      BY <1>1, <2>3 DEF PlanComplete
    <3>2. r \in d \/ Covered(From(s, f), r)
      BY <1>4, <2>1, <3>1
    <3>3. Covered(From(s, f), r) => From(s, f) = cursors[f]
      BY <1>2, <1>3 DEF Covered, EmptyCursor
    <3> QED
      BY <3>2, <3>3
  <2>4. CASE q \in cursors[f][r.tab]
    BY <2>1, <2>4 DEF Covered
  <2> QED
    BY <2>2, <2>3, <2>4
<1> QED
  BY <1>5, <1>6

LEMMA ContractDone ==
    ASSUME ContractInv, NEW c \in Callers, NEW f \in Firewalls, PushDone(c, f)
    PROVE  \A u \in Callers : Contracted(sync[u])'
<1>0. FeedInv
  BY DEF ContractInv
<1>1. PICK s \in Sync :
        /\ s = sync[c] /\ s.pc = "push" /\ s.cur = f /\ s.todo = {}
        /\ s.asof <= now /\ Loaded(s) /\ Pushing(s)
  BY <1>0, ServingFacts DEF PushDone
<1>2. s.queue = {} /\ s.items = {}
  BY <1>1 DEF PushDone
<1>3. s.delta[f] \in SUBSET Row /\ s.new[f] \in Cursor \cup {NoCursor}
  BY DEF Sync
<1>4. PICK k \in Cursor : k = Advanced(s.new[f], s.delta[f])
  BY <1>3, AdvancedRows
<1> DEFINE x == [EndPush(s) EXCEPT !.changed = TRUE, !.new[f] = k]
<1>5. /\ x \in Sync /\ x.pc = s.pc /\ x.todo = s.todo /\ x.asof = s.asof
      /\ x.init = s.init /\ x.work = s.work /\ x.delta = s.delta
      /\ x.new = [s.new EXCEPT ![f] = k]
  BY DEF Sync, EndPush
<1>6. Become(c, x)
  BY <1>1, <1>4 DEF PushDone, EndPush
<1> HIDE DEF x
<1>7. UNCHANGED <<tableVars, cursors, history>>
  BY DEF PushDone
<1>8. FeedFinite(s) /\ Behind(s) /\ Keeping(s)
  BY <1>1 DEF ContractInv, Contracted
<1>9. FeedFinite(x)' /\ Behind(x)'
  BY <1>5, <1>7, <1>8 DEF FeedFinite, Behind, Joined
<1>10. x.new[f] = k /\ \A g \in Firewalls \ {f} : x.new[g] = s.new[g]
  BY <1>5 DEF Sync
<1>11. ASSUME NEW g \in Joined, NEW r \in rows
       PROVE  /\ Covered(cursors[g], r) => Covered(x.new[g], r)
              /\ Covered(x.new[g], r) => Covered(cursors[g], r) \/ r \in settled[g]
  <2>1. CASE g = f
    <3>1. PlanComplete(s, f) /\ s.delta[f] \subseteq settled[f]
      BY <1>1, <1>2 DEF Pushing
    <3>2. s.new[f] = cursors[f] /\ IsFiniteSet(s.delta[f]) /\ f \in Joined
      BY <1>1, <1>8, <2>1 DEF Loaded, Ahead, FeedFinite
    <3> QED
      BY <1>0, <1>1, <1>4, <1>8, <1>10, <2>1, <3>1, <3>2, AdvancedKeeps
  <2>2. CASE g # f
    BY <1>8, <1>10, <2>2 DEF Keeping, Joined
  <2> QED
    BY <2>1, <2>2
<1>12. \A g \in x.init \cap x.work : x.new[g] = NoCursor
  <2>1. f \notin s.work /\ s.work \subseteq Firewalls
    BY <1>1 DEF Pushing, Sync
  <2> QED
    BY <1>5, <1>8, <1>10, <2>1 DEF Keeping
<1>13. Keeping(x)'
  BY <1>5, <1>7, <1>8, <1>11, <1>12 DEF Keeping, Joined, tableVars, history
<1>14. Contracted(x)'
  BY <1>1, <1>5, <1>9, <1>13 DEF Contracted
<1> QED
  BY <1>0, <1>1, <1>5, <1>6, <1>14, OthersRest, ContractedNext

LEMMA ContractEnd ==
    ASSUME ContractInv, NEW c \in Callers,
           SyncSave(c) \/ SyncSaveFailed(c) \/ SyncGiveUp(c)
    PROVE  \A u \in Callers : Contracted(sync[u])'
<1>1. FeedInv /\ sync[c].pc # "idle" /\ Release(c)
  BY DEF ContractInv, SyncSave, SyncSaveFailed, SyncGiveUp, Served, Serving
<1>2. PICK s \in Sync : s = NoSync /\ s.pc = "idle"
  BY NoSyncType
<1>3. Become(c, s) /\ Contracted(s)'
  BY <1>1, <1>2 DEF Release, Contracted
<1> QED
  BY <1>1, <1>3, OthersRest, ContractedNext

LEMMA InitContract == Init => ContractInv
<1> SUFFICES ASSUME Init PROVE ContractInv
  OBVIOUS
<1>1. FeedInv /\ IsFiniteSet(rows)
  BY InitFeedInv, FS_EmptySet DEF Init
<1> QED
  BY <1>1, NoSyncType DEF Init, ContractInv, Contracted

LEMMA StepContract == ContractInv /\ [Next]_vars => ContractInv'
<1> SUFFICES ASSUME ContractInv, [Next]_vars PROVE ContractInv'
  OBVIOUS
<1>1. FeedInv' /\ IsFiniteSet(rows')
  BY StepFeedInv, RowsFinite DEF ContractInv
<1>2. ASSUME Tick \/ TableStep \/ UNCHANGED vars PROVE \A u \in Callers : Contracted(sync[u])'
  BY <1>2, ContractTables
<1>3. ASSUME Crash PROVE \A u \in Callers : Contracted(sync[u])'
  BY <1>3, NoSyncType DEF Crash, Contracted
<1>4. ASSUME NEW c \in Callers, SyncStart(c) PROVE \A u \in Callers : Contracted(sync[u])'
  BY <1>4, ContractStart
<1>5. ASSUME NEW c \in Callers, SyncStep(c) PROVE \A u \in Callers : Contracted(sync[u])'
  <2>1. CASE SyncLoad(c)
    BY <2>1, ContractLoad
  <2>2. ASSUME NEW f \in Firewalls,
               SyncPlan(c, f) \/ PushInit(c, f) \/ PushNothing(c, f) \/ PushBegin(c, f)
        PROVE  \A u \in Callers : Contracted(sync[u])'
    BY <2>2, ContractPlan, ContractInit, ContractNothing, ContractBegin
  <2>3. ASSUME NEW f \in Firewalls,
               PostSettled(c, f) \/ PostRefused(c, f) \/ PostFailed(c, f) \/ PushDone(c, f)
        PROVE  \A u \in Callers : Contracted(sync[u])'
    BY <2>3, ContractPost, ContractDone
  <2>4. CASE SyncSave(c) \/ SyncSaveFailed(c) \/ SyncGiveUp(c)
    BY <2>4, ContractEnd
  <2> QED
    BY <1>5, <2>1, <2>2, <2>3, <2>4 DEF SyncStep
<1>6. \A u \in Callers : Contracted(sync[u])'
  BY <1>2, <1>3, <1>4, <1>5 DEF Next
<1> QED
  BY <1>1, <1>6 DEF ContractInv

----------------------------------------------------------------------------
(* The contract: the steps of the feed                                     *)

\* Neither the blocklists nor what is durable or settled changes.
LEMMA ContractStutters ==
    ASSUME UNCHANGED <<rows, cursors, history>>
    PROVE  UNCHANGED Contract!vars
<1>1. Joined' = Joined
  BY DEF Joined
<1>2. Account' = Account
  BY <1>1 DEF Account, Passed
<1> QED
  BY <1>1, <1>2 DEF Contract!vars, history

LEMMA CommitLists ==
    ASSUME FeedInv, NEW r \in writing, Commit(r)
    PROVE  Contract!List \/ UNCHANGED Contract!vars
<1>1. rows' = rows \cup {r} /\ UNCHANGED <<cursors, settled, baseline>> /\ Joined' = Joined
  BY DEF Commit, history, Joined
<1>2. CASE r \in rows
  BY <1>1, <1>2, ContractStutters DEF history
<1>3. CASE r \notin rows
  <2>1. r \in Row /\ r.ts \in Nat /\ now \in Nat
    BY DEF FeedInv, TypeOK, Row
  <2>2. now < r.ts + Lag
    BY <2>1, Parameters DEF FeedInv, Clock
  <2>3. ASSUME NEW f \in Joined PROVE ~Passed(f, r)
    <3>1. cursors[f] \in Cursor /\ Aged(cursors[f])
      BY DEF Joined, FeedInv, TypeOK, CursorsAged
    <3> QED
      BY <2>1, <2>2, <3>1, YoungNotCovered DEF Passed
  <2>4. Account' = [f \in Firewalls |-> Account[f] \cup (IF f \in Joined THEN {r} ELSE {})]
    <3>1. \A f \in Firewalls :
            {q \in rows' : f \in Joined' /\ ~Passed(f, q)'}
              = {q \in rows : f \in Joined /\ ~Passed(f, q)}
                  \cup (IF f \in Joined THEN {r} ELSE {})
      BY <1>1, <2>3 DEF Passed
    <3> QED
      BY <3>1 DEF Account
  <2>5. r \in rows' \ rows
    BY <1>1, <1>3
  <2> QED
    BY <1>1, <2>4, <2>5 DEF Contract!List
<1> QED
  BY <1>2, <1>3

LEMMA UnblockUnlists ==
    ASSUME NEW r \in rows, Unblock(r)
    PROVE  Contract!Unlist
<1>1. rows' = rows \ {r} /\ UNCHANGED <<cursors, settled, baseline>> /\ Joined' = Joined
  BY DEF Unblock, history, Joined
<1>2. Account' = [f \in Firewalls |-> Account[f] \ {r}]
  BY <1>1 DEF Account, Passed
<1> QED
  BY <1>1, <1>2 DEF Contract!Unlist

LEMMA ServeSettles ==
    ASSUME FeedInv, NEW f \in Firewalls, NEW rs,
           settled' = [settled EXCEPT ![f] = settled[f] \cup rs],
           UNCHANGED <<rows, cursors, baseline>>
    PROVE  Contract!Settle
<1>1. Joined' = Joined /\ Account' = Account
  BY DEF Joined, Account, Passed
<1>2. settled'[f] = settled[f] \cup rs
  BY DEF FeedInv, TypeOK
<1>3. settled' = [settled EXCEPT ![f] = settled'[f]] /\ settled[f] \subseteq settled'[f]
  BY <1>2
<1> QED
  BY <1>1, <1>3 DEF Contract!Settle

LEMMA InitExcuses ==
    ASSUME ContractInv, NEW c \in Callers, NEW f \in Firewalls, PushInit(c, f)
    PROVE  Contract!Excuse
<1>1. PICK rs \in SUBSET rows : baseline' = [baseline EXCEPT ![f] = baseline[f] \cup rs]
  BY DEF PushInit
<1>2. UNCHANGED <<rows, cursors, settled>> /\ Joined' = Joined /\ Account' = Account
  BY DEF PushInit, tableVars, Joined, Account, Passed
<1>3. baseline'[f] = baseline[f] \cup rs
  BY <1>1 DEF ContractInv, FeedInv, TypeOK
<1>4. /\ baseline' = [baseline EXCEPT ![f] = baseline'[f]]
      /\ baseline[f] \subseteq baseline'[f] /\ baseline'[f] \subseteq baseline[f] \cup rows
  BY <1>1, <1>3
<1>5. f \in Firewalls \ Joined
  BY InitHasNone
<1> QED
  BY <1>2, <1>4, <1>5 DEF Contract!Excuse

\* A save clears the accounts: those it finds by what the sync has kept, and
\* those it opens by what the firewall settled or was excused from.
LEMMA SaveClears ==
    ASSUME ContractInv, NEW c \in Callers, SyncSave(c)
    PROVE  Contract!Clear \/ UNCHANGED Contract!vars
<1>1. UNCHANGED <<rows, settled, baseline>>
  BY DEF SyncSave, tableVars, history
<1>2. CASE ~sync[c].changed
  <2>1. UNCHANGED <<rows, cursors, history>>
    BY <1>1, <1>2 DEF SyncSave, history
  <2> QED
    BY <2>1, ContractStutters
<1>3. CASE sync[c].changed
  <2>1. PICK s \in Sync : s = sync[c] /\ s.pc = "push"
    BY DEF SyncSave, Served, Serving, ContractInv, FeedInv, TypeOK
  <2>2. Loaded(s) /\ Keeping(s) /\ cursors' = s.new
    BY <1>3, <2>1 DEF SyncSave, ContractInv, Contracted, FeedInv, Good
  <2>3. Joined \subseteq Joined' /\ Joined' \subseteq Firewalls
    BY <2>2 DEF Joined, Loaded
  <2>4. Account' \in [Firewalls -> SUBSET rows]
    BY <1>1 DEF Account
  <2>5. ASSUME NEW f \in Joined
        PROVE  Account'[f] \subseteq Account[f] /\ Account[f] \subseteq Account'[f] \cup settled[f]
    <3>1. f \in Firewalls /\ f \in Joined'
      BY <2>3 DEF Joined
    <3>2. cursors[f] # NoCursor /\ cursors'[f] # NoCursor
      BY <3>1 DEF Joined
    <3>3. Account[f] = {r \in rows : ~Covered(cursors[f], r)}
      BY <3>1, <3>2 DEF Account, Passed
    <3>4. Account'[f] = {r \in rows : ~Covered(s.new[f], r)}
      BY <1>1, <2>2, <3>1, <3>2 DEF Account, Passed
    <3> QED
      BY <2>2, <3>3, <3>4 DEF Keeping
  <2>6. ASSUME NEW f \in Joined' \ Joined
        PROVE  rows \subseteq Account'[f] \cup settled[f] \cup baseline[f]
    <3>1. f \in Firewalls /\ cursors'[f] # NoCursor
      BY <2>3 DEF Joined
    <3>2. Account'[f] = {r \in rows : ~Covered(s.new[f], r)}
      BY <1>1, <2>2, <3>1 DEF Account, Passed
    <3>3. Honest(f, s.new[f])
      BY <2>2, <3>1 DEF Loaded
    <3> QED
      BY <3>2, <3>3 DEF Honest
  <2>7. \A f \in Firewalls \ Joined' : Account'[f] = {}
    BY DEF Account
  <2> QED
    BY <1>1, <2>3, <2>4, <2>5, <2>6, <2>7 DEF Contract!Clear
<1> QED
  BY <1>2, <1>3

LEMMA ContractStep ==
    ASSUME ContractInv, [Next]_vars
    PROVE  [Contract!Next]_(Contract!vars)
<1>0. FeedInv
  BY DEF ContractInv
<1>1. CASE Tick \/ Crash \/ UNCHANGED vars
  <2>1. UNCHANGED <<rows, cursors, history>>
    BY <1>1 DEF Tick, Crash, vars, history
  <2> QED
    BY <2>1, ContractStutters
<1>2. CASE TableStep
  <2>1. ASSUME NEW t \in Tables, NEW v \in Vals, Stamp(t, v)
        PROVE  UNCHANGED Contract!vars
    <3>1. UNCHANGED <<rows, cursors, history>>
      BY <2>1 DEF Stamp
    <3> QED
      BY <3>1, ContractStutters
  <2>2. ASSUME NEW r \in writing, Rollback(r) PROVE UNCHANGED Contract!vars
    <3>1. UNCHANGED <<rows, cursors, history>>
      BY <2>2 DEF Rollback
    <3> QED
      BY <3>1, ContractStutters
  <2> QED
    BY <1>0, <1>2, <2>1, <2>2, CommitLists, UnblockUnlists DEF TableStep, Contract!Next
<1>3. ASSUME NEW c \in Callers, SyncStart(c) PROVE UNCHANGED Contract!vars
  <2>1. UNCHANGED <<rows, cursors, history>>
    BY <1>3 DEF SyncStart, tableVars
  <2> QED
    BY <2>1, ContractStutters
<1>4. ASSUME NEW c \in Callers, SyncStep(c) PROVE Contract!Next \/ UNCHANGED Contract!vars
  <2>1. ASSUME SyncLoad(c) \/ SyncSaveFailed(c) \/ SyncGiveUp(c)
        PROVE  UNCHANGED Contract!vars
    <3>1. UNCHANGED <<rows, cursors, history>>
      BY <2>1 DEF SyncLoad, SyncSaveFailed, SyncGiveUp, tableVars
    <3> QED
      BY <3>1, ContractStutters
  <2>2. ASSUME NEW f \in Firewalls,
               SyncPlan(c, f) \/ PushNothing(c, f) \/ PostRefused(c, f)
               \/ PostFailed(c, f) \/ PushDone(c, f)
        PROVE  UNCHANGED Contract!vars
    <3>1. UNCHANGED <<rows, cursors, history>>
      BY <2>2 DEF SyncPlan, PushNothing, PostRefused, PostFailed, PushDone, tableVars
    <3> QED
      BY <3>1, ContractStutters
  <2>3. ASSUME NEW f \in Firewalls, PushBegin(c, f) \/ PostSettled(c, f)
        PROVE  Contract!Settle
    <3>1. UNCHANGED <<rows, cursors, baseline>>
      BY <2>3 DEF PushBegin, PostSettled, tableVars
    <3>2. \E rs : settled' = [settled EXCEPT ![f] = settled[f] \cup rs]
      BY <2>3 DEF PushBegin, PostSettled
    <3> QED
      BY <1>0, <3>1, <3>2, ServeSettles
  <2>4. ASSUME NEW f \in Firewalls, PushInit(c, f) PROVE Contract!Excuse
    BY <2>4, InitExcuses
  <2>5. SyncSave(c) => Contract!Clear \/ UNCHANGED Contract!vars
    BY SaveClears
  <2> QED
    BY <1>4, <2>1, <2>2, <2>3, <2>4, <2>5 DEF SyncStep, Contract!Next
<1> QED
  BY <1>1, <1>2, <1>3, <1>4 DEF Next

(* The feed (firewall_feed.py) implements its contract, for any firewalls, *)
(* tables, values, callers, chunks and faults: what is blocked once a      *)
(* firewall has a durable cursor stays on its account until the firewall   *)
(* has settled it or the block is lifted, and no save of a cursor puts     *)
(* back what has left the account.                                         *)
THEOREM FeedKeepsContract == Spec => KeepsContract
<1>1. Init => ContractInv
  BY InitContract
<1>2. ContractInv /\ [Next]_vars => ContractInv'
  BY StepContract
<1>3. Init => Contract!Init
  BY DEF Init, Contract!Init, Contract!Nothing, Joined, Account
<1>4. ContractInv /\ [Next]_vars => [Contract!Next]_(Contract!vars)
  BY ContractStep
<1> QED
  BY <1>1, <1>2, <1>3, <1>4, PTL DEF Spec, KeepsContract, Contract!Spec
=============================================================================
