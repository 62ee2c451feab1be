----------------------------- MODULE LoginCache -----------------------------
(***************************************************************************)
(* The rolling cache of failed logins in Redis.  A top-up reads the cursor *)
(* and then the rows from there on, oldest first and at most a limit; it   *)
(* adds them, moves the cursor to the newest of them and trims what is     *)
(* older than the window.  Two scheduled jobs and a manual run top up, and *)
(* no lock keeps them apart: every await is a step here, so that top-ups   *)
(* overlap and set the cursor over each other, also backwards.  Redis may  *)
(* be away at any call, and lose all.                                      *)
(***************************************************************************)
EXTENDS FirewallLogs

CONSTANTS
    LoginJobs,    \* jobs that top up; each runs once at a time
    TopUpMax,     \* rows per top-up (2000)
    CacheWindow,  \* how long an attempt is kept (24 hours)
    Cold          \* the cursor when there is none

ASSUME LoginCacheAssumption ==
    /\ TopUpMax \in Nat \ {0} /\ CacheWindow \in Nat
    /\ Cold \notin Nat

VARIABLES
    cached,      \* the sorted set: rows, scored by their time
    loginCursor, \* the time of the newest attempt cached, or Cold
    topUp,       \* [LoginJobs -> the locals of a top-up]
    reads        \* history: how far each read got, and the id that was next
                 \* then, since the cache was last empty

loginVars == <<cached, loginCursor, topUp, reads>>

NoTopUp == [pc |-> "idle", now |-> 0, since |-> Cold, rows |-> {}]

LoginInit ==
    /\ cached = {} /\ loginCursor = Cold
    /\ topUp = [j \in LoginJobs |-> NoTopUp]
    /\ reads = {}

Logins == {r \in logs : r.msg.login}

\* Mutant: what has the cursor's own time is taken for seen.
SinceAfter(c, now) ==
    {r \in Logins : IF c = Cold THEN now <= r.msg.at + CacheWindow ELSE r.msg.at > c}

\* What a top-up is to read: all from the cursor on, or from one window ago.
Since(c, now) ==
    {r \in Logins : IF c = Cold THEN now <= r.msg.at + CacheWindow ELSE r.msg.at >= c}

\* Mutant: the newest rows first.
LastRows(rs, n) ==
    {xs \in SUBSET rs : /\ Cardinality(xs) = Min({n, Cardinality(rs)})
                        /\ \A x \in xs, y \in rs \ xs : x.msg.at >= y.msg.at}

\* ORDER BY created_at ASC LIMIT n: any order among equal times.
FirstRows(rs, n) ==
    {xs \in SUBSET rs : /\ Cardinality(xs) = Min({n, Cardinality(rs)})
                        /\ \A x \in xs, y \in rs \ xs : x.msg.at <= y.msg.at}

Newest(rs) == Max({r.msg.at : r \in rs})

Stage(j, pc) == topUp[j].pc = pc
Proceed(j, s) == topUp' = [topUp EXCEPT ![j] = s]

Begun(c) == [NoTopUp EXCEPT !.pc = "select", !.now = today, !.since = c]

\* The sweep takes the time, and the top-up the cursor.
TopUpStart(j) ==
    /\ Stage(j, "idle")
    /\ Proceed(j, Begun(loginCursor))
    /\ UNCHANGED <<tableVars, today, faults, cached, loginCursor, reads>>

\* The cursor cannot be read: the top-up starts one window ago.
TopUpBlind(j) ==
    /\ Fault
    /\ Stage(j, "idle")
    /\ Proceed(j, Begun(Cold))
    /\ UNCHANGED <<tableVars, today, cached, loginCursor, reads>>

\* The rows from the cursor it took, which may have moved since.
TopUpRead(j) ==
    /\ Stage(j, "select")
    /\ \E rs \in FirstRows(Since(topUp[j].since, topUp[j].now), TopUpMax) :
         /\ Proceed(j, [topUp[j] EXCEPT !.pc = IF rs = {} THEN "trim" ELSE "add",
                                        !.since = Cold, !.rows = rs])
         /\ reads' = IF rs = {} \/ \E f \in reads : Newest(rs) <= f.upto THEN reads
                     ELSE reads \cup {[upto |-> Newest(rs), next |-> nextId]}
    /\ UNCHANGED <<tableVars, today, faults, cached, loginCursor>>

\* ZADD: adding a member again changes nothing.
TopUpAdd(j) ==
    /\ Stage(j, "add")
    /\ cached' = cached \cup topUp[j].rows
    /\ Proceed(j, [topUp[j] EXCEPT !.pc = "cursor"])
    /\ UNCHANGED <<tableVars, today, faults, loginCursor, reads>>

\* The cursor moves to the newest row read, wherever it stands by now.
TopUpCursor(j) ==
    /\ Stage(j, "cursor")
    /\ loginCursor' = Newest(topUp[j].rows)
    /\ Proceed(j, [topUp[j] EXCEPT !.pc = "trim", !.rows = {}])
    /\ UNCHANGED <<tableVars, today, faults, cached, reads>>

TopUpTrim(j) ==
    /\ Stage(j, "trim")
    /\ cached' = {r \in cached : topUp[j].now <= r.msg.at + CacheWindow}
    /\ Proceed(j, NoTopUp)
    /\ UNCHANGED <<tableVars, today, faults, loginCursor, reads>>

\* Redis or the database does not answer: the rest of the top-up is left.
TopUpFailed(j) ==
    /\ Fault
    /\ ~Stage(j, "idle")
    /\ Proceed(j, NoTopUp)
    /\ UNCHANGED <<tableVars, today, cached, loginCursor, reads>>

\* How far a top-up has read, or takes for read, on the strength of the cache.
Reach(s) == IF s.pc = "select" /\ s.since # Cold THEN s.since
            ELSE IF s.pc \in {"add", "cursor"} THEN Newest(s.rows)
            ELSE 0

\* Redis comes back empty; the top-ups in progress go on nonetheless, and
\* what they have passed by is not read again.
RedisFlush ==
    /\ Fault
    /\ cached # {} \/ loginCursor # Cold
    /\ cached' = {} /\ loginCursor' = Cold
    /\ reads' = {[upto |-> Reach(topUp[j]), next |-> 0] : j \in LoginJobs}
    /\ UNCHANGED <<tableVars, today, topUp>>

TopUpStep(j) ==
    TopUpStart(j) \/ TopUpRead(j) \/ TopUpAdd(j) \/ TopUpCursor(j) \/ TopUpTrim(j)

LoginStep ==
    \/ \E j \in LoginJobs : TopUpStep(j) \/ TopUpBlind(j) \/ TopUpFailed(j)
    \/ RedisFlush

----------------------------------------------------------------------------
InWindow(r) == today <= r.msg.at + CacheWindow

\* A row that came after a row of a later time had been read: the times are
\* those of the firewalls' clocks.
Late(r) == \E f \in reads : r.msg.at < f.upto /\ f.next <= r.id

(* The cursor skips nothing: a failed login of the window that the cursor  *)
(* has moved past is in the cache the sweeps work on, however top-ups      *)
(* overlap, set the cursor back, are cut off by the limit, fail half way   *)
(* or start over.  Two kinds of rows are lost to the sweeps and are not    *)
(* covered: those stored after some top-up had read a row of a later time, *)
(* which overlapping top-ups may pass by although one of them could see    *)
(* them, and, if Redis lost everything while a top-up was under way, those *)
(* before the point it had reached.                                        *)
CursorSkipsNothing ==
    \A r \in Logins :
      loginCursor # Cold /\ r.msg.at < loginCursor /\ InWindow(r)
        => r \in cached \/ Late(r)

(* The cursor stands at a time that as many rows share as a top-up reads,  *)
(* and cannot get past them to the rest.                                   *)
Crowded ==
    /\ Cardinality({r \in Logins : r.msg.at = loginCursor}) >= TopUpMax
    /\ Cardinality(Since(loginCursor, today)) > TopUpMax

(* Unless it is crowded the cache catches up: once no more rows come in,   *)
(* every failed login of the window that is not older than the cursor has  *)
(* been added, those with the cursor's own time included, although a slow  *)
(* top-up may set the cursor back behind a fast one.                       *)
LoginsReachCache ==
    []<>(Crowded \/ \A r \in Logins :
           InWindow(r) /\ (loginCursor # Cold => r.msg.at >= loginCursor)
             => r \in cached)
=============================================================================
