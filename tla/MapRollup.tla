------------------------------ MODULE MapRollup ------------------------------
(***************************************************************************)
(* The daily rollup behind the attack map and the retention of the logs it *)
(* is built from.  A refresh folds the rows after the watermark, at most   *)
(* one chunk of ids, in one transaction under an advisory lock; the job    *)
(* and a manual backfill may run it at the same time.  Statements read     *)
(* what is committed when they start (READ COMMITTED).                     *)
(***************************************************************************)
EXTENDS FirewallLogs

CONSTANTS
    Refreshers,   \* callers of refresh_map_rollup
    Jobs,         \* those that are the scheduled job
    Nobody,       \* the lock when it is free
    IdChunk,      \* ids a refresh may advance by (1000000)
    Rounds,       \* refreshes per run of the job (6)
    ConnDays,     \* days connection logs are kept (14)
    KeepDays,     \* days the other rows are kept (90)
    PurgeBatch,   \* rows per DELETE (25000)
    MaxDay        \* bound of the clock

ASSUME RollupAssumption ==
    /\ Nobody \notin Refreshers /\ Jobs \subseteq Refreshers
    /\ {IdChunk, Rounds, ConnDays, KeepDays, PurgeBatch} \subseteq Nat \ {0}
    /\ MaxDay \in Nat

VARIABLES
    watermark,  \* rollup_state.last_id
    daily,      \* fw_map_daily: cnt per day, threat and location
    advisory,   \* who holds the transaction-scoped advisory lock
    refresh,    \* [Refreshers -> locals of refresh_map_rollup(_job)]
    purge,      \* the locals of purge_firewall_logs
    counted,    \* history: the rows whose folding committed
    expired     \* history: those whose days were purged from the rollup

rollupVars == <<watermark, daily, advisory, refresh, purge, counted, expired>>
foldHistory == <<counted, expired>>

\* (day, threat_ip, lat, lon): the location is that of the attacker.
Keys == Nat \X Addresses \X Public

KeyOf(r) == <<r.msg.at, ThreatOf(r.msg), AttackerOf(r.msg)>>

\* Rows the rollup counts: located, and with a threat to name.
Mappable(r) == r.located /\ ThreatOf(r.msg) # NoIp

RollupKeys == {<<m.at, ThreatOf(m), AttackerOf(m)>> : m \in Messages}

NoRefresh == [pc |-> "idle", lo |-> 0, top |-> 0, rows |-> {}, left |-> 0]
NoPurge   == [pc |-> "idle", day |-> 0]

RollupInit ==
    /\ watermark = 0
    /\ daily = [k \in RollupKeys |-> 0]
    /\ advisory = Nobody
    /\ refresh = [r \in Refreshers |-> NoRefresh]
    /\ purge = NoPurge
    /\ counted = {} /\ expired = {}

Going(r, pc) == refresh[r].pc = pc
Continue(r, s) == refresh' = [refresh EXCEPT ![r] = s]
End(r) == Continue(r, NoRefresh)

----------------------------------------------------------------------------
(* refresh_map_rollup_job and refresh_map_rollup                           *)

\* The job runs several refreshes, a backfill by hand one; each begins by
\* asking for the lock.
Ready(r) == refresh[r].pc \in {"idle", "again"}
RoundsLeft(r) == IF Going(r, "again") THEN refresh[r].left
                 ELSE IF r \in Jobs THEN Rounds ELSE 1

Locked(r) == [NoRefresh EXCEPT !.pc = "range", !.lo = watermark,
                               !.left = RoundsLeft(r)]

\* Mutant: the lock is not asked for.
RefreshUnlocked(r) ==
    /\ Ready(r)
    /\ advisory' = r
    /\ Continue(r, Locked(r))
    /\ UNCHANGED <<tableVars, today, faults, watermark, daily, purge, foldHistory>>

\* pg_try_advisory_xact_lock; with the lock nobody else moves the watermark.
RefreshLock(r) ==
    /\ Ready(r) /\ advisory = Nobody
    /\ advisory' = r
    /\ Continue(r, Locked(r))
    /\ UNCHANGED <<tableVars, today, faults, watermark, daily, purge, foldHistory>>

\* The lock is taken: "caught up", and the job stops.
RefreshSkip(r) ==
    /\ Going(r, "again") /\ advisory # Nobody
    /\ End(r)
    /\ UNCHANGED <<tableVars, today, faults, watermark, daily, advisory, purge,
                   foldHistory>>

InRange(lo, hi) == {q \in logs : lo < q.id /\ q.id <= hi}

\* SELECT max(id) ... : the end of this chunk.
RefreshRange(r) ==
    LET found == Ids(InRange(refresh[r].lo, refresh[r].lo + IdChunk))
    IN  /\ Going(r, "range") /\ found # {}
        /\ Continue(r, [refresh[r] EXCEPT !.pc = "fold", !.top = Max(found)])
        /\ UNCHANGED <<tableVars, today, faults, watermark, daily, advisory, purge,
                       foldHistory>>

\* No row within one chunk: "caught up", and the watermark stays.
RefreshEmpty(r) ==
    /\ Going(r, "range")
    /\ InRange(refresh[r].lo, refresh[r].lo + IdChunk) = {}
    /\ advisory' = Nobody
    /\ End(r)
    /\ UNCHANGED <<tableVars, today, faults, watermark, daily, purge, foldHistory>>

\* The INSERT ... SELECT sees the rows that are there now.
RefreshFold(r) ==
    LET s == refresh[r]
    IN  /\ Going(r, "fold")
        /\ Continue(r, [s EXCEPT !.pc = "commit",
             !.rows = {q \in InRange(s.lo, s.top) : Mappable(q)}])
        /\ UNCHANGED <<tableVars, today, faults, watermark, daily, advisory, purge,
                       foldHistory>>

\* Mutant: the watermark moves to the end of the chunk, rows or not.
RefreshCommitAhead(r) ==
    LET s == refresh[r]
    IN  /\ Going(r, "commit")
        /\ daily' = [k \in RollupKeys |->
                       daily[k] + Cardinality({q \in s.rows : KeyOf(q) = k})]
        /\ watermark' = s.lo + IdChunk
        /\ counted' = counted \cup s.rows
        /\ advisory' = Nobody
        /\ Continue(r, [s EXCEPT !.pc = "check"])
        /\ UNCHANGED <<tableVars, today, faults, purge, expired>>

\* Counts are additive; the watermark and the lock go with the commit.
RefreshCommit(r) ==
    LET s == refresh[r]
    IN  /\ Going(r, "commit")
        /\ daily' = [k \in RollupKeys |->
                       daily[k] + Cardinality({q \in s.rows : KeyOf(q) = k})]
        /\ watermark' = s.top
        /\ counted' = counted \cup s.rows
        /\ advisory' = Nobody
        /\ Continue(r, [s EXCEPT !.pc = "check"])
        /\ UNCHANGED <<tableVars, today, faults, purge, expired>>

\* Mutant: the lock is left behind (a session lock on a pooled connection).
RefreshCheckKeepsLock(r) ==
    /\ Going(r, "check")
    /\ advisory' = r
    /\ End(r)
    /\ UNCHANGED <<tableVars, today, faults, watermark, daily, purge,
                   foldHistory>>

\* The job goes on while it is behind, folded something and has rounds left.
RefreshCheck(r) ==
    LET s == refresh[r]
        behind == \E q \in logs : q.id > s.top
    IN  /\ Going(r, "check")
        /\ Continue(r, IF behind /\ s.rows # {} /\ s.left > 1
                       THEN [NoRefresh EXCEPT !.pc = "again", !.left = s.left - 1]
                       ELSE NoRefresh)
        /\ UNCHANGED <<tableVars, today, faults, watermark, daily, advisory, purge,
                       foldHistory>>

\* A statement fails or the process dies: the transaction rolls back.
RefreshFailed(r) ==
    /\ Fault
    /\ ~Going(r, "idle")
    /\ advisory' = IF advisory = r THEN Nobody ELSE advisory
    /\ End(r)
    /\ UNCHANGED <<tableVars, today, watermark, daily, purge, foldHistory>>

RefreshStep(r) ==
    \/ RefreshSkip(r) \/ RefreshLock(r)
    \/ RefreshRange(r) \/ RefreshEmpty(r)
    \/ RefreshFold(r) \/ RefreshCommit(r) \/ RefreshCheck(r)

----------------------------------------------------------------------------
(* purge_firewall_logs                                                     *)

NextDay ==
    /\ today < MaxDay
    /\ today' = today + 1
    /\ UNCHANGED <<tableVars, faults, rollupVars>>

PurgeStart ==
    /\ purge.pc = "idle"
    /\ purge' = [pc |-> "connections", day |-> today]
    /\ UNCHANGED <<tableVars, today, faults, watermark, daily, advisory, refresh,
                   foldHistory>>

\* created_at < now - days
Aged(r, days) == r.msg.at + days < purge.day

\* The rows a phase deletes.
Purgeable ==
    IF purge.pc = "connections"
    THEN {r \in logs : r.msg.type = "Firewall" /\ Aged(r, ConnDays)}
    ELSE {r \in logs : Aged(r, KeepDays)}

\* One DELETE of at most a batch, committed; a short one ends the phase.
PurgeRows ==
    /\ purge.pc \in {"connections", "security"}
    /\ \E rs \in SUBSET Purgeable :
         /\ Cardinality(rs) = Min({PurgeBatch, Cardinality(Purgeable)})
         /\ logs' = logs \ rs
         /\ purge' = IF Cardinality(rs) = PurgeBatch THEN purge
                     ELSE [purge EXCEPT !.pc = IF @ = "connections"
                                               THEN "security" ELSE "days"]
    /\ UNCHANGED <<nextId, today, faults, watermark, daily, advisory, refresh,
                   foldHistory>>

\* The days of the rollup that are older than the longer window.
PurgeDays ==
    LET old == {r \in counted : Aged(r, KeepDays)}
    IN  /\ purge.pc = "days"
        /\ daily' = [k \in RollupKeys |->
                       IF k[1] + KeepDays < purge.day THEN 0 ELSE daily[k]]
        /\ counted' = counted \ old
        /\ expired' = expired \cup old
        /\ purge' = NoPurge
        /\ UNCHANGED <<tableVars, today, faults, watermark, advisory, refresh>>

PurgeStep == PurgeStart \/ PurgeRows \/ PurgeDays

RollupStep(callers) ==
    \E r \in callers : RefreshStep(r) \/ RefreshFailed(r)

----------------------------------------------------------------------------
RollupTypeOK ==
    /\ watermark \in Nat
    /\ daily \in [RollupKeys -> Nat]
    /\ advisory \in Refreshers \cup {Nobody}
    /\ refresh \in [Refreshers ->
         [pc : {"idle", "again", "range", "fold", "commit", "check"},
          lo : Nat, top : Nat, rows : SUBSET Row, left : 0 .. Rounds]]
    /\ purge \in [pc : {"idle", "connections", "security", "days"}, day : Nat]
    /\ counted \subseteq Row /\ expired \subseteq Row

(* "Each row is processed exactly once": the counts on the map are the     *)
(* numbers of rows folded, whoever refreshes at the same time, fails or    *)
(* is retried, so none was added twice.                                    *)
CountedOnce ==
    \A k \in RollupKeys :
      daily[k] = Cardinality({r \in counted : KeyOf(r) = k})

(* ... and none was left out: a located row the watermark has passed is on *)
(* the map, or was until its day expired, although rows are inserted and   *)
(* purged between the statements of a refresh.                             *)
NoneSkipped ==
    \A r \in logs :
      Mappable(r) /\ r.id <= watermark => r \in counted \cup expired

(* A pin shows the attacker: the address the rollup names is the one whose *)
(* location the receiver looked up.  Sources that are neither private nor  *)
(* public (all internal IPv6 addresses among them) are the exception.      *)
PinIsAttacker ==
    \A k \in RollupKeys : daily[k] > 0 => k[2] = k[3] \/ k[2] \in Special

(* The rollup catches up: once no more rows come in, none within a chunk   *)
(* of the watermark is left behind it.  A row farther away, behind a gap   *)
(* in the ids as long as a chunk, may wait for ever.                       *)
RollupCatchesUp == []<>(InRange(watermark, watermark + IdChunk) = {})
=============================================================================
