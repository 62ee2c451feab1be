----------------------------- MODULE OsintUsage -----------------------------
(***************************************************************************)
(* Shodan lookups and their quota.  Each lookup costs a credit; the calls  *)
(* of a day are counted in a FlushBuffer, and an automatic lookup asks it  *)
(* first whether the limit is reached.  Question, call and count are       *)
(* separated by awaits, and lookups run beside each other.  People are not *)
(* limited.  Answers are kept in Redis for an hour.                        *)
(***************************************************************************)
EXTENDS Naturals, FiniteSets

CONSTANTS
    Lookups,        \* the lookups that may run at the same time
    Addresses,      \* public IP addresses
    Limit,          \* calls allowed (the day's and the month's limit in one)
    OsintFlushers,  \* flushes of osint_usage that may overlap
    MaxCalls,       \* bound: what is counted in a behaviour
    MaxOsintFails   \* bound: failed flushes and crashes

ASSUME OsintAssumption ==
    /\ Limit \in Nat \ {0} /\ MaxCalls \in Nat /\ MaxOsintFails \in Nat
    /\ IsFiniteSet(Lookups) /\ IsFiniteSet(OsintFlushers)

VARIABLES
    osintMeter,  \* _counter, the flushes under way, osint_usage
    osintCache,  \* Redis, address by address: no entry, one without and one
                 \* with an answer from Shodan
    look,        \* the locals of each lookup
    autoCalls,   \* history: calls that automatic lookups made
    uncounted    \* history: calls whose lookup died before it counted them

osintVars == <<osintMeter, osintCache, look, autoCalls, uncounted>>

\* What a call is recorded as; all but cache_hit count against the limit.
Statuses == {"real", "cache_hit"}

Osint == INSTANCE FlushBuffer WITH
             Keys <- Statuses, Flushers <- OsintFlushers, meter <- osintMeter

One(s) == [k \in Statuses |-> IF k = s THEN 1 ELSE 0]

Idle == [pc |-> "idle"]

Callers == {"auto", "person", "button"}

At(pc) == [pc : {pc}, ip : Addresses, who : Callers]

OsintTypeOK ==
    /\ Osint!MeterTypeOK
    /\ osintCache \in [Addresses -> {"none", "bare", "shodan"}]
    /\ look \in [Lookups -> {Idle}
         \cup At("pending") \cup At("cache") \cup At("call") \cup At("count")
         \cup [pc : {"stored"}, ip : Addresses, seen : Nat]
         \cup [pc : {"write"}, ip : Addresses, answered : BOOLEAN, fold : BOOLEAN]]
    /\ autoCalls \in 0..MaxCalls /\ uncounted \in Nat

OsintInit ==
    /\ Osint!MeterInit
    /\ osintCache = [ip \in Addresses |-> "none"]
    /\ look = [c \in Lookups |-> Idle]
    /\ autoCalls = 0 /\ uncounted = 0

(* The bounds: what is counted, or will be, and a failure takes the place  *)
(* of two of these.                                                        *)
Used ==
    osintMeter.counted["real"] + osintMeter.counted["cache_hit"] + uncounted
      + Cardinality({c \in Lookups : look[c].pc = "count"}) + 2 * osintMeter.failures

Room == Used < MaxCalls

MayFail == osintMeter.failures < MaxOsintFails /\ Used + 2 <= MaxCalls

Becomes(c, l) == look' = [look EXCEPT ![c] = l]

Step(pc, ip, who) == [pc |-> pc, ip |-> ip, who |-> who]

Write(ip, answered, fold) ==
    [pc |-> "write", ip |-> ip, answered |-> answered, fold |-> fold]

\* lookup(): an automatic one asks the gate first.
StartLookup(c) ==
    /\ look[c] = Idle
    /\ \E ip \in Addresses : \/ Becomes(c, Step("pending", ip, "auto"))
                             \/ Becomes(c, Step("cache", ip, "person"))
    /\ UNCHANGED <<osintMeter, osintCache, autoCalls, uncounted>>

\* shodan_on_demand(): the button calls without looking at the cache.
PressButton(c) ==
    /\ look[c] = Idle
    /\ \E ip \in Addresses : Becomes(c, Step("call", ip, "button"))
    /\ UNCHANGED <<osintMeter, osintCache, autoCalls, uncounted>>

\* Mutant: the gate knows only what is in the table.
ReadNothing(c) ==
    /\ look[c].pc = "pending"
    /\ Becomes(c, [pc |-> "stored", ip |-> look[c].ip, seen |-> 0])
    /\ UNCHANGED <<osintMeter, osintCache, autoCalls, uncounted>>

\* _real_counts(): the counters in memory, under the lock ...
ReadPending(c) ==
    /\ look[c].pc = "pending"
    /\ Becomes(c, [pc |-> "stored", ip |-> look[c].ip,
                   seen |-> osintMeter.pending["real"]])
    /\ UNCHANGED <<osintMeter, osintCache, autoCalls, uncounted>>

\* The cached entry is enough, must be upgraded, or there is none.
UseCache(c, ip, who, allowed) ==
    /\ CASE allowed /\ osintCache[ip] # "shodan" ->
              Becomes(c, Step("call", ip, who)) /\ UNCHANGED osintMeter
         [] ~allowed /\ osintCache[ip] = "none" ->
              /\ Becomes(c, Write(ip, FALSE, FALSE))
              /\ UNCHANGED osintMeter
         [] OTHER -> Becomes(c, Idle) /\ Room /\ Osint!Record(One("cache_hit"))
    /\ UNCHANGED <<osintCache, autoCalls, uncounted>>

(* ... then the table, without it.  Whether the limit is reached and what  *)
(* is cached decide together whether Shodan is called.                     *)
ReadStored(c) ==
    /\ look[c].pc = "stored"
    /\ UseCache(c, look[c].ip, "auto",
                look[c].seen + osintMeter.stored["real"] < Limit)

ReadCache(c) ==
    /\ look[c].pc = "cache"
    /\ UseCache(c, look[c].ip, look[c].who, TRUE)

\* The check fails: the lookup goes ahead as if it were allowed.
GateFailed(c) ==
    /\ look[c].pc \in {"pending", "stored"}
    /\ MayFail
    /\ osintMeter' = [osintMeter EXCEPT !.failures = @ + 1]
    /\ Becomes(c, Step("cache", look[c].ip, "auto"))
    /\ UNCHANGED <<osintCache, autoCalls, uncounted>>

CallShodan(c) ==
    /\ look[c].pc = "call" /\ Room
    /\ autoCalls' = IF look[c].who = "auto" THEN autoCalls + 1 ELSE autoCalls
    /\ Becomes(c, [look[c] EXCEPT !.pc = "count"])
    /\ UNCHANGED <<osintMeter, osintCache, uncounted>>

\* _track() counts the call when it is over: an answer, no record, an error.
CountCall(c) ==
    /\ look[c].pc = "count"
    /\ Osint!Record(One("real"))
    /\ \E answered \in BOOLEAN :
         Becomes(c, Write(look[c].ip, answered, look[c].who = "button"))
    /\ UNCHANGED <<osintCache, autoCalls, uncounted>>

(* The payload goes to Redis, with the answer or the sentinel in it; the   *)
(* button folds its answer into the entry that is there, if there is one.  *)
WriteCache(c) ==
    /\ look[c].pc = "write"
    /\ osintCache' = [osintCache EXCEPT
         ![look[c].ip] = IF look[c].fold /\ @ = "none" THEN @
                         ELSE IF look[c].answered THEN "shodan" ELSE "bare"]
    /\ Becomes(c, Idle)
    /\ UNCHANGED <<osintMeter, autoCalls, uncounted>>

Expire(ip) ==
    /\ osintCache[ip] # "none"
    /\ osintCache' = [osintCache EXCEPT ![ip] = "none"]
    /\ UNCHANGED <<osintMeter, look, autoCalls, uncounted>>

OsintFlush(f) ==
    /\ \/ Osint!Take(f) \/ Osint!Commit(f)
       \/ MayFail /\ Osint!Fail(f)
    /\ UNCHANGED <<osintCache, look, autoCalls, uncounted>>

\* The backend dies: the counters and the lookups under way are gone.
BackendDies ==
    /\ MayFail
    /\ Osint!Die
    /\ uncounted' = uncounted + Cardinality({c \in Lookups : look[c].pc = "count"})
    /\ look' = [c \in Lookups |-> Idle]
    /\ UNCHANGED <<osintCache, autoCalls>>

LookupStep(c) ==
    \/ ReadPending(c) \/ ReadStored(c) \/ ReadCache(c) \/ GateFailed(c)
    \/ CallShodan(c) \/ CountCall(c) \/ WriteCache(c)

OsintStep ==
    \/ \E c \in Lookups : StartLookup(c) \/ PressButton(c) \/ LookupStep(c)
    \/ \E ip \in Addresses : Expire(ip)
    \/ \E f \in OsintFlushers : OsintFlush(f)
    \/ BackendDies

----------------------------------------------------------------------------
(* How far automatic lookups can overrun the limit.  Each flush that is    *)
(* under way hides what it carries from the gate, and each lookup under    *)
(* way what it has not counted; a failed flush, a crash or a failed check  *)
(* lets through what it lost.  With nothing lost, F flushes at a time and  *)
(* K lookups spend at most (F + 1) * (Limit + K - 1) calls.                *)
OvershootBounded ==
    osintMeter.failures = 0 =>
      autoCalls <= (Cardinality(OsintFlushers) + 1) * (Limit + Cardinality(Lookups) - 1)

(* osint_usage counts every call at most once, keeps what it has counted,  *)
(* and misses calls only after a failed write or a crash (LossyCounter).   *)
OsintImplementsCounter == Osint!Implemented
=============================================================================
