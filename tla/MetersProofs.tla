---------------------------- MODULE MetersProofs ----------------------------
(***************************************************************************)
(* Proofs about what is gathered bit by bit, for any number of lookups,    *)
(* flushes, scans and cycles: an address is paid for once, the events of   *)
(* the monitor are spaced, the collectors leave no gap behind their        *)
(* cursors, automatic lookups overrun their limit only by so much, and the *)
(* counters of every component implement the lossy counter.                *)
(***************************************************************************)
EXTENDS MCMeters, TLAPS, FiniteSetTheorems, SequenceTheorems

----------------------------------------------------------------------------
(* The shared GeoIP cache                                                  *)

GeoSpec == GeoInit /\ [][GeoStep]_geoVars

GeoLook ==
    {NoLook} \cup [pc : {"row", "fetch"}]
      \cup [pc : {"store", "warm"}, score : Answer]
      \cup [pc : {"flush"}, score : Answer, found : BOOLEAN]

GeoTyped ==
    /\ geoRow \in Optional /\ geoLook \in [Geos -> GeoLook]
    /\ fetches \in Nat /\ notStored \in Nat /\ everScored \in BOOLEAN

\* Lookups that will fetch the address, and those that hold what they fetched.
WillFetch(looks) == {g \in Geos : looks[g].pc = "fetch"}
Holding(looks) == {g \in Geos : looks[g].pc \in {"store", "flush"}}

\* Whoever fetches had seen no row; a row comes from one who held an answer.
GeoInv ==
    /\ GeoTyped /\ PaidOnce
    /\ fetches + Cardinality(WillFetch(geoLook)) <= Cardinality(Geos) + notStored
    /\ geoRow = None => fetches <= Cardinality(Holding(geoLook)) + notStored /\ ~everScored
    /\ fetches >= Cardinality(Holding(geoLook)) + (IF everScored THEN 1 ELSE 0)

----------------------------------------------------------------------------
(* The collectors                                                          *)

CollectSpec == CollectInit /\ [][CollectStep]_collectVars

\* What is published of the items of a collector.
Out(who, raised) == {x \in ItemsOf(who) : raised[x] # Never}

FetchWork(who) ==
    [pc : {"fetch"}, todo : Seq(SUBSET ItemsOf(who)) \ {<<>>}, began : Nat, from : Int]

StoreWork(who, raised) ==
    [pc : {"check", "commit"}, todo : Seq(SUBSET ItemsOf(who)) \ {<<>>}, began : Nat, from : Int,
     batch : SUBSET Out(who, raised)]

Work(who, raised) == {NoCycle} \cup FetchWork(who) \cup StoreWork(who, raised)

CollectTyped ==
    /\ minute \in Nat /\ foreign \in Never..minute
    /\ shown \in [Items -> Never..minute] /\ kept \subseteq {x \in Items : shown[x] # Never}
    /\ DOMAIN cycle = Cycles
    /\ \A c \in Cycles : /\ cycle[c] \in Work(WhoIs(c), shown)
                         /\ cycle[c] # NoCycle =>
                              cycle[c].began <= minute /\ minute <= cycle[c].began + CycleTime

LagFor(who) == IF who = "logins" THEN LoginLag ELSE CentralLag

\* What is older than the reach of lateness when a cycle begins is stored,
\* or this cycle or another one will store it.
BehindCovered(who, begun) ==
    \A x \in ItemsOf(who) :
      shown[x] # Never /\ shown[x] < begun - LagFor(who) => x \in kept \cup Awaited(who)

CollectInv ==
    /\ CollectTyped /\ NoGap
    /\ \A c \in Cycles : cycle[c] # NoCycle /\ WhoIs(c) \notin cut =>
         BehindCovered(WhoIs(c), cycle[c].began)

----------------------------------------------------------------------------
(* The monitor of flagged addresses                                        *)

MonitorSpec ==
    NetInit /\ MonitorInit /\ [][MonitorStep]_<<netVars, clock, monitorVars>>

EventRow ==
    [pair : Pairs, type : {"new_pair", "reappeared"}, at : Nat, after : Nat, notified : BOOLEAN]

\* A scan sees what is no older than its window.
Seeing(sc, now, raised) ==
    /\ sc.now = now /\ sc.after \in 0..Len(raised)
    /\ DOMAIN sc.seen \subseteq Pairs
    /\ \A p \in DOMAIN sc.seen : sc.seen[p] \in Int /\ sc.seen[p] >= now - Lookback

\* The rows a scan has read are as new as the events before it.
Informed(sc, raised) ==
    /\ \A p \in DOMAIN sc.seen : sc.rows[p] \in Int \cup {NoRow}
    /\ \A i \in 1..sc.after : raised[i].pair \in DOMAIN sc.seen =>
         /\ sc.rows[raised[i].pair] # NoRow
         /\ sc.rows[raised[i].pair] >= raised[i].at - Lookback

ScanIs(sc, now, raised) ==
    \/ sc = NoScan
    \/ sc.pc = "read" /\ Seeing(sc, now, raised)
    \/ sc.pc = "write" /\ Seeing(sc, now, raised) /\ Informed(sc, raised)
    \/ sc \in [pc : {"notify"}, from : Nat, upto : Nat]

MonitorTyped ==
    /\ clock \in Nat /\ flushAt \in 0..clock
    /\ buckets \subseteq [pair : Pairs, at : 0..clock]
    /\ conns \in [Pairs -> Int \cup {NoRow}]
    /\ events \in Seq(EventRow) /\ DOMAIN scan = Scanners

\* A pair with an event has a row, about as new as the event.
RowsFollow(rows, raised, now) ==
    \A i \in DOMAIN raised :
      /\ raised[i].at <= now
      /\ rows[raised[i].pair] # NoRow /\ rows[raised[i].pair] >= raised[i].at - Lookback

MonitorInv ==
    /\ MonitorTyped /\ EventsSpaced /\ RowsFollow(conns, events, clock)
    /\ \A s \in Scanners : ScanIs(scan[s], clock, events)

----------------------------------------------------------------------------
(* Shodan lookups and their quota                                          *)

OsintSpec == OsintInit /\ [][OsintStep]_osintVars

OsintFlow == INSTANCE FlushBufferProofs WITH
                 Keys <- Statuses, Flushers <- OsintFlushers, meter <- osintMeter

OsintLook ==
    {Idle} \cup At("pending") \cup At("cache") \cup At("call") \cup At("count")
      \cup [pc : {"stored"}, ip : Addresses, seen : Nat]
      \cup [pc : {"write"}, ip : Addresses, answered : BOOLEAN, fold : BOOLEAN]

OsintTyped ==
    /\ OsintFlow!Typed /\ osintMeter.stored["real"] \in Nat /\ osintMeter.failures \in Nat
    /\ look \in [Lookups -> OsintLook] /\ autoCalls \in Nat

\* What may be hidden from the gate in one place.
Most == Limit + Cardinality(Lookups) - 1

\* Lookups that are about to pass the gate; automatic ones that are about to
\* call; and those whose call is not counted yet.
Passing(looks, stored) ==
    {c \in Lookups : looks[c].pc = "stored" /\ looks[c].seen + stored < Limit}
Calling(looks) == {c \in Lookups : looks[c].pc = "call" /\ looks[c].who = "auto"}
Owing(looks) == {c \in Lookups : looks[c].pc \in {"call", "count"} /\ looks[c].who = "auto"}

\* The calls in flight, of each flush not more than Most.
Carried(flight) == {t \in OsintFlushers \X (1..Most) : t[2] <= flight[t[1]]["real"]}

Spent(looks, calls, stored) ==
    calls + Cardinality(Calling(looks)) + Cardinality(Passing(looks, stored))
Owed(looks, pending, stored) ==
    pending + Cardinality(Owing(looks)) + Cardinality(Passing(looks, stored))

Within(spent, stored, carried, owed) ==
    /\ spent <= stored + carried + (IF owed <= Most THEN owed ELSE Most)
    /\ spent <= (Cardinality(OsintFlushers) + 1) * Most

OsintInv ==
    /\ OsintTyped
    /\ osintMeter.failures = 0 =>
         /\ \A c \in Lookups : look[c].pc = "cache" => look[c].who # "auto"
         /\ Within(Spent(look, autoCalls, osintMeter.stored["real"]),
                   osintMeter.stored["real"], Cardinality(Carried(osintMeter.flight)),
                   Owed(look, osintMeter.pending["real"], osintMeter.stored["real"]))

----------------------------------------------------------------------------
(* Proofs: the GeoIP cache                                                 *)

LEMMA GeosFinite ==
    ASSUME NEW S \in SUBSET Geos
    PROVE  IsFiniteSet(S) /\ Cardinality(S) \in Nat /\ Cardinality(S) <= Cardinality(Geos)
           /\ Cardinality(Geos) \in Nat
  BY GeoAssumption, FS_Subset, FS_CardinalityType DEF Geos

LEMMA GeoStart == GeoInit => GeoInv
  <1> SUFFICES ASSUME GeoInit
               PROVE  GeoInv
    OBVIOUS
  <1>1. geoRow = None /\ geoLook = [g \in Geos |-> NoLook] /\ fetches = 0 /\ notStored = 0 /\ everScored = FALSE
    BY DEF GeoInit
  <1>2. GeoTyped
    BY <1>1 DEF GeoTyped, GeoLook, Optional
  <1>3. WillFetch(geoLook) = {} /\ Holding(geoLook) = {}
    BY <1>1 DEF WillFetch, Holding, NoLook
  <1>4. Cardinality(Geos) \in Nat /\ Cardinality({}) = 0
    BY GeosFinite, FS_EmptySet
  <1> QED
    BY <1>1, <1>2, <1>3, <1>4 DEF GeoInv, PaidOnce

(* One lookup moves from one place of the code to another.                 *)
LEMMA LookMoves ==
    ASSUME GeoInv, NEW g \in Geos, NEW l \in GeoLook, geoLook' = [geoLook EXCEPT ![g] = l]
    PROVE  /\ geoLook' \in [Geos -> GeoLook]
           /\ Cardinality(WillFetch(geoLook')) =
                Cardinality(WillFetch(geoLook))
                  - (IF geoLook[g].pc = "fetch" THEN 1 ELSE 0) + (IF l.pc = "fetch" THEN 1 ELSE 0)
           /\ Cardinality(Holding(geoLook')) =
                Cardinality(Holding(geoLook))
                  - (IF geoLook[g].pc \in {"store", "flush"} THEN 1 ELSE 0)
                  + (IF l.pc \in {"store", "flush"} THEN 1 ELSE 0)
  <1>1. geoLook \in [Geos -> GeoLook] /\ geoLook' \in [Geos -> GeoLook] /\ geoLook'[g] = l
        /\ \A h \in Geos \ {g} : geoLook'[h] = geoLook[h]
    BY DEF GeoInv, GeoTyped
  <1> DEFINE F == WillFetch(geoLook)
             H == Holding(geoLook)
  <1>2. F \in SUBSET Geos /\ H \in SUBSET Geos
    BY DEF WillFetch, Holding
  <1>3. /\ IsFiniteSet(F) /\ IsFiniteSet(F \ {g}) /\ Cardinality(F) \in Nat /\ Cardinality(F \ {g}) \in Nat
        /\ IsFiniteSet(H) /\ IsFiniteSet(H \ {g}) /\ Cardinality(H) \in Nat /\ Cardinality(H \ {g}) \in Nat
    BY <1>2, GeosFinite
  <1>4. /\ WillFetch(geoLook') = IF l.pc = "fetch" THEN (F \ {g}) \cup {g} ELSE F \ {g}
        /\ Holding(geoLook') = IF l.pc \in {"store", "flush"} THEN (H \ {g}) \cup {g} ELSE H \ {g}
        /\ g \in F <=> geoLook[g].pc = "fetch"
        /\ g \in H <=> geoLook[g].pc \in {"store", "flush"}
    BY <1>1 DEF WillFetch, Holding
  <1> HIDE DEF F, H
  <1>5. /\ Cardinality(F \ {g}) = IF g \in F THEN Cardinality(F) - 1 ELSE Cardinality(F)
        /\ Cardinality((F \ {g}) \cup {g}) = Cardinality(F \ {g}) + 1
        /\ Cardinality(H \ {g}) = IF g \in H THEN Cardinality(H) - 1 ELSE Cardinality(H)
        /\ Cardinality((H \ {g}) \cup {g}) = Cardinality(H \ {g}) + 1
    BY <1>3, FS_RemoveElement, FS_AddElement
  <1> QED
    BY <1>1, <1>3, <1>4, <1>5 DEF F, H

LEMMA LooksCounted ==
    ASSUME NEW looks
    PROVE  /\ Cardinality(WillFetch(looks)) \in Nat /\ Cardinality(Holding(looks)) \in Nat
           /\ Cardinality(Geos) \in Nat
           /\ Cardinality(WillFetch(looks)) + Cardinality(Holding(looks)) <= Cardinality(Geos)
  <1>1. WillFetch(looks) \in SUBSET Geos /\ Holding(looks) \in SUBSET Geos
        /\ WillFetch(looks) \cup Holding(looks) \in SUBSET Geos
        /\ WillFetch(looks) \cap Holding(looks) = {}
    BY DEF WillFetch, Holding
  <1>2. Cardinality(WillFetch(looks) \cup Holding(looks)) =
          Cardinality(WillFetch(looks)) + Cardinality(Holding(looks)) - Cardinality({})
    BY <1>1, GeosFinite, FS_Union
  <1> QED
    BY <1>1, <1>2, GeosFinite, FS_EmptySet

(* A lookup moves without touching the row, and fetches nothing.           *)
LEMMA LookGoesOn ==
    ASSUME GeoInv, NEW g \in Geos, NEW l \in GeoLook, Looks(g, l),
           UNCHANGED <<geoRow, fetches, notStored, everScored>>,
           l.pc = "fetch" => geoRow = None,
           l.pc \in {"store", "flush"} => geoLook[g].pc \in {"store", "flush"},
           geoLook[g].pc \in {"store", "flush"} => l.pc \in {"store", "flush"} \/ geoRow # None
    PROVE  GeoInv'
  <1>1. /\ geoLook' \in [Geos -> GeoLook]
        /\ Cardinality(WillFetch(geoLook')) =
             Cardinality(WillFetch(geoLook))
               - (IF geoLook[g].pc = "fetch" THEN 1 ELSE 0) + (IF l.pc = "fetch" THEN 1 ELSE 0)
        /\ Cardinality(Holding(geoLook')) =
             Cardinality(Holding(geoLook))
               - (IF geoLook[g].pc \in {"store", "flush"} THEN 1 ELSE 0)
               + (IF l.pc \in {"store", "flush"} THEN 1 ELSE 0)
    BY LookMoves DEF Looks
  <1> DEFINE F == Cardinality(WillFetch(geoLook))
             H == Cardinality(Holding(geoLook))
             G == Cardinality(WillFetch(geoLook'))
             I == Cardinality(Holding(geoLook'))
             N == Cardinality(Geos)
  <1>2. F \in Nat /\ H \in Nat /\ N \in Nat /\ G \in Nat /\ I \in Nat /\ G + I <= N
    BY LooksCounted
  <1>3. I <= H /\ (geoRow = None => I = H) /\ (G <= F \/ geoRow = None)
    BY <1>1, <1>2
  <1>4. /\ fetches \in Nat /\ notStored \in Nat /\ fetches + F <= N + notStored
        /\ geoRow = None => fetches <= H + notStored /\ ~everScored
        /\ fetches >= H + (IF everScored THEN 1 ELSE 0)
    BY DEF GeoInv, GeoTyped
  <1> HIDE DEF F, H, G, I, N
  <1>5. /\ fetches + G <= N + notStored
        /\ geoRow = None => fetches <= I + notStored /\ ~everScored
        /\ fetches >= I + (IF everScored THEN 1 ELSE 0)
    BY <1>2, <1>3, <1>4
  <1>6. GeoTyped' /\ PaidOnce'
    BY <1>1 DEF GeoInv, GeoTyped, PaidOnce
  <1> QED
    BY <1>5, <1>6 DEF GeoInv, G, I, N

(* A holder writes the row, and what it writes has been paid for.          *)
LEMMA RowWritten ==
    ASSUME GeoInv, NEW g \in Geos, geoLook[g].pc \in {"store", "flush"}, NEW s \in Answer, WriteRow(s),
           NEW t \in Answer, Looks(g, With("warm", t)), UNCHANGED <<fetches, notStored>>
    PROVE  GeoInv'
  <1> DEFINE l == With("warm", t)
             F == Cardinality(WillFetch(geoLook))
             H == Cardinality(Holding(geoLook))
             G == Cardinality(WillFetch(geoLook'))
             I == Cardinality(Holding(geoLook'))
             N == Cardinality(Geos)
  <1>1. l \in GeoLook /\ l.pc = "warm"
    BY DEF With, GeoLook
  <1> HIDE DEF l
  <1>2. geoLook' \in [Geos -> GeoLook] /\ G = F /\ I = H - 1
    <2>1. geoLook' = [geoLook EXCEPT ![g] = l]
      BY DEF l, Looks
    <2>2. F \in Nat /\ H \in Nat
      BY LooksCounted
    <2>3. geoLook' \in [Geos -> GeoLook] /\ G = F - 0 + 0 /\ I = H - 1 + 0
      BY <1>1, <2>1, LookMoves
    <2> QED
      BY <2>2, <2>3
  <1>3. F \in Nat /\ H \in Nat /\ N \in Nat /\ I \in Nat
    BY LooksCounted
  <1>4. /\ fetches \in Nat /\ notStored \in Nat /\ fetches + F <= N + notStored /\ everScored \in BOOLEAN
        /\ fetches >= H + (IF everScored THEN 1 ELSE 0)
    BY DEF GeoInv, GeoTyped
  <1>5. geoRow' = {s} /\ everScored' = (everScored \/ s # NoScore) /\ geoRow' # None
    BY DEF WriteRow, None
  <1>6. GeoTyped'
    BY <1>2, <1>4, <1>5 DEF GeoTyped, GeoInv, Optional
  <1> HIDE DEF F, H, G, I, N
  <1>7. everScored' /\ geoRow' = {NoScore} => fetches > 1
    BY <1>2, <1>3, <1>4, <1>5
  <1>8. fetches >= I + (IF everScored' THEN 1 ELSE 0)
    BY <1>2, <1>3, <1>4
  <1>9. fetches <= N + notStored
    BY <1>3, <1>4
  <1> QED
    BY <1>2, <1>4, <1>5, <1>6, <1>7, <1>8, <1>9 DEF GeoInv, PaidOnce, F, H, G, I, N

LEMMA GeoFetchKeeps == ASSUME GeoInv, NEW g \in Geos, GeoFetch(g) PROVE GeoInv'
  <1>1. PICK s \in Answer : Looks(g, With("store", s))
    BY DEF GeoFetch
  <1> DEFINE l == With("store", s)
             F == Cardinality(WillFetch(geoLook))
             H == Cardinality(Holding(geoLook))
             G == Cardinality(WillFetch(geoLook'))
             I == Cardinality(Holding(geoLook'))
             N == Cardinality(Geos)
  <1>2. l \in GeoLook /\ l.pc = "store" /\ geoLook[g].pc = "fetch" /\ fetches' = fetches + 1
        /\ UNCHANGED <<geoRow, notStored, everScored>>
    BY DEF With, GeoLook, GeoFetch
  <1> HIDE DEF l
  <1>3. F \in Nat /\ H \in Nat /\ N \in Nat
    BY LooksCounted
  <1>4. geoLook' \in [Geos -> GeoLook] /\ G = F - 1 /\ I = H + 1
    <2>1. geoLook' = [geoLook EXCEPT ![g] = l]
      BY <1>1 DEF l, Looks
    <2>2. geoLook' \in [Geos -> GeoLook] /\ G = F - 1 + 0 /\ I = H - 0 + 1
      BY <1>2, <2>1, LookMoves
    <2> QED
      BY <1>3, <2>2
  <1>5. /\ fetches \in Nat /\ notStored \in Nat /\ fetches + F <= N + notStored
        /\ geoRow = None => fetches <= H + notStored /\ ~everScored
        /\ fetches >= H + (IF everScored THEN 1 ELSE 0)
        /\ everScored /\ geoRow = {NoScore} => fetches > 1
    BY DEF GeoInv, GeoTyped, PaidOnce
  <1>6. G \in Nat
    BY LooksCounted
  <1>7. GeoTyped'
    BY <1>2, <1>4, <1>5 DEF GeoTyped, GeoInv
  <1> HIDE DEF F, H, G, I, N
  <1>8. /\ fetches' <= N + notStored' /\ fetches' + G <= N + notStored'
        /\ geoRow' = None => fetches' <= I + notStored' /\ ~everScored'
        /\ fetches' >= I + (IF everScored' THEN 1 ELSE 0)
        /\ everScored' /\ geoRow' = {NoScore} => fetches' > 1
    BY <1>2, <1>3, <1>4, <1>5, <1>6
  <1> QED
    BY <1>7, <1>8 DEF GeoInv, PaidOnce, F, H, G, I, N

LEMMA UpsertFailsKeeps == ASSUME GeoInv, NEW g \in Geos, GeoUpsertFails(g) PROVE GeoInv'
  <1> DEFINE l == With("warm", geoLook[g].score)
             F == Cardinality(WillFetch(geoLook))
             H == Cardinality(Holding(geoLook))
             G == Cardinality(WillFetch(geoLook'))
             I == Cardinality(Holding(geoLook'))
             N == Cardinality(Geos)
  <1>1. geoLook[g].pc = "store" /\ geoLook[g] \in GeoLook
    BY DEF GeoUpsertFails, GeoInv, GeoTyped
  <1>2. l \in GeoLook /\ l.pc = "warm" /\ notStored' = notStored + 1
        /\ UNCHANGED <<geoRow, fetches, everScored>>
    BY <1>1 DEF With, GeoLook, GeoUpsertFails, NoLook
  <1> HIDE DEF l
  <1>3. F \in Nat /\ H \in Nat /\ N \in Nat
    BY LooksCounted
  <1>4. geoLook' \in [Geos -> GeoLook] /\ G = F /\ I = H - 1
    <2>1. geoLook' = [geoLook EXCEPT ![g] = l]
      BY DEF l, GeoUpsertFails, Looks
    <2>2. geoLook' \in [Geos -> GeoLook] /\ G = F - 0 + 0 /\ I = H - 1 + 0
      BY <1>1, <1>2, <2>1, LookMoves
    <2> QED
      BY <1>3, <2>2
  <1>5. /\ fetches \in Nat /\ notStored \in Nat /\ fetches + F <= N + notStored
        /\ geoRow = None => fetches <= H + notStored /\ ~everScored
        /\ fetches >= H + (IF everScored THEN 1 ELSE 0)
        /\ everScored /\ geoRow = {NoScore} => fetches > 1
    BY DEF GeoInv, GeoTyped, PaidOnce
  <1>6. GeoTyped'
    BY <1>2, <1>4, <1>5 DEF GeoTyped, GeoInv
  <1> HIDE DEF F, H, G, I, N
  <1>7. /\ fetches' <= N + notStored' /\ fetches' + G <= N + notStored'
        /\ geoRow' = None => fetches' <= I + notStored' /\ ~everScored'
        /\ fetches' >= I + (IF everScored' THEN 1 ELSE 0)
        /\ everScored' /\ geoRow' = {NoScore} => fetches' > 1
    BY <1>2, <1>3, <1>4, <1>5
  <1> QED
    BY <1>6, <1>7 DEF GeoInv, PaidOnce, F, H, G, I, N

LEMMA GeoNext == GeoInv /\ [GeoStep]_geoVars => GeoInv'
  <1> SUFFICES ASSUME GeoInv, [GeoStep]_geoVars
               PROVE  GeoInv'
    OBVIOUS
  <1>1. CASE GeoExpire \/ UNCHANGED geoVars
    <2>1. UNCHANGED <<geoRow, geoLook, fetches, notStored, everScored>>
      BY <1>1 DEF GeoExpire, geoVars
    <2>2. GeoTyped' /\ PaidOnce'
      BY <2>1 DEF GeoInv, GeoTyped, PaidOnce
    <2> QED
      BY <2>1, <2>2 DEF GeoInv
  <1>2. ASSUME NEW g \in Geos
        PROVE  geoLook[g] \in GeoLook /\ geoRow \in Optional /\ NoLook \in GeoLook /\ NoLook.pc = "idle"
               /\ \A r \in Optional \ {None} : (\A s \in r : s \in Answer) /\ (CHOOSE s \in r : TRUE) \in Answer
    BY DEF GeoInv, GeoTyped, GeoLook, NoLook, Optional, None
  <1>3. ASSUME NEW g \in Geos, GeoMiss(g) \/ GeoUnknown(g) \/ GeoConflict(g) \/ GeoWarm(g)
        PROVE  GeoInv'
    <2>1. [pc |-> "row"] \in GeoLook
      BY DEF GeoLook
    <2> QED
      BY <1>2, <1>3, <2>1, LookGoesOn DEF GeoMiss, GeoUnknown, GeoConflict, GeoWarm, None
  <1>4. ASSUME NEW g \in Geos, GeoReadRow(g)
        PROVE  GeoInv'
    <2>1. CASE geoRow = None
      <3>1. [pc |-> "fetch"] \in GeoLook
        BY DEF GeoLook
      <3> QED
        BY <1>4, <2>1, <3>1, LookGoesOn DEF GeoReadRow
    <2>2. CASE geoRow # None
      <3>1. PICK s \in Answer : Looks(g, With("warm", s))
        BY <1>2, <1>4, <2>2 DEF GeoReadRow
      <3>2. With("warm", s) \in GeoLook /\ With("warm", s).pc = "warm"
        BY DEF GeoLook, With
      <3> QED
        BY <1>4, <3>1, <3>2, LookGoesOn DEF GeoReadRow
    <2> QED
      BY <2>1, <2>2
  <1>5. ASSUME NEW g \in Geos, GeoMerge(g)
        PROVE  GeoInv'
    <2> DEFINE there == geoRow # None
               l == [pc |-> "flush", score |-> geoLook[g].score, found |-> there]
    <2>1. geoLook[g].pc = "store" /\ geoLook[g].score \in Answer
      BY <1>2, <1>5 DEF GeoMerge, GeoLook, NoLook
    <2>2. there \in BOOLEAN
      OBVIOUS
    <2>3. Looks(g, l)
      BY <1>5 DEF GeoMerge
    <2> HIDE DEF there
    <2>4. l \in GeoLook /\ l.pc = "flush"
      BY <2>1, <2>2 DEF GeoLook
    <2> HIDE DEF l
    <2> QED
      BY <1>5, <2>1, <2>3, <2>4, LookGoesOn DEF GeoMerge
  <1>6. ASSUME NEW g \in Geos, GeoUpsert(g)
        PROVE  GeoInv'
    <2> DEFINE s == IF geoLook[g].score = NoScore /\ geoRow # None
                    THEN CHOOSE x \in geoRow : TRUE ELSE geoLook[g].score
    <2>1. geoLook[g].pc = "store" /\ geoLook[g].score \in Answer
      BY <1>2, <1>6 DEF GeoUpsert, GeoLook, NoLook
    <2>2. s \in Answer /\ WriteRow(s)
      BY <1>2, <1>6, <2>1 DEF GeoUpsert
    <2> HIDE DEF s
    <2> QED
      BY <1>6, <2>1, <2>2, RowWritten DEF GeoUpsert
  <1>7. ASSUME NEW g \in Geos, GeoCommit(g)
        PROVE  GeoInv'
    <2>1. geoLook[g].pc = "flush" /\ geoLook[g].score \in Answer
      BY <1>2, <1>7 DEF GeoCommit, GeoLook, NoLook
    <2> QED
      BY <1>7, <2>1, RowWritten DEF GeoCommit
  <1> QED
    BY <1>1, <1>3, <1>4, <1>5, <1>6, <1>7, GeoFetchKeeps, UpsertFailsKeeps DEF GeoStep

(* An address is fetched again only by lookups that overlap or after a row *)
(* could not be written, and a score gives way to none only if two lookups *)
(* fetched it: whatever the receivers and backends do beside each other.   *)
THEOREM AddressesPaidOnce == GeoSpec => []PaidOnce
  <1>1. GeoInv => PaidOnce
    BY DEF GeoInv
  <1> QED
    BY <1>1, GeoStart, GeoNext, PTL DEF GeoSpec

----------------------------------------------------------------------------
(* Proofs: the collectors                                                  *)

USE DEF NoCycle, Never

\* The least number of a set, and the greatest up to a bound.
LEMMA LeastOf ==
    ASSUME NEW T, T \subseteq Nat, T # {}
    PROVE  \E m \in T : \A k \in T : m <= k
  <1>1. PICK m \in T : \A k \in T : ~(<<k, m>> \in OpToRel(<, Nat))
    BY NatLessThanWellFounded, WFMin, Zenon
  <1>2. \A k \in T : k \in Nat /\ m \in Nat
    OBVIOUS
  <1>3. \A k \in T : ~(k < m)
    BY <1>1, <1>2, Zenon DEF OpToRel
  <1> QED
    BY <1>2, <1>3

LEMMA GreatestOf ==
    ASSUME NEW n \in Int, NEW S, S \subseteq Int, S # {}, \A x \in S : x <= n
    PROVE  Max(S) \in S /\ \A x \in S : x <= Max(S)
  <1>1. \E x \in S : \A y \in S : x >= y
    <2>1. PICK x \in S : TRUE
      OBVIOUS
    <2> DEFINE T == {m \in Nat : n - m \in S}
    <2>2. T \subseteq Nat
      OBVIOUS
    <2>3. ASSUME NEW y \in S
          PROVE  n - y \in T
      <3>1. y \in Int /\ n - y \in Nat /\ n - (n - y) = y
        OBVIOUS
      <3> QED
        BY <3>1
    <2>4. \A m \in T : n - m \in S /\ m \in Nat
      OBVIOUS
    <2> HIDE DEF T
    <2>5. PICK m \in T : \A k \in T : m <= k
      BY <2>1, <2>2, <2>3, LeastOf
    <2>6. n - m \in S /\ m \in Nat
      BY <2>4
    <2>7. ASSUME NEW y \in S
          PROVE  n - m >= y
      <3>1. m <= n - y /\ y \in Int
        BY <2>3, <2>5
      <3> QED
        BY <2>6, <3>1
    <2> QED
      BY <2>6, <2>7
  <1>2. \A x \in S : x \in Int
    OBVIOUS
  <1>3. Max(S) \in S /\ \A y \in S : Max(S) >= y
    BY <1>1 DEF Max
  <1> QED
    BY <1>2, <1>3

\* The rows that move a cursor.
CursorRows(who, rows) == rows \cap IF who = "central" THEN AlertItems \cup EventItems ELSE LoginItems

Dates(who, rows, raised, other) ==
    {raised[x] : x \in CursorRows(who, rows)} \cup {IF who = "central" THEN other ELSE Never}

LEMMA NewestIs ==
    ASSUME CollectTyped, NEW who
    PROVE  /\ Newest(who) = Max(Dates(who, kept, shown, foreign))
           /\ Newest(who) \in Dates(who, kept, shown, foreign)
           /\ \A t \in Dates(who, kept, shown, foreign) : t <= Newest(who)
           /\ Dates(who, kept, shown, foreign) \subseteq Never..minute
           /\ Newest(who) \in Int /\ Newest(who) <= minute
  <1> DEFINE D == Dates(who, kept, shown, foreign)
  <1>1. minute \in Nat /\ foreign \in Never..minute /\ shown \in [Items -> Never..minute] /\ kept \subseteq Items
    BY DEF CollectTyped
  <1>2. CursorRows(who, kept) \subseteq Items
    BY <1>1 DEF CursorRows
  <1>3. D \subseteq Never..minute
    BY <1>1, <1>2 DEF Dates
  <1>4. D # {}
    BY DEF Dates
  <1>5. Newest(who) = Max(D)
    BY DEF Newest, Dates, CursorRows
  <1> HIDE DEF D
  <1>6. D \subseteq Int /\ (\A x \in D : x <= minute) /\ minute \in Int
    BY <1>1, <1>3
  <1>7. Max(D) \in D /\ \A x \in D : x <= Max(D)
    BY <1>4, <1>6, GreatestOf
  <1> QED
    BY <1>3, <1>5, <1>6, <1>7 DEF D

OverlapFor(who) == IF who = "central" THEN CentralOverlap ELSE LoginOverlap

Collecting == {"central", "logins"}

LEMMA FromIs ==
    ASSUME CollectTyped, NEW who \in Collecting
    PROVE  /\ FromDate(who) = IF Newest(who) = Never THEN Never ELSE Newest(who) - OverlapFor(who)
           /\ OverlapFor(who) \in Nat /\ LagFor(who) \in Nat /\ CycleTime \in Nat
           /\ LagFor(who) + CycleTime <= OverlapFor(who)
           /\ Newest(who) \in Int /\ Newest(who) <= minute /\ FromDate(who) \in Int
           /\ \A x \in ItemsOf(who) : LagOf(x) = LagFor(who)
           /\ minute \in Nat /\ \A x \in Items : shown[x] \in Int /\ shown[x] <= minute
  <1>1. FromDate(who) = IF Newest(who) = Never THEN Never ELSE Newest(who) - OverlapFor(who)
    BY DEF FromDate, OverlapFor
  <1>2. /\ OverlapFor(who) \in Nat /\ LagFor(who) \in Nat /\ CycleTime \in Nat
        /\ LagFor(who) + CycleTime <= OverlapFor(who)
    BY CollectorsAssumption DEF OverlapFor, LagFor, Collecting
  <1>3. Newest(who) \in Int /\ Newest(who) <= minute
    BY NewestIs
  <1>4. \A x \in ItemsOf(who) : LagOf(x) = LagFor(who)
    BY DEF ItemsOf, LagOf, LagFor, Collecting
  <1>5. minute \in Nat /\ shown \in [Items -> Never..minute]
    BY DEF CollectTyped
  <1> QED
    BY <1>1, <1>2, <1>3, <1>4, <1>5

\* What the locals of a cycle wait for, of an item raised at a time.
Awaits(w, x, at) ==
    /\ w # NoCycle /\ at >= w.from
    /\ \/ \E k \in 2..Len(w.todo) : x \in w.todo[k]
       \/ w.pc = "fetch" /\ x \in Head(w.todo)
       \/ w.pc # "fetch" /\ x \in w.batch

LEMMA AwaitedIs ==
    ASSUME NEW who
    PROVE  Awaited(who) = {x \in Items : \E c \in Cycles : WhoIs(c) = who /\ Awaits(cycle[c], x, shown[x])}
  BY DEF Awaited, Awaits

LEMMA CollectorOf ==
    ASSUME NEW c
    PROVE  WhoIs(c) \in Collecting /\ ItemsOf(WhoIs(c)) \subseteq Items /\ Out(WhoIs(c), shown) \subseteq ItemsOf(WhoIs(c))
  BY DEF WhoIs, Collecting, ItemsOf, Items, Out

(* What is stored or awaited stays so when a cycle moves on to w.          *)
LEMMA StaysCovered ==
    ASSUME CollectTyped, NEW c \in Cycles, NEW w, cycle' = [cycle EXCEPT ![c] = w],
           shown' = shown, kept \subseteq kept', NEW who, NEW x \in Items, x \in kept \cup Awaited(who),
           shown[x] # Never,
           WhoIs(c) = who => (Awaits(cycle[c], x, shown[x]) => x \in kept' \/ Awaits(w, x, shown[x]))
    PROVE  x \in kept' \cup Awaited(who)'
  <1>1. cycle'[c] = w /\ \A d \in Cycles \ {c} : cycle'[d] = cycle[d]
    BY DEF CollectTyped
  <1>2. Awaited(who)' = {y \in Items : \E d \in Cycles : WhoIs(d) = who /\ Awaits(cycle'[d], y, shown'[y])}
    BY DEF Awaited, Awaits
  <1>3. CASE x \in kept
    BY <1>3
  <1>4. CASE x \in Awaited(who)
    <2>1. PICK d \in Cycles : WhoIs(d) = who /\ Awaits(cycle[d], x, shown[x])
      BY <1>4, AwaitedIs
    <2> QED
      BY <1>1, <1>2, <2>1
  <1> QED
    BY <1>3, <1>4

CursorsRight ==
    \A who \in Collecting :
      /\ FromDate(who) = IF Newest(who) = Never THEN Never ELSE Newest(who) - OverlapFor(who)
      /\ Newest(who) \in Dates(who, kept, shown, foreign)
      /\ \A t \in Dates(who, kept, shown, foreign) : t <= Newest(who)
      /\ Newest(who) \in Int /\ FromDate(who) \in Int

LEMMA CursorsAreRight == CollectTyped => CursorsRight
  BY NewestIs, FromIs DEF CursorsRight

LEMMA CursorsRightNext == CollectTyped' => CursorsRight'
  BY CursorsAreRight, PTL

(* A cursor moves only with a row of its own, and never past now.          *)
LEMMA CursorMoves ==
    ASSUME CollectTyped, CollectTyped', shown' = shown, minute' = minute, kept \subseteq kept',
           NEW who \in Collecting, foreign' = foreign \/ who # "central",
           FromDate(who)' > FromDate(who)
    PROVE  /\ FromDate(who)' <= minute - OverlapFor(who)
           /\ \E y \in kept' \ kept : y \in CursorRows(who, kept')
  <1>1. /\ FromDate(who)' = IF Newest(who)' = Never THEN Never ELSE Newest(who)' - OverlapFor(who)
        /\ Newest(who)' \in Dates(who, kept', shown', foreign') /\ Newest(who)' \in Int
    BY CursorsRightNext DEF CursorsRight, OverlapFor
  <1>2. /\ FromDate(who) = IF Newest(who) = Never THEN Never ELSE Newest(who) - OverlapFor(who)
        /\ Newest(who) \in Int /\ \A t \in Dates(who, kept, shown, foreign) : t <= Newest(who)
        /\ Dates(who, kept, shown, foreign) \subseteq Never..minute
    BY CursorsAreRight, NewestIs DEF CursorsRight
  <1>3. OverlapFor(who) \in Nat /\ minute \in Nat /\ \A x \in Items : shown[x] \in Int /\ shown[x] <= minute
    BY FromIs
  <1>4. Newest(who)' # Never /\ Newest(who)' \notin Dates(who, kept, shown, foreign)
    <2>1. CASE Newest(who)' = Never
      <3>1. Newest(who) \in Dates(who, kept, shown, foreign)
        BY NewestIs
      <3>2. Newest(who) \in Dates(who, kept', shown', foreign')
        BY <3>1 DEF Dates, CursorRows
      <3>3. Newest(who) <= Never /\ Newest(who) >= Never
        BY <1>2, <2>1, <3>1, <3>2, CursorsRightNext DEF CursorsRight
      <3> QED
        BY <1>1, <1>2, <2>1, <3>3
    <2>2. CASE Newest(who)' # Never /\ Newest(who)' \in Dates(who, kept, shown, foreign)
      <3>1. Newest(who)' <= Newest(who) /\ Newest(who)' > Never
        BY <1>1, <1>2, <1>3, <2>2
      <3> QED
        BY <1>1, <1>2, <1>3, <3>1
    <2> QED
      BY <2>1, <2>2
  <1>5. PICK y \in CursorRows(who, kept') : Newest(who)' = shown[y]
    BY <1>1, <1>4 DEF Dates
  <1>6. y \notin CursorRows(who, kept)
    BY <1>4, <1>5 DEF Dates
  <1>7. y \in kept' \ kept
    BY <1>5, <1>6 DEF CursorRows
  <1>8. y \in Items
    BY <1>5 DEF CursorRows, Items
  <1> QED
    BY <1>1, <1>3, <1>4, <1>5, <1>7, <1>8

(* A cycle goes on to w, or begins, and loses nothing it waits for.        *)
LEMMA CycleMoves ==
    ASSUME CollectInv, NEW c \in Cycles, NEW w \in Work(WhoIs(c), shown),
           cycle' = [cycle EXCEPT ![c] = w], UNCHANGED <<shown, minute>>,
           kept \subseteq kept', kept' \subseteq {x \in Items : shown[x] # Never},
           kept' \ kept \subseteq ItemsOf(WhoIs(c)), kept' = kept \/ cycle[c] # NoCycle,
           cut \subseteq cut', foreign' \in Never..minute, foreign' = foreign \/ "central" \in cut',
           w # NoCycle => w.began <= minute /\ minute <= w.began + CycleTime,
           WhoIs(c) \notin cut' => \A x \in ItemsOf(WhoIs(c)) :
             shown[x] # Never /\ Awaits(cycle[c], x, shown[x]) => x \in kept' \/ Awaits(w, x, shown[x]),
           w # NoCycle /\ WhoIs(c) \notin cut' =>
             \/ cycle[c] # NoCycle /\ w.began = cycle[c].began
             \/ \A x \in ItemsOf(WhoIs(c)) :
                  shown[x] # Never /\ shown[x] >= FromDate(WhoIs(c)) => Awaits(w, x, shown[x])
    PROVE  CollectInv'
  <1>1. CollectTyped /\ NoGap
    BY DEF CollectInv
  <1>2. cycle'[c] = w /\ DOMAIN cycle' = Cycles /\ \A d \in Cycles \ {c} : cycle'[d] = cycle[d]
    BY <1>1 DEF CollectTyped
  <1>3. CollectTyped'
    BY <1>1, <1>2 DEF CollectTyped
  <1>4. ASSUME NEW who \in Collecting \ cut', NEW x \in ItemsOf(who), x \in kept \cup Awaited(who),
               shown[x] # Never
        PROVE  x \in kept' \cup Awaited(who)'
    <2>1. x \in Items
      BY DEF ItemsOf, Items
    <2> QED
      BY <1>1, <1>4, <2>1, StaysCovered
  <1>5. ASSUME NEW d \in Cycles, cycle[d] # NoCycle
        PROVE  /\ cycle[d].began \in Nat /\ cycle[d].began <= minute
               /\ minute <= cycle[d].began + CycleTime
    <2>1. cycle[d] \in Work(WhoIs(d), shown)
      BY <1>1 DEF CollectTyped
    <2>2. cycle[d].began \in Nat
      BY <1>5, <2>1 DEF Work, FetchWork, StoreWork
    <2> QED
      BY <1>1, <1>5, <2>2 DEF CollectTyped
  <1>6. ASSUME NEW who \in Collecting \ cut', NEW x \in ItemsOf(who),
               shown[x] # Never, shown[x] < FromDate(who)'
        PROVE  x \in kept' \cup Awaited(who)'
    <2>1. x \in Items /\ who \in Collecting \ cut /\ (foreign' = foreign \/ who # "central")
      BY DEF ItemsOf, Items
    <2>2. FromDate(who) \in Int /\ shown[x] \in Int /\ minute \in Nat /\ OverlapFor(who) \in Nat
          /\ LagFor(who) \in Nat /\ CycleTime \in Nat /\ LagFor(who) + CycleTime <= OverlapFor(who)
      BY <1>1, <2>1, FromIs
    <2>3. FromDate(who)' \in Int
      BY <1>3, CursorsRightNext DEF CursorsRight
    <2>4. CASE FromDate(who)' <= FromDate(who)
      <3>1. shown[x] < FromDate(who)
        BY <1>6, <2>2, <2>3, <2>4
      <3>2. x \in kept \cup Awaited(who)
        BY <1>1, <1>6, <2>1, <3>1 DEF NoGap, Collecting
      <3> QED
        BY <1>4, <1>6, <3>2
    <2>5. CASE FromDate(who)' > FromDate(who)
      <3>1. /\ FromDate(who)' <= minute - OverlapFor(who)
            /\ \E y \in kept' \ kept : y \in CursorRows(who, kept')
        BY <1>1, <1>3, <2>1, <2>5, CursorMoves
      <3>2. WhoIs(c) = who /\ cycle[c] # NoCycle
        <4>1. PICK y \in kept' \ kept : y \in CursorRows(who, kept')
          BY <3>1
        <4>2. y \in ItemsOf(WhoIs(c)) /\ WhoIs(c) \in Collecting
          BY CollectorOf
        <4> QED
          BY <4>1, <4>2, CollectorsAssumption DEF CursorRows, ItemsOf, Collecting
      <3>3. /\ cycle[c].began \in Nat /\ minute <= cycle[c].began + CycleTime
        BY <1>5, <3>2
      <3>4. shown[x] < cycle[c].began - LagFor(who)
        BY <1>6, <2>2, <2>3, <3>1, <3>3
      <3>5. x \in kept \cup Awaited(who)
        BY <1>6, <2>1, <3>2, <3>4 DEF CollectInv, BehindCovered
      <3> QED
        BY <1>4, <1>6, <3>5
    <2> QED
      BY <2>2, <2>3, <2>4, <2>5
  <1>7. NoGap'
    <2> SUFFICES ASSUME NEW who \in {"central", "logins"} \ cut', NEW x \in ItemsOf(who),
                        shown'[x] # Never, shown'[x] < FromDate(who)'
                 PROVE  x \in kept' \cup Awaited(who)'
      BY DEF NoGap
    <2> QED
      BY <1>6 DEF Collecting
  <1>8. ASSUME NEW d \in Cycles, cycle'[d] # NoCycle, WhoIs(d) \notin cut',
               NEW x \in ItemsOf(WhoIs(d)), shown[x] # Never,
               shown[x] < cycle'[d].began - LagFor(WhoIs(d))
        PROVE  x \in kept' \cup Awaited(WhoIs(d))'
    <2>1. WhoIs(d) \in Collecting \ cut' /\ x \in Items
      BY <1>8, CollectorOf
    <2>2. CASE cycle[d] # NoCycle /\ cycle'[d].began = cycle[d].began
      <3>1. x \in kept \cup Awaited(WhoIs(d))
        BY <1>8, <2>2 DEF CollectInv, BehindCovered
      <3> QED
        BY <1>4, <1>8, <2>1, <3>1
    <2>3. CASE ~(cycle[d] # NoCycle /\ cycle'[d].began = cycle[d].began)
      <3>1. d = c /\ w # NoCycle
        BY <1>2, <1>8, <2>3
      <3>2. CASE shown[x] < FromDate(WhoIs(c))
        <4>1. x \in kept \cup Awaited(WhoIs(c))
          BY <1>1, <1>8, <2>1, <3>1, <3>2 DEF NoGap, Collecting
        <4> QED
          BY <1>4, <1>8, <2>1, <3>1, <4>1
      <3>3. CASE shown[x] >= FromDate(WhoIs(c))
        <4>1. Awaits(w, x, shown[x])
          BY <1>2, <1>8, <2>3, <3>1, <3>3
        <4>2. Awaited(WhoIs(c))' =
                {y \in Items : \E e \in Cycles : WhoIs(e) = WhoIs(c) /\ Awaits(cycle'[e], y, shown'[y])}
          BY DEF Awaited, Awaits
        <4> QED
          BY <1>2, <2>1, <3>1, <4>1, <4>2
      <3>4. shown[x] \in Int /\ FromDate(WhoIs(c)) \in Int
        BY <1>1, <2>1, <3>1, FromIs
      <3> QED
        BY <3>2, <3>3, <3>4
    <2> QED
      BY <2>2, <2>3
  <1>9. ASSUME NEW d \in Cycles, cycle'[d] # NoCycle, WhoIs(d) \notin cut'
        PROVE  BehindCovered(WhoIs(d), cycle[d].began)'
    <2> SUFFICES ASSUME NEW x \in ItemsOf(WhoIs(d)), shown'[x] # Never,
                        shown'[x] < cycle'[d].began - LagFor(WhoIs(d))
                 PROVE  x \in kept' \cup Awaited(WhoIs(d))'
      BY DEF BehindCovered
    <2> QED
      BY <1>8, <1>9
  <1> QED
    BY <1>3, <1>7, <1>9 DEF CollectInv

LEMMA TailIs ==
    ASSUME NEW S, NEW s \in Seq(S) \ {<<>>}
    PROVE  /\ Tail(s) \in Seq(S) /\ Len(s) \in Nat \ {0} /\ Len(Tail(s)) = Len(s) - 1
           /\ \A i \in 1..Len(s) - 1 : Tail(s)[i] = s[i + 1]
           /\ Tail(s) = <<>> <=> Len(s) = 1
           /\ Head(s) = s[1] /\ Tail(s) # <<>> => Head(Tail(s)) = s[2]
  <1>1. Tail(s) \in Seq(S) /\ Len(Tail(s)) = Len(s) - 1
        /\ \A i \in 1..Len(Tail(s)) : Tail(s)[i] = s[i + 1]
    BY HeadTailProperties
  <1>2. Len(s) \in Nat \ {0}
    BY <1>1, EmptySeq, LenProperties
  <1>3. Tail(s) = <<>> <=> Len(Tail(s)) = 0
    BY <1>1, EmptySeq
  <1> DEFINE t == Tail(s)
  <1>4. Head(s) = s[1]
    BY <1>2
  <1>5. t # <<>> => Head(t) = t[1]
    BY <1>1
  <1> HIDE DEF t
  <1>6. t # <<>> => 1 \in 1..Len(s) - 1
    BY <1>1, <1>2, <1>3 DEF t
  <1> QED
    BY <1>1, <1>2, <1>3, <1>4, <1>5, <1>6 DEF t

(* The shape of the locals of a cycle.                                     *)
LEMMA CycleIs ==
    ASSUME CollectInv, NEW c \in Cycles, cycle[c].pc # "idle"
    PROVE  /\ cycle[c] # NoCycle /\ cycle[c] \in Work(WhoIs(c), shown)
           /\ cycle[c].todo \in Seq(SUBSET ItemsOf(WhoIs(c))) \ {<<>>}
           /\ cycle[c].began \in Nat /\ cycle[c].from \in Int
           /\ cycle[c].began <= minute /\ minute <= cycle[c].began + CycleTime
           /\ cycle[c].pc \in {"fetch", "check", "commit"}
           /\ cycle[c].pc = "fetch" => cycle[c] \in FetchWork(WhoIs(c))
           /\ cycle[c].pc # "fetch" =>
                cycle[c] \in StoreWork(WhoIs(c), shown) /\ cycle[c].batch \in SUBSET Out(WhoIs(c), shown)
  <1>1. cycle[c] # NoCycle /\ cycle[c] \in Work(WhoIs(c), shown)
        /\ cycle[c].began <= minute /\ minute <= cycle[c].began + CycleTime
    BY DEF CollectInv, CollectTyped
  <1> QED
    BY <1>1 DEF Work, FetchWork, StoreWork

LEMMA OnwardIs ==
    ASSUME CollectInv, NEW c \in Cycles, cycle[c].pc # "idle"
    PROVE  /\ Onward(c) \in Work(WhoIs(c), shown)
           /\ Onward(c) # NoCycle => Onward(c).began = cycle[c].began
           /\ \A x, at : cycle[c].pc # "fetch" /\ x \notin cycle[c].batch /\ Awaits(cycle[c], x, at)
                => Awaits(Onward(c), x, at)
  <1> DEFINE v == cycle[c]
             S == SUBSET ItemsOf(WhoIs(c))
             w == [pc |-> "fetch", todo |-> Tail(v.todo), began |-> v.began, from |-> v.from]
  <1>1. v.todo \in Seq(S) \ {<<>>} /\ v.began \in Nat /\ v.from \in Int
    BY CycleIs
  <1>2. /\ Tail(v.todo) \in Seq(S) /\ Len(v.todo) \in Nat \ {0} /\ Len(Tail(v.todo)) = Len(v.todo) - 1
        /\ \A i \in 1..Len(v.todo) - 1 : Tail(v.todo)[i] = v.todo[i + 1]
        /\ Tail(v.todo) = <<>> <=> Len(v.todo) = 1
        /\ Tail(v.todo) # <<>> => Head(Tail(v.todo)) = v.todo[2]
    BY <1>1, TailIs
  <1>3. Onward(c) = IF Len(v.todo) = 1 THEN NoCycle ELSE w
    BY DEF Onward
  <1>4. Onward(c) = NoCycle \/ (Onward(c) \in FetchWork(WhoIs(c)) /\ Onward(c).began = v.began)
    <2>1. CASE Len(v.todo) = 1
      BY <1>3, <2>1
    <2>2. CASE Len(v.todo) # 1
      <3>1. Onward(c) = w /\ Tail(v.todo) \in Seq(S) \ {<<>>}
        BY <1>2, <1>3, <2>2
      <3> DEFINE rest == Tail(v.todo)
      <3>2. rest \in Seq(S) \ {<<>>} /\ w = [pc |-> "fetch", todo |-> rest, began |-> v.began, from |-> v.from]
        BY <3>1
      <3> HIDE DEF rest, w
      <3> QED
        BY <1>1, <3>1, <3>2 DEF FetchWork
    <2> QED
      BY <2>1, <2>2
  <1>5. ASSUME NEW x, NEW at, v.pc # "fetch", x \notin v.batch, Awaits(v, x, at)
        PROVE  Awaits(Onward(c), x, at)
    <2>1. PICK k \in 2..Len(v.todo) : x \in v.todo[k]
      BY <1>5 DEF Awaits
    <2>2. Onward(c) = w /\ at >= v.from /\ Tail(v.todo) # <<>>
      BY <1>2, <1>3, <1>5, <2>1 DEF Awaits
    <2>3. CASE k = 2
      BY <1>2, <2>1, <2>2, <2>3 DEF Awaits
    <2>4. CASE k # 2
      <3>1. k - 1 \in 2..Len(Tail(v.todo)) /\ Tail(v.todo)[k - 1] = v.todo[k]
        BY <1>2, <2>1, <2>4
      <3>2. w.todo = Tail(v.todo) /\ w.from = v.from /\ w # NoCycle
        OBVIOUS
      <3> HIDE DEF w
      <3> QED
        BY <2>1, <2>2, <3>1, <3>2 DEF Awaits
    <2> QED
      BY <2>3, <2>4
  <1>6. Onward(c) \in Work(WhoIs(c), shown)
    BY <1>4 DEF Work
  <1> QED
    BY <1>4, <1>5, <1>6

LEMMA FetchedKeeps == ASSUME CollectInv, NEW c \in Cycles, Fetched(c) PROVE CollectInv'
  <1> DEFINE v == cycle[c]
             found == {x \in Head(v.todo) : shown[x] # Never /\ shown[x] >= v.from}
             w == [pc |-> "check", todo |-> v.todo, began |-> v.began, from |-> v.from, batch |-> found]
  <1>1. v.pc = "fetch" /\ cycle' = [cycle EXCEPT ![c] = w]
        /\ UNCHANGED <<shown, kept, foreign, cut, minute>>
    BY DEF Fetched, CollectInv, CollectTyped
  <1>2. /\ v # NoCycle /\ v.todo \in Seq(SUBSET ItemsOf(WhoIs(c))) \ {<<>>}
        /\ v.began \in Nat /\ v.from \in Int /\ v.began <= minute /\ minute <= v.began + CycleTime
    BY <1>1, CycleIs
  <1>3. found \in SUBSET Out(WhoIs(c), shown)
    <2>1. Head(v.todo) = v.todo[1] /\ Len(v.todo) \in Nat \ {0}
      BY <1>2, TailIs
    <2>2. v.todo[1] \in SUBSET ItemsOf(WhoIs(c))
      BY <1>2, <2>1
    <2> QED
      BY <2>1, <2>2 DEF Out
  <1>4. \A x \in ItemsOf(WhoIs(c)) : shown[x] # Never /\ Awaits(v, x, shown[x]) => Awaits(w, x, shown[x])
    BY <1>1 DEF Awaits
  <1>5. w \in Work(WhoIs(c), shown) /\ w # NoCycle /\ w.began = v.began
    BY <1>2, <1>3 DEF Work, StoreWork
  <1>6. kept \subseteq {x \in Items : shown[x] # Never} /\ foreign \in Never..minute
    BY DEF CollectInv, CollectTyped
  <1> HIDE DEF w, found
  <1> QED
    BY <1>1, <1>2, <1>4, <1>5, <1>6, CycleMoves

LEMMA KeptIs ==
    ASSUME CollectInv
    PROVE  /\ kept \subseteq {x \in Items : shown[x] # Never} /\ foreign \in Never..minute
           /\ minute \in Nat /\ shown \in [Items -> Never..minute]
  BY DEF CollectInv, CollectTyped

LEMMA CycleStartKeeps == ASSUME CollectInv, NEW c \in Cycles, CycleStart(c) PROVE CollectInv'
  <1> DEFINE who == WhoIs(c)
             since == IF Clamped(who) THEN minute - LoginReach ELSE FromDate(who)
             w == [pc |-> "fetch", todo |-> Plan(c), began |-> minute, from |-> since]
  <1>1. /\ cycle[c] = NoCycle /\ cycle' = [cycle EXCEPT ![c] = w]
        /\ cut' = IF Clamped(who) THEN cut \cup {who} ELSE cut
        /\ UNCHANGED <<shown, kept, foreign, minute>>
    BY DEF CycleStart
  <1>2. who \in Collecting /\ minute \in Nat
    BY CollectorOf, KeptIs
  <1>3. FromDate(who) \in Int /\ LoginReach \in Nat /\ CycleTime \in Nat
    BY <1>2, FromIs, CollectorsAssumption DEF CollectInv
  <1>4. Plan(c) \in Seq(SUBSET ItemsOf(who)) \ {<<>>}
    BY CollectorsAssumption DEF Plan, ItemsOf, Items, WhoIs
  <1>5. w \in Work(who, shown) /\ w # NoCycle /\ w.began = minute
    BY <1>2, <1>3, <1>4 DEF Work, FetchWork
  <1>6. ASSUME who \notin cut', NEW x \in ItemsOf(who), shown[x] >= FromDate(who)
        PROVE  Awaits(w, x, shown[x])
    <2>1. w.from = FromDate(who)
      BY <1>1, <1>6
    <2>2. x \in Head(w.todo) \/ \E k \in 2..Len(w.todo) : x \in w.todo[k]
      <3>1. CASE c \in CentralCycles
        <4>1. w.todo = <<AlertItems, EventItems, DetectionItems>>
              /\ x \in AlertItems \cup EventItems \cup DetectionItems
          BY <3>1 DEF Plan, WhoIs, ItemsOf, Items
        <4>2. Len(w.todo) = 3 /\ Head(w.todo) = AlertItems /\ w.todo[2] = EventItems
              /\ w.todo[3] = DetectionItems
          BY <4>1
        <4> QED
          BY <4>1, <4>2
      <3>2. CASE c \notin CentralCycles
        BY <1>6, <3>2 DEF Plan, WhoIs, ItemsOf
      <3> QED
        BY <3>1, <3>2
    <2> QED
      BY <1>6, <2>1, <2>2 DEF Awaits
  <1>7. \A x, at : ~Awaits(cycle[c], x, at)
    BY <1>1 DEF Awaits
  <1>8. minute <= minute /\ minute <= minute + CycleTime
    BY <1>2, <1>3
  <1> HIDE DEF w, who, since
  <1> QED
    BY <1>1, <1>2, <1>3, <1>5, <1>6, <1>7, <1>8, KeptIs, CycleMoves DEF who

LEMMA FetchFailsKeeps == ASSUME CollectInv, NEW c \in Cycles, FetchFails(c) PROVE CollectInv'
  <1>1. cycle[c].pc = "fetch" /\ cut' = cut \cup {WhoIs(c)}
        /\ cycle' = [cycle EXCEPT ![c] = Onward(c)] /\ UNCHANGED <<shown, kept, foreign, minute>>
    BY DEF FetchFails
  <1>2. /\ Onward(c) \in Work(WhoIs(c), shown) /\ cycle[c] # NoCycle
        /\ Onward(c) # NoCycle => Onward(c).began = cycle[c].began
        /\ cycle[c].began <= minute /\ minute <= cycle[c].began + CycleTime
    BY <1>1, OnwardIs, CycleIs
  <1> QED
    BY <1>1, <1>2, KeptIs, CycleMoves

(* What a cycle loses by going on to store only some rows.                 *)
LEMMA StoringIs ==
    ASSUME CollectInv, NEW c \in Cycles, cycle[c].pc \in {"check", "commit"},
           NEW rows, rows \subseteq cycle[c].batch
    PROVE  /\ Storing(c, rows) \in Work(WhoIs(c), shown)
           /\ Storing(c, rows) # NoCycle => Storing(c, rows).began = cycle[c].began
           /\ \A x, at : (x \notin cycle[c].batch \/ x \in rows) /\ Awaits(cycle[c], x, at)
                => Awaits(Storing(c, rows), x, at)
  <1> DEFINE v == cycle[c]
             w == Storing(c, rows)
  <1>1. /\ v # NoCycle /\ v \in StoreWork(WhoIs(c), shown) /\ v.batch \in SUBSET Out(WhoIs(c), shown)
        /\ v.todo \in Seq(SUBSET ItemsOf(WhoIs(c))) \ {<<>>} /\ v.began \in Nat /\ v.from \in Int
    BY CycleIs
  <1>2. CASE rows = {}
    <2>1. w = Onward(c)
      BY <1>2 DEF Storing
    <2> HIDE DEF w
    <2> QED
      BY <1>2, <2>1, OnwardIs DEF w
  <1>3. CASE rows # {}
    <2>1. w = [pc |-> "commit", todo |-> v.todo, began |-> v.began, from |-> v.from, batch |-> rows]
      BY <1>3 DEF Storing
    <2> HIDE DEF w
    <2>2. w \in StoreWork(WhoIs(c), shown) /\ w # NoCycle /\ w.began = v.began
      BY <1>1, <2>1 DEF StoreWork
    <2>3. ASSUME NEW x, NEW at, x \notin v.batch \/ x \in rows, Awaits(v, x, at)
          PROVE  Awaits(w, x, at)
      BY <2>1, <2>3 DEF Awaits
    <2> QED
      BY <2>2, <2>3 DEF Work, w
  <1> QED
    BY <1>2, <1>3

LEMMA CheckedKeeps == ASSUME CollectInv, NEW c \in Cycles, Checked(c) PROVE CollectInv'
  <1> DEFINE v == cycle[c]
             w == Storing(c, v.batch \ kept)
  <1>1. /\ v.pc = "check" /\ UNCHANGED <<shown, kept, foreign, cut, minute>>
        /\ cycle' = [cycle EXCEPT ![c] = w]
    BY DEF Checked
  <1>2. v # NoCycle /\ v.began <= minute /\ minute <= v.began + CycleTime
    BY <1>1, CycleIs
  <1>3. /\ w \in Work(WhoIs(c), shown) /\ (w # NoCycle => w.began = v.began)
        /\ \A x, at : Awaits(v, x, at) => x \in kept \/ Awaits(w, x, at)
    BY <1>1, StoringIs
  <1> HIDE DEF w
  <1> QED
    BY <1>1, <1>2, <1>3, KeptIs, CycleMoves

LEMMA CommittedKeeps == ASSUME CollectInv, NEW c \in Cycles, Committed(c) PROVE CollectInv'
  <1> DEFINE v == cycle[c]
  <1>1. PICK rows \in SUBSET v.batch :
          /\ rows # {} /\ kept' = kept \cup rows
          /\ cycle' = [cycle EXCEPT ![c] = Storing(c, v.batch \ rows)]
          /\ Stirs(c, rows)
    BY DEF Committed
  <1> DEFINE w == Storing(c, v.batch \ rows)
  <1>2. v.pc = "commit" /\ UNCHANGED <<shown, minute>>
    BY DEF Committed
  <1>4. cycle' = [cycle EXCEPT ![c] = w]
    BY <1>1
  <1>5. /\ v # NoCycle /\ v.batch \in SUBSET Out(WhoIs(c), shown)
        /\ v.began <= minute /\ minute <= v.began + CycleTime
    BY <1>2, CycleIs
  <1>6. /\ w \in Work(WhoIs(c), shown) /\ (w # NoCycle => w.began = v.began)
        /\ \A x, at : Awaits(v, x, at) => x \in kept' \/ Awaits(w, x, at)
    BY <1>1, <1>2, StoringIs
  <1> HIDE DEF w
  <1>7. rows \subseteq ItemsOf(WhoIs(c)) /\ rows \subseteq {x \in Items : shown[x] # Never}
    BY <1>1, <1>5, CollectorOf DEF Out
  <1>8. kept' \subseteq {x \in Items : shown[x] # Never} /\ kept' \ kept \subseteq ItemsOf(WhoIs(c))
    BY <1>1, <1>7, KeptIs
  <1>9. foreign' \in Never..minute /\ cut \subseteq cut' /\ (foreign' = foreign \/ "central" \in cut')
    <2>1. CASE UNCHANGED <<foreign, cut>>
      BY <2>1, KeptIs
    <2>2. CASE foreign' = Max({shown[x] : x \in rows}) /\ cut' = cut \cup {"central"}
      <3> DEFINE S == {shown[x] : x \in rows}
      <3>1. S # {} /\ S \subseteq Never..minute /\ minute \in Nat
        BY <1>1, <1>7, KeptIs
      <3> HIDE DEF S
      <3>2. S \subseteq Int /\ (\A t \in S : t <= minute) /\ minute \in Int
        BY <3>1
      <3>3. Max(S) \in S
        BY <3>1, <3>2, GreatestOf
      <3> QED
        BY <2>2, <3>1, <3>3 DEF S
    <2> QED
      BY <1>1, <2>1, <2>2 DEF Stirs
  <1> QED
    BY <1>1, <1>2, <1>4, <1>5, <1>6, <1>8, <1>9, CycleMoves

LEMMA ConflictKeeps == ASSUME CollectInv, NEW c \in Cycles, CommitConflict(c) PROVE CollectInv'
  <1>1. cycle[c].pc = "commit" /\ cut' = cut \cup {WhoIs(c)}
        /\ cycle' = [cycle EXCEPT ![c] = NoCycle] /\ UNCHANGED <<shown, kept, foreign, minute>>
    BY DEF CommitConflict
  <1>2. NoCycle \in Work(WhoIs(c), shown)
    BY DEF Work
  <1> QED
    BY <1>1, <1>2, KeptIs, CycleMoves

LEMMA CyclesDieKeeps == ASSUME CollectInv, CyclesDie PROVE CollectInv'
  <1>1. /\ cut' = cut \cup {WhoIs(c) : c \in {d \in Cycles : cycle[d] # NoCycle}}
        /\ cycle' = [c \in Cycles |-> NoCycle] /\ UNCHANGED <<shown, kept, foreign, minute>>
    BY DEF CyclesDie
  <1>2. CollectTyped'
    BY <1>1 DEF CollectInv, CollectTyped, Work
  <1>3. NoGap'
    <2> SUFFICES ASSUME NEW who \in {"central", "logins"} \ cut', NEW x \in ItemsOf(who),
                        shown[x] # Never, shown[x] < FromDate(who)'
                 PROVE  x \in kept
      BY <1>1 DEF NoGap
    <2>1. FromDate(who)' = FromDate(who)
      BY <1>1 DEF FromDate, Newest
    <2>2. x \in kept \cup Awaited(who)
      BY <1>1, <2>1 DEF CollectInv, NoGap
    <2>3. \A c \in Cycles : WhoIs(c) = who => cycle[c] = NoCycle
      BY <1>1
    <2>4. x \notin Awaited(who)
      BY <2>3, AwaitedIs DEF Awaits
    <2> QED
      BY <2>2, <2>4
  <1> QED
    BY <1>1, <1>2, <1>3 DEF CollectInv

LEMMA TickKeeps == ASSUME CollectInv, CollectTick PROVE CollectInv'
  <1>1. /\ minute' = minute + 1 /\ UNCHANGED <<shown, kept, foreign, cycle, cut>>
        /\ \A c \in Cycles : cycle[c] # NoCycle => minute < cycle[c].began + CycleTime
    BY DEF CollectTick
  <1>2. CollectTyped'
    <2>1. minute \in Nat /\ Never..minute \subseteq Never..minute'
      BY <1>1, KeptIs
    <2>2. ASSUME NEW c \in Cycles, cycle[c] # NoCycle
          PROVE  cycle[c].began <= minute' /\ minute' <= cycle[c].began + CycleTime
      <3>1. cycle[c].pc # "idle"
        BY <2>2 DEF CollectInv, CollectTyped, Work, FetchWork, StoreWork
      <3>2. cycle[c].began \in Nat /\ cycle[c].began <= minute
        BY <3>1, CycleIs
      <3> QED
        BY <1>1, <2>1, <2>2, <3>2, CollectorsAssumption
    <2> QED
      BY <1>1, <2>1, <2>2 DEF CollectInv, CollectTyped
  <1>3. \A who : FromDate(who)' = FromDate(who) /\ Awaited(who)' = Awaited(who)
    BY <1>1 DEF FromDate, Newest, Awaited
  <1>4. NoGap'
    BY <1>1, <1>3 DEF CollectInv, NoGap
  <1>5. \A c \in Cycles : cycle'[c] # NoCycle /\ WhoIs(c) \notin cut' =>
          BehindCovered(WhoIs(c), cycle[c].began)'
    BY <1>1, <1>3 DEF CollectInv, BehindCovered
  <1> QED
    BY <1>2, <1>4, <1>5 DEF CollectInv

LEMMA CollectStart == CollectInit => CollectInv
  <1> SUFFICES ASSUME CollectInit
               PROVE  CollectInv
    OBVIOUS
  <1>1. /\ shown = [x \in Items |-> Never] /\ kept = {} /\ foreign = Never
        /\ cycle = [c \in Cycles |-> NoCycle] /\ minute = 0
    BY DEF CollectInit
  <1>2. CollectTyped
    BY <1>1 DEF CollectTyped, Work
  <1>3. NoGap
    BY <1>1 DEF NoGap, ItemsOf, Items
  <1> QED
    BY <1>1, <1>2, <1>3 DEF CollectInv

(* What appears is dated too late to be behind any cursor or beginning.    *)
LEMMA PublishedKeeps == ASSUME CollectInv, Published PROVE CollectInv'
  <1>1. PICK x \in Items : \E at \in (minute - LagOf(x))..minute :
          /\ shown[x] = Never /\ at >= 0
          /\ shown' = [shown EXCEPT ![x] = at]
    BY DEF Published
  <1>2. PICK at \in (minute - LagOf(x))..minute :
          /\ shown[x] = Never /\ at >= 0
          /\ shown' = [shown EXCEPT ![x] = at]
    BY <1>1
  <1>3. UNCHANGED <<kept, foreign, cycle, cut, minute>> /\ CollectTyped /\ NoGap
    BY DEF Published, CollectInv
  <1>4. LagOf(x) \in Nat /\ minute \in Nat /\ at \in Never..minute
    BY <1>2, KeptIs, CollectorsAssumption DEF LagOf
  <1>5. shown' \in [Items -> Never..minute] /\ shown'[x] = at /\ \A y \in Items \ {x} : shown'[y] = shown[y]
    BY <1>2, <1>4, KeptIs
  <1>6. \A who : Work(who, shown) \subseteq Work(who, shown')
    <2>1. \A who : Out(who, shown) \subseteq Out(who, shown')
      BY <1>2, <1>5 DEF Out, ItemsOf, Items
    <2>2. \A who : StoreWork(who, shown) \subseteq StoreWork(who, shown')
      BY <2>1 DEF StoreWork
    <2> QED
      BY <2>2 DEF Work
  <1>7. x \notin kept /\ kept \subseteq {y \in Items : shown'[y] # Never}
    BY <1>2, <1>5, KeptIs
  <1>8. CollectTyped'
    BY <1>3, <1>5, <1>6, <1>7 DEF CollectTyped
  <1>9. \A who : FromDate(who)' = FromDate(who)
    <2> SUFFICES ASSUME NEW who
                 PROVE  Newest(who)' = Newest(who)
      BY DEF FromDate
    <2>1. \A y \in CursorRows(who, kept) : shown'[y] = shown[y]
      BY <1>5, <1>7, KeptIs DEF CursorRows
    <2>2. Dates(who, kept', shown', foreign') = Dates(who, kept, shown, foreign)
      BY <1>3, <2>1 DEF Dates
    <2> QED
      BY <1>3, <2>2 DEF Newest, Dates, CursorRows
  <1>10. ASSUME NEW who, NEW y \in Items \ {x}, y \in kept \cup Awaited(who)
         PROVE  y \in kept' \cup Awaited(who)'
    <2>1. CASE y \in kept
      BY <1>3, <2>1
    <2>2. CASE y \in Awaited(who)
      <3>1. Awaited(who)' = {z \in Items : \E c \in Cycles : WhoIs(c) = who /\ Awaits(cycle[c], z, shown'[z])}
        BY <1>3 DEF Awaited, Awaits
      <3> QED
        BY <1>5, <2>2, <3>1, AwaitedIs
    <2> QED
      BY <1>10, <2>1, <2>2
  <1>11. NoGap'
    <2> SUFFICES ASSUME NEW who \in Collecting \ cut, NEW y \in ItemsOf(who),
                        shown'[y] # Never, shown'[y] < FromDate(who)
                 PROVE  y \in kept' \cup Awaited(who)'
      BY <1>3, <1>9 DEF NoGap, Collecting
    <2>1. y \in Items
      BY DEF ItemsOf, Items
    <2>2. CASE y = x
      <3>1. /\ FromDate(who) = Never \/ FromDate(who) <= minute - OverlapFor(who)
            /\ LagOf(x) <= OverlapFor(who) /\ OverlapFor(who) \in Nat /\ FromDate(who) \in Int
        BY <1>3, <2>2, FromIs
      <3> QED
        BY <1>2, <1>4, <1>5, <2>2, <3>1
    <2>3. CASE y # x
      <3>1. y \in kept \cup Awaited(who)
        BY <1>3, <1>5, <2>1, <2>3 DEF NoGap, Collecting
      <3> QED
        BY <1>10, <2>1, <2>3, <3>1
    <2> QED
      BY <2>2, <2>3
  <1>12. ASSUME NEW c \in Cycles, cycle[c] # NoCycle, WhoIs(c) \notin cut
         PROVE  BehindCovered(WhoIs(c), cycle[c].began)'
    <2> SUFFICES ASSUME NEW y \in ItemsOf(WhoIs(c)), shown'[y] # Never,
                        shown'[y] < cycle[c].began - LagFor(WhoIs(c))
                 PROVE  y \in kept' \cup Awaited(WhoIs(c))'
      BY <1>3 DEF BehindCovered
    <2>1. y \in Items /\ WhoIs(c) \in Collecting
      BY CollectorOf
    <2>2. CASE y = x
      <3>1. cycle[c].pc # "idle"
        BY <1>3, <1>12 DEF CollectTyped, Work, FetchWork, StoreWork
      <3>2. LagOf(x) = LagFor(WhoIs(c)) /\ cycle[c].began \in Nat /\ cycle[c].began <= minute
        BY <1>3, <2>1, <2>2, <3>1, FromIs, CycleIs
      <3> QED
        BY <1>2, <1>4, <1>5, <2>2, <3>2
    <2>3. CASE y # x
      <3>1. y \in kept \cup Awaited(WhoIs(c))
        BY <1>5, <1>12, <2>1, <2>3 DEF CollectInv, BehindCovered
      <3> QED
        BY <1>10, <2>1, <2>3, <3>1
    <2> QED
      BY <2>2, <2>3
  <1> QED
    BY <1>3, <1>8, <1>11, <1>12 DEF CollectInv

LEMMA CollectNext == CollectInv /\ [CollectStep]_collectVars => CollectInv'
  <1> SUFFICES ASSUME CollectInv, [CollectStep]_collectVars
               PROVE  CollectInv'
    OBVIOUS
  <1>1. CASE UNCHANGED collectVars
    <2>1. UNCHANGED <<shown, kept, foreign, cycle, cut, minute>>
      BY <1>1 DEF collectVars
    <2>2. \A who : FromDate(who)' = FromDate(who) /\ Awaited(who)' = Awaited(who)
      BY <2>1 DEF FromDate, Newest, Awaited
    <2>3. CollectTyped' /\ NoGap'
      BY <2>1, <2>2 DEF CollectInv, CollectTyped, NoGap
    <2>4. \A c \in Cycles : cycle'[c] # NoCycle /\ WhoIs(c) \notin cut' =>
            BehindCovered(WhoIs(c), cycle[c].began)'
      BY <2>1, <2>2 DEF CollectInv, BehindCovered
    <2> QED
      BY <2>1, <2>3, <2>4 DEF CollectInv
  <1>2. ASSUME NEW c \in Cycles, CycleStep(c)
        PROVE  CollectInv'
    BY <1>2, CycleStartKeeps, FetchedKeeps, FetchFailsKeeps, CheckedKeeps, CommittedKeeps, ConflictKeeps
       DEF CycleStep
  <1> QED
    BY <1>1, <1>2, PublishedKeeps, CyclesDieKeeps, TickKeeps DEF CollectStep

(* The next cycle never begins behind an item that is missing, whatever is *)
(* published late, and however the job and the button overlap: only a      *)
(* cycle cut short, the reach of the API or a failed sign-in among the     *)
(* alerts loses one.                                                       *)
THEOREM NothingLeftBehind == CollectSpec => []NoGap
  <1>1. CollectInv => NoGap
    BY DEF CollectInv
  <1> QED
    BY <1>1, CollectStart, CollectNext, PTL DEF CollectSpec

----------------------------------------------------------------------------
(* Proofs: the monitor of flagged addresses                                *)

USE DEF NoScan

LEMMA ObservedIs ==
    ASSUME MonitorTyped
    PROVE  DOMAIN Observed \subseteq Pairs
           /\ \A p \in DOMAIN Observed : Observed[p] \in Int /\ Observed[p] >= clock - Lookback
  <1> DEFINE window == {b \in buckets : b.at >= clock - Lookback}
             T == {b.at : b \in window}
             Latest(p, t) == [pair |-> p, at |-> t] \in window /\ \A b \in window : b.pair = p => b.at <= t
  <1>1. Observed = [p \in {b.pair : b \in window} |-> CHOOSE t \in T : Latest(p, t)]
    BY DEF Observed
  <1>2. \A b \in window : b \in [pair : Pairs, at : 0..clock] /\ b.at >= clock - Lookback
    BY DEF MonitorTyped
  <1>3. \A b \in window : b.pair \in Pairs /\ b.at \in 0..clock /\ b = [pair |-> b.pair, at |-> b.at]
    BY <1>2
  <1>4. clock \in Nat
    BY DEF MonitorTyped
  <1>5. DOMAIN Observed = {b.pair : b \in window}
    BY <1>1
  <1> HIDE DEF window
  <1>6. ASSUME NEW p \in {b.pair : b \in window}
        PROVE  \E t \in T : Latest(p, t)
    <2> DEFINE S == {b.at : b \in {w \in window : w.pair = p}}
    <2>1. S # {} /\ S \subseteq Int /\ clock \in Int /\ \A t \in S : t <= clock
      BY <1>3, <1>4
    <2> HIDE DEF S
    <2>2. Max(S) \in S /\ \A t \in S : t <= Max(S)
      BY <2>1, GreatestOf
    <2>3. PICK w \in window : w.pair = p /\ w.at = Max(S)
      BY <2>2 DEF S
    <2>4. \A b \in window : b.pair = p => b.at <= w.at
      BY <2>2, <2>3 DEF S
    <2>5. [pair |-> p, at |-> w.at] \in window
      BY <1>3, <2>3
    <2> QED
      BY <2>3, <2>4, <2>5
  <1>7. ASSUME NEW p \in {b.pair : b \in window}
        PROVE  Observed[p] \in T
    <2>1. Observed[p] = CHOOSE t \in T : Latest(p, t)
      BY <1>1
    <2> HIDE DEF Latest, T
    <2> QED
      BY <1>6, <2>1, Zenon
  <1>8. \A t \in T : t \in Int /\ t >= clock - Lookback
    BY <1>2, <1>3
  <1> QED
    BY <1>3, <1>5, <1>7, <1>8

\* A set that is put into any order.
LEMMA InAnyOrder ==
    ASSUME NEW S, IsFiniteSet(S), NEW s \in SetToSeqs(S)
    PROVE  /\ s \in Seq(S) /\ Len(s) = Cardinality(S) /\ Len(s) \in Nat
           /\ \A i, j \in 1..Len(s) : i # j => s[i] # s[j]
  <1>1. Cardinality(S) \in Nat
    BY FS_CardinalityType
  <1>2. s \in [1..Cardinality(S) -> S] /\ \A i, j \in 1..Cardinality(S) : i # j => s[i] # s[j]
    BY DEF SetToSeqs
  <1>3. s \in Seq(S) /\ Len(s) = Cardinality(S)
    BY <1>1, <1>2
  <1> QED
    BY <1>1, <1>2, <1>3

(* What is known of the scans stays known when events are added or pushed. *)
LEMMA ScansStay ==
    ASSUME NEW now, NEW old \in Seq(EventRow), NEW new \in Seq(EventRow), Len(old) <= Len(new),
           \A i \in 1..Len(old) : new[i].pair = old[i].pair /\ new[i].at = old[i].at,
           NEW sc, ScanIs(sc, now, old)
    PROVE  ScanIs(sc, now, new)
  <1>1. Len(old) \in Nat /\ Len(new) \in Nat
    BY LenProperties
  <1>2. Seeing(sc, now, old) => Seeing(sc, now, new)
    BY <1>1 DEF Seeing
  <1>3. Seeing(sc, now, old) /\ Informed(sc, old) => Informed(sc, new)
    <2> SUFFICES ASSUME Seeing(sc, now, old), Informed(sc, old)
                 PROVE  Informed(sc, new)
      OBVIOUS
    <2>1. sc.after \in 0..Len(old)
      BY DEF Seeing
    <2>2. \A i \in 1..sc.after : new[i].pair = old[i].pair /\ new[i].at = old[i].at
      BY <1>1, <2>1
    <2> QED
      BY <2>2 DEF Informed
  <1> QED
    BY <1>2, <1>3 DEF ScanIs

(* The scan that moves on, while the events keep what matters of them.     *)
LEMMA ScanMoves ==
    ASSUME MonitorInv, NEW s \in Scanners, NEW sc, scan' = [scan EXCEPT ![s] = sc],
           events' \in Seq(EventRow), Len(events) <= Len(events'), clock' = clock,
           \A i \in 1..Len(events) : events'[i].pair = events[i].pair /\ events'[i].at = events[i].at,
           ScanIs(sc, clock, events')
    PROVE  DOMAIN scan' = Scanners /\ \A t \in Scanners : ScanIs(scan'[t], clock', events')
  <1>1. DOMAIN scan = Scanners /\ events \in Seq(EventRow)
    BY DEF MonitorInv, MonitorTyped
  <1>2. scan'[s] = sc /\ \A t \in Scanners \ {s} : scan'[t] = scan[t]
    BY <1>1
  <1>3. \A t \in Scanners : ScanIs(scan[t], clock, events)
    BY DEF MonitorInv
  <1>4. \A t \in Scanners : ScanIs(scan[t], clock, events')
    BY <1>1, <1>3, ScansStay
  <1> QED
    BY <1>1, <1>2, <1>4

\* A scan moves on before it writes.
LEMMA ScanGoesOn ==
    ASSUME MonitorInv, NEW s \in Scanners, NEW sc, scan' = [scan EXCEPT ![s] = sc],
           UNCHANGED <<clock, flushAt, buckets, conns, events>>, ScanIs(sc, clock, events)
    PROVE  MonitorInv'
  <1>1. events \in Seq(EventRow) /\ Len(events) \in Nat
    BY LenProperties DEF MonitorInv, MonitorTyped
  <1>2. DOMAIN scan' = Scanners /\ \A t \in Scanners : ScanIs(scan'[t], clock', events')
    <2>1. events' = events /\ clock' = clock
      OBVIOUS
    <2>2. events' \in Seq(EventRow) /\ Len(events) <= Len(events') /\ ScanIs(sc, clock, events')
          /\ \A i \in 1..Len(events) : events'[i].pair = events[i].pair /\ events'[i].at = events[i].at
      BY <1>1, <2>1
    <2> QED
      BY <2>1, <2>2, ScanMoves
  <1>3. EventsSpaced' /\ RowsFollow(conns', events', clock')
    BY DEF MonitorInv, EventsSpaced, RowsFollow
  <1>4. MonitorTyped'
    BY <1>2 DEF MonitorInv, MonitorTyped
  <1> QED
    BY <1>2, <1>3, <1>4 DEF MonitorInv

LEMMA ScanStartKeeps == ASSUME MonitorInv, NEW s \in Scanners, ScanStart(s) PROVE MonitorInv'
  <1> DEFINE sc == [pc |-> "read", now |-> clock, seen |-> Observed, after |-> Len(events)]
  <1>1. Len(events) \in Nat /\ MonitorTyped
    BY LenProperties DEF MonitorInv, MonitorTyped
  <1>2. Seeing(sc, clock, events)
    BY <1>1, ObservedIs DEF Seeing
  <1>3. scan' = [scan EXCEPT ![s] = sc] /\ UNCHANGED <<clock, flushAt, buckets, conns, events>>
    BY DEF ScanStart, netVars
  <1>4. sc.pc = "read"
    OBVIOUS
  <1> HIDE DEF sc
  <1> QED
    BY <1>2, <1>3, <1>4, ScanGoesOn DEF ScanIs

LEMMA ScanReadKeeps == ASSUME MonitorInv, NEW s \in Scanners, ScanRead(s) PROVE MonitorInv'
  <1> DEFINE sc == [pc |-> "write", now |-> scan[s].now, seen |-> scan[s].seen, after |-> scan[s].after,
                    rows |-> [p \in DOMAIN scan[s].seen |-> conns[p]]]
  <1>1. scan' = [scan EXCEPT ![s] = sc] /\ UNCHANGED <<clock, flushAt, buckets, conns, events>>
        /\ scan[s].pc = "read"
    BY DEF ScanRead, netVars
  <1>2. Seeing(scan[s], clock, events)
    BY <1>1 DEF MonitorInv, ScanIs
  <1>3. sc.pc = "write" /\ sc.now = scan[s].now /\ sc.seen = scan[s].seen /\ sc.after = scan[s].after
        /\ \A p \in DOMAIN scan[s].seen : sc.rows[p] = conns[p]
    OBVIOUS
  <1> HIDE DEF sc
  <1>4. Seeing(sc, clock, events)
    BY <1>2, <1>3 DEF Seeing
  <1>5. Informed(sc, events)
    <2>1. DOMAIN sc.seen \subseteq Pairs /\ 1..sc.after \subseteq DOMAIN events
      <3>1. events \in Seq(EventRow)
        BY DEF MonitorInv, MonitorTyped
      <3>2. Len(events) \in Nat /\ DOMAIN events = 1..Len(events)
        BY <3>1, LenProperties
      <3> QED
        BY <1>4, <3>2 DEF Seeing
    <2>2. conns \in [Pairs -> Int \cup {NoRow}] /\ RowsFollow(conns, events, clock)
      BY DEF MonitorInv, MonitorTyped
    <2> QED
      BY <1>3, <2>1, <2>2 DEF Informed, RowsFollow
  <1> QED
    BY <1>1, <1>3, <1>4, <1>5, ScanGoesOn DEF ScanIs

(* The events of a scan: one for each pair that raises one.                *)
LEMMA NewEventsAre ==
    ASSUME MonitorInv, NEW sc, Seeing(sc, clock, events), Informed(sc, events)
    PROVE  /\ IsFiniteSet(NewEvents(sc)) /\ NewEvents(sc) \subseteq EventRow
           /\ \A e \in NewEvents(sc) :
                /\ e.at = clock /\ e.after = sc.after /\ e.pair \in DOMAIN sc.seen
                /\ e.type = "new_pair" => e.pair \in Raises(sc, "new_pair") /\ sc.rows[e.pair] = NoRow
                /\ e.type # "new_pair" => /\ e.type = "reappeared" /\ sc.rows[e.pair] \in Int
                                          /\ clock - sc.rows[e.pair] >= Gap
           /\ \A e, f \in NewEvents(sc) : e.pair = f.pair => e = f
  <1> DEFINE R(type) == Raises(sc, type)
             D == R("new_pair") \cup R("reappeared")
             ev(p) == [pair |-> p, type |-> IF p \in R("new_pair") THEN "new_pair" ELSE "reappeared",
                       at |-> clock, after |-> sc.after, notified |-> FALSE]
             N == {ev(p) : p \in D}
  <1>1. sc.now = clock /\ clock \in Nat /\ sc.after \in Nat /\ DOMAIN sc.seen \subseteq Pairs
        /\ \A p \in DOMAIN sc.seen : sc.rows[p] \in Int \cup {NoRow}
    <2>1. Len(events) \in Nat /\ clock \in Nat
      BY LenProperties DEF MonitorInv, MonitorTyped
    <2> QED
      BY <2>1 DEF Seeing, Informed
  <1>2. /\ \A p : p \in R("new_pair") <=> p \in DOMAIN sc.seen /\ sc.rows[p] = NoRow
        /\ \A p : p \in R("reappeared") <=>
             p \in DOMAIN sc.seen /\ sc.rows[p] # NoRow /\ clock - sc.rows[p] >= Gap
    BY <1>1 DEF Raises
  <1> HIDE DEF R
  <1>3. NewEvents(sc) = N
    <2>1. NewEvents(sc) =
            {[pair |-> p, type |-> "new_pair", at |-> clock, after |-> sc.after, notified |-> FALSE] :
               p \in R("new_pair")}
            \cup {[pair |-> p, type |-> "reappeared", at |-> clock, after |-> sc.after, notified |-> FALSE] :
                    p \in R("reappeared")}
      BY <1>1 DEF NewEvents, R
    <2>2. R("new_pair") \cap R("reappeared") = {}
      BY <1>2
    <2> QED
      BY <2>1, <2>2
  <1>4. \A p \in D : ev(p) \in EventRow
    BY <1>1, <1>2 DEF EventRow
  <1>5. IsFiniteSet(N)
    <2>1. IsFiniteSet(D)
      <3>1. D \in SUBSET Pairs
        BY <1>1, <1>2
      <3> QED
        BY <3>1, FS_Subset, NetFlowAssumption
    <2> DEFINE f == [p \in D |-> ev(p)]
    <2>2. f \in Surjection(D, N)
      BY DEF Surjection
    <2> HIDE DEF f, N, D
    <2> QED
      BY <2>1, <2>2, FS_Surjection
  <1>6. ASSUME NEW p \in D
        PROVE  /\ ev(p).pair = p /\ ev(p).at = clock /\ ev(p).after = sc.after /\ p \in DOMAIN sc.seen
               /\ ev(p).type = IF p \in R("new_pair") THEN "new_pair" ELSE "reappeared"
               /\ p \notin R("new_pair") => sc.rows[p] \in Int /\ clock - sc.rows[p] >= Gap
    BY <1>1, <1>2
  <1>7. ASSUME NEW e \in N
        PROVE  e.pair \in D /\ e = ev(e.pair)
    BY <1>6
  <1> HIDE DEF N, D, ev
  <1>8. ASSUME NEW e \in N
        PROVE  /\ e.at = clock /\ e.after = sc.after /\ e.pair \in DOMAIN sc.seen
               /\ e.type = "new_pair" => e.pair \in R("new_pair") /\ sc.rows[e.pair] = NoRow
               /\ e.type # "new_pair" => /\ e.type = "reappeared" /\ sc.rows[e.pair] \in Int
                                         /\ clock - sc.rows[e.pair] >= Gap
    <2>1. e.pair \in D /\ e = ev(e.pair)
      BY <1>7
    <2> QED
      BY <1>2, <1>6, <2>1
  <1>9. N \subseteq EventRow
    BY <1>4 DEF N
  <1>10. \A e, f \in N : e.pair = f.pair => e = f
    BY <1>7
  <1> QED
    BY <1>3, <1>5, <1>8, <1>9, <1>10 DEF R

(* The rows of a scan that commits: as they were, or as new as its window. *)
LEMMA RowsMove ==
    ASSUME MonitorInv, NEW sc, Seeing(sc, clock, events), Informed(sc, events)
    PROVE  /\ LastSeen(sc) \in [Pairs -> Int \cup {NoRow}]
           /\ \A p \in Pairs : \/ LastSeen(sc)[p] = conns[p]
                               \/ LastSeen(sc)[p] # NoRow /\ LastSeen(sc)[p] >= clock - Lookback
           /\ \A e \in NewEvents(sc) : LastSeen(sc)[e.pair] # NoRow /\ LastSeen(sc)[e.pair] >= clock - Lookback
  <1>1. /\ conns \in [Pairs -> Int \cup {NoRow}] /\ clock \in Nat /\ DOMAIN sc.seen \subseteq Pairs
        /\ \A p \in DOMAIN sc.seen : /\ sc.seen[p] \in Int /\ sc.seen[p] # NoRow
                                     /\ sc.seen[p] >= clock - Lookback
                                     /\ sc.rows[p] \in Int \cup {NoRow}
    BY IpMonitorAssumption DEF MonitorInv, MonitorTyped, Seeing, Informed
  <1>2. \A p \in Pairs : LastSeen(sc)[p] = IF p \notin DOMAIN sc.seen THEN conns[p]
                                           ELSE IF sc.rows[p] = NoRow \/ sc.seen[p] > sc.rows[p] THEN sc.seen[p]
                                           ELSE conns[p]
    BY DEF LastSeen
  <1>3. LastSeen(sc) \in [Pairs -> Int \cup {NoRow}]
    BY <1>1 DEF LastSeen
  <1>4. ASSUME NEW e \in NewEvents(sc)
        PROVE  LastSeen(sc)[e.pair] # NoRow /\ LastSeen(sc)[e.pair] >= clock - Lookback
    <2>1. /\ e.pair \in DOMAIN sc.seen
          /\ \/ sc.rows[e.pair] = NoRow
             \/ sc.rows[e.pair] \in Int /\ clock - sc.rows[e.pair] >= Gap
      BY NewEventsAre
    <2>2. sc.rows[e.pair] = NoRow \/ sc.seen[e.pair] > sc.rows[e.pair]
      BY <1>1, <2>1, IpMonitorAssumption
    <2>3. LastSeen(sc)[e.pair] = sc.seen[e.pair]
      BY <1>1, <1>2, <2>1, <2>2
    <2> QED
      BY <1>1, <2>1, <2>3
  <1> QED
    BY <1>1, <1>2, <1>3, <1>4

LEMMA ScanCommitKeeps == ASSUME MonitorInv, NEW s \in Scanners, ScanCommit(s) PROVE MonitorInv'
  <1> DEFINE sc == scan[s]
             n == Len(events)
             N == NewEvents(sc)
  <1>1. PICK new \in SetToSeqs(N) :
          /\ events' = events \o new
          /\ scan' = [scan EXCEPT ![s] =
               IF new = <<>> THEN NoScan
               ELSE [pc |-> "notify", from |-> Len(events), upto |-> Len(events) + Len(new)]]
    BY DEF ScanCommit
  <1>2. /\ sc.pc = "write" /\ ~Conflict(sc) /\ conns' = LastSeen(sc)
        /\ UNCHANGED <<clock, flushAt, buckets>>
    BY DEF ScanCommit, netVars
  <1>3. Seeing(sc, clock, events) /\ Informed(sc, events)
    BY <1>2 DEF MonitorInv, ScanIs
  <1> HIDE DEF sc
  <1>4. events \in Seq(EventRow) /\ n \in Nat /\ DOMAIN events = 1..n /\ clock \in Nat /\ sc.after \in 0..n
    BY <1>3, LenProperties DEF MonitorInv, MonitorTyped, Seeing
  <1>5. /\ new \in Seq(N) /\ Len(new) \in Nat
        /\ \A i, j \in 1..Len(new) : i # j => new[i] # new[j]
    BY <1>3, NewEventsAre, InAnyOrder
  <1>6. new \in Seq(EventRow) /\ \A i \in 1..Len(new) : new[i] \in N
    BY <1>3, <1>5, NewEventsAre
  <1>7. /\ events' \in Seq(EventRow) /\ Len(events') = n + Len(new)
        /\ \A i \in 1..n : events'[i] = events[i]
        /\ \A i \in 1..n + Len(new) : i > n => events'[i] = new[i - n] /\ i - n \in 1..Len(new)
    BY <1>1, <1>4, <1>5, <1>6, ConcatProperties
  <1>8. DOMAIN events' = 1..n + Len(new) /\ \A i \in DOMAIN events' : i \in Nat /\ (i <= n => i \in 1..n)
    BY <1>4, <1>5, <1>7, LenProperties
  <1>9. DOMAIN scan' = Scanners /\ \A t \in Scanners : ScanIs(scan'[t], clock', events')
    <2> DEFINE to == IF new = <<>> THEN NoScan
                     ELSE [pc |-> "notify", from |-> n, upto |-> n + Len(new)]
    <2>1. ScanIs(to, clock, events')
      BY <1>4, <1>5 DEF ScanIs
    <2>2. scan' = [scan EXCEPT ![s] = to] /\ clock' = clock /\ Len(events) <= Len(events')
          /\ \A i \in 1..Len(events) : events'[i].pair = events[i].pair /\ events'[i].at = events[i].at
      BY <1>1, <1>2, <1>4, <1>5, <1>7
    <2> HIDE DEF to
    <2> QED
      BY <1>7, <2>1, <2>2, ScanMoves
  <1>10. \A i \in 1..n : events[i] \in EventRow /\ events[i].pair \in Pairs /\ events[i].at \in Nat
    <2>1. \A i \in 1..n : events[i] \in EventRow
      BY <1>4
    <2> QED
      BY <2>1 DEF EventRow
  <1>11. \A e \in N : e.pair \in Pairs /\ e.at = clock /\ e.after = sc.after
    BY <1>3, NewEventsAre DEF Seeing
  <1>12. RowsFollow(conns', events', clock')
    <2> SUFFICES ASSUME NEW i \in DOMAIN events'
                 PROVE  /\ events'[i].at <= clock /\ conns'[events'[i].pair] # NoRow
                        /\ conns'[events'[i].pair] >= events'[i].at - Lookback
      BY <1>2 DEF RowsFollow
    <2>1. CASE i <= n
      <3>1. /\ events'[i] = events[i] /\ events[i].pair \in Pairs /\ events[i].at \in Nat
            /\ events[i].at <= clock /\ conns[events[i].pair] # NoRow
            /\ conns[events[i].pair] >= events[i].at - Lookback
        BY <1>4, <1>7, <1>8, <1>10, <2>1 DEF MonitorInv, RowsFollow
      <3>2. \/ conns'[events[i].pair] = conns[events[i].pair]
            \/ conns'[events[i].pair] # NoRow /\ conns'[events[i].pair] >= clock - Lookback
        BY <1>2, <1>3, <3>1, RowsMove
      <3>3. conns' \in [Pairs -> Int \cup {NoRow}]
        BY <1>2, <1>3, RowsMove
      <3>4. conns'[events[i].pair] # NoRow
        BY <3>1, <3>2
      <3>5. conns'[events[i].pair] \in Int
        BY <3>1, <3>3, <3>4
      <3>6. conns'[events[i].pair] >= events[i].at - Lookback
        BY <1>4, <3>1, <3>2, <3>5, IpMonitorAssumption
      <3> QED
        BY <3>1, <3>4, <3>6
    <2>2. CASE ~(i <= n)
      <3>1. events'[i] \in N
        <4>1. i \in 1..n + Len(new) /\ i > n
          BY <1>4, <1>8, <2>2
        <4>2. events'[i] = new[i - n] /\ i - n \in 1..Len(new)
          BY <1>7, <4>1
        <4> QED BY <1>6, <4>2
      <3> QED
        BY <1>2, <1>3, <1>4, <1>11, <3>1, RowsMove
    <2> QED
      BY <2>1, <2>2
  <1>13. EventsSpaced'
    <2> SUFFICES ASSUME NEW i \in DOMAIN events', NEW j \in DOMAIN events',
                        i < j, events'[i].pair = events'[j].pair
                 PROVE  /\ events'[j].type = "reappeared"
                        /\ events'[j].after >= i => events'[j].at - events'[i].at >= Gap - Lookback
      BY DEF EventsSpaced
    <2>1. CASE j <= n
      <3>1. i \in 1..n /\ j \in 1..n
        BY <1>4, <1>8, <2>1
      <3> QED
        BY <1>4, <1>7, <3>1 DEF MonitorInv, EventsSpaced
    <2>2. CASE i <= n /\ ~(j <= n)
      <3>1. i \in 1..n /\ events'[i] = events[i] /\ events'[j] \in N
        <4>1. i \in 1..n /\ j > n
          BY <1>4, <1>8, <2>2
        <4>2. events'[j] = new[j - n] /\ j - n \in 1..Len(new)
          BY <1>7, <1>8, <4>1
        <4> QED
          BY <1>6, <1>7, <4>1, <4>2
      <3> DEFINE e == events'[j]
                 p == events[i].pair
      <3>2. /\ e.at = clock /\ e.after = sc.after /\ p \in DOMAIN sc.seen
            /\ e.type = "new_pair" => p \in Raises(sc, "new_pair")
            /\ e.type # "new_pair" => e.type = "reappeared" /\ sc.rows[p] \in Int /\ clock - sc.rows[p] >= Gap
        BY <1>3, <3>1, NewEventsAre
      <3>3. conns[p] # NoRow
        BY <1>4, <3>1 DEF MonitorInv, RowsFollow
      <3>4. e.type # "new_pair"
        BY <1>2, <3>2, <3>3 DEF Conflict
      <3>5. ASSUME sc.after >= i
            PROVE  clock - events[i].at >= Gap - Lookback
        <4>1. i \in 1..sc.after
          BY <1>4, <3>1, <3>5
        <4>2. sc.rows[p] >= events[i].at - Lookback
          BY <1>3, <3>2, <4>1 DEF Informed
        <4> QED
          BY <1>4, <1>10, <3>1, <3>2, <3>4, <4>2, IpMonitorAssumption
      <3> QED
        BY <3>1, <3>2, <3>4, <3>5
    <2>3. CASE ~(i <= n)
      <3>1. j > n /\ i > n
        BY <1>4, <1>8, <2>3
      <3>2. /\ events'[i] = new[i - n] /\ i - n \in 1..Len(new)
            /\ events'[j] = new[j - n] /\ j - n \in 1..Len(new)
        BY <1>7, <1>8, <3>1
      <3>3. new[i - n] = new[j - n]
        BY <1>3, <1>6, <3>2, NewEventsAre
      <3>4. i - n # j - n
        BY <1>4, <1>8
      <3> QED
        BY <1>5, <3>2, <3>3, <3>4
    <2> QED
      BY <2>1, <2>2, <2>3
  <1>14. MonitorTyped'
    <2>1. conns' \in [Pairs -> Int \cup {NoRow}]
      BY <1>2, <1>3, RowsMove
    <2> QED
      BY <1>2, <1>7, <1>9, <2>1 DEF MonitorInv, MonitorTyped
  <1> QED
    BY <1>9, <1>12, <1>13, <1>14 DEF MonitorInv

LEMMA ScanNotifyKeeps == ASSUME MonitorInv, NEW s \in Scanners, ScanNotify(s) PROVE MonitorInv'
  <1> DEFINE m == scan[s].from + 1
             to == IF m = scan[s].upto \/ m = scan[s].from + PushCap THEN NoScan
                   ELSE [scan[s] EXCEPT !.from = m]
  <1>1. PICK sent \in BOOLEAN : events' = [events EXCEPT ![m].notified = sent]
    BY DEF ScanNotify
  <1>2. /\ scan[s].pc = "notify" /\ scan' = [scan EXCEPT ![s] = to]
        /\ UNCHANGED <<clock, flushAt, buckets, conns>>
    BY DEF ScanNotify, netVars
  <1>3. scan[s] \in [pc : {"notify"}, from : Nat, upto : Nat]
    BY <1>2 DEF MonitorInv, ScanIs
  <1>4. events \in Seq(EventRow) /\ Len(events) \in Nat /\ DOMAIN events = 1..Len(events)
    BY LenProperties DEF MonitorInv, MonitorTyped
  <1>5. /\ DOMAIN events' = DOMAIN events
        /\ \A i \in DOMAIN events :
             /\ events'[i] \in EventRow
             /\ events'[i].pair = events[i].pair /\ events'[i].at = events[i].at
             /\ events'[i].type = events[i].type /\ events'[i].after = events[i].after
    <2>1. DOMAIN events' = DOMAIN events
          /\ \A i \in DOMAIN events :
               events'[i] = IF i = m THEN [events[i] EXCEPT !.notified = sent] ELSE events[i]
      BY <1>1, <1>4
    <2>2. \A i \in DOMAIN events : events[i] \in EventRow
      BY <1>4
    <2> HIDE DEF m
    <2> QED
      BY <2>1, <2>2 DEF EventRow
  <1>6. events' \in Seq(EventRow) /\ Len(events') = Len(events)
    <2>1. events' \in [1..Len(events) -> EventRow]
      BY <1>1, <1>4, <1>5
    <2> QED
      BY <1>4, <2>1
  <1>7. ScanIs(to, clock, events')
    BY <1>3 DEF ScanIs
  <1> HIDE DEF to
  <1>8. DOMAIN scan' = Scanners /\ \A t \in Scanners : ScanIs(scan'[t], clock', events')
    <2>1. clock' = clock /\ Len(events) <= Len(events')
          /\ \A i \in 1..Len(events) : events'[i].pair = events[i].pair /\ events'[i].at = events[i].at
      BY <1>2, <1>4, <1>5, <1>6
    <2> QED
      BY <1>2, <1>6, <1>7, <2>1, ScanMoves
  <1>9. RowsFollow(conns', events', clock') /\ EventsSpaced'
    BY <1>2, <1>5 DEF MonitorInv, RowsFollow, EventsSpaced
  <1>10. MonitorTyped'
    BY <1>2, <1>6, <1>8 DEF MonitorInv, MonitorTyped
  <1> QED
    BY <1>8, <1>9, <1>10 DEF MonitorInv

(* What neither the events nor the rows nor a scan is part of.             *)
LEMMA ElsewhereInMonitor ==
    ASSUME MonitorInv, UNCHANGED <<clock, conns, events>>, scan' = scan \/ scan' = [t \in Scanners |-> NoScan],
           flushAt' \in 0..clock, buckets' \subseteq [pair : Pairs, at : 0..clock]
    PROVE  MonitorInv'
  <1>1. DOMAIN scan' = Scanners /\ \A t \in Scanners : ScanIs(scan'[t], clock', events')
    <2>1. \A t \in Scanners : ScanIs(scan[t], clock, events) /\ ScanIs(NoScan, clock, events)
      BY DEF MonitorInv, ScanIs
    <2> QED
      BY <2>1 DEF MonitorInv, MonitorTyped
  <1>2. EventsSpaced' /\ RowsFollow(conns', events', clock')
    BY DEF MonitorInv, EventsSpaced, RowsFollow
  <1>3. MonitorTyped'
    BY <1>1 DEF MonitorInv, MonitorTyped
  <1> QED
    BY <1>1, <1>2, <1>3 DEF MonitorInv

LEMMA MonitorTickKeeps == ASSUME MonitorInv, MonitorTick PROVE MonitorInv'
  <1>1. /\ clock' = clock + 1 /\ UNCHANGED <<flushAt, buckets, conns, events, scan>>
        /\ \A s \in Scanners : scan[s] = NoScan
    BY DEF MonitorTick, netVars, monitorVars
  <1>2. clock \in Nat /\ clock' \in Nat /\ 0..clock \subseteq 0..clock'
    BY <1>1 DEF MonitorInv, MonitorTyped
  <1>3. MonitorTyped'
    BY <1>1, <1>2 DEF MonitorInv, MonitorTyped
  <1>4. EventsSpaced' /\ \A s \in Scanners : ScanIs(scan'[s], clock', events')
    BY <1>1 DEF MonitorInv, EventsSpaced, ScanIs
  <1>5. RowsFollow(conns', events', clock')
    <2>1. \A i \in DOMAIN events : events[i].at <= clock /\ events[i].at \in Nat
      <3>1. events \in Seq(EventRow)
        BY DEF MonitorInv, MonitorTyped
      <3>2. \A i \in DOMAIN events : events[i] \in EventRow
        BY <3>1
      <3> QED
        BY <3>2 DEF EventRow, MonitorInv, RowsFollow
    <2> QED
      BY <1>1, <1>2, <2>1 DEF MonitorInv, RowsFollow
  <1> QED
    BY <1>3, <1>4, <1>5 DEF MonitorInv

LEMMA MonitorNext == MonitorInv /\ [MonitorStep]_<<netVars, clock, monitorVars>> => MonitorInv'
  <1> SUFFICES ASSUME MonitorInv, [MonitorStep]_<<netVars, clock, monitorVars>>
               PROVE  MonitorInv'
    OBVIOUS
  <1>1. flushAt \in 0..clock /\ buckets \subseteq [pair : Pairs, at : 0..clock] /\ clock \in Nat
    BY DEF MonitorInv, MonitorTyped
  <1>2. CASE UNCHANGED <<netVars, clock, monitorVars>>
    BY <1>1, <1>2, ElsewhereInMonitor DEF netVars, monitorVars
  <1>3. CASE NetStep /\ UNCHANGED monitorVars
    <2>1. clock' = clock
      BY <1>3 DEF NetStep, Ingest, FlushTake, FlushCommit, FlushFail, CollectorDies, BucketRetention
    <2>2. flushAt' = flushAt \/ flushAt' = clock
      BY <1>3 DEF NetStep, Ingest, FlushTake, FlushCommit, FlushFail, CollectorDies, BucketRetention
    <2>3. \/ buckets' \subseteq buckets
          \/ buckets' = buckets \cup
               {[pair |-> p, at |-> flushAt] : p \in {q \in Pairs : netMeter.flight["loop"][q] > 0}}
      BY <1>3 DEF NetStep, Ingest, FlushTake, FlushCommit, FlushFail, CollectorDies, BucketRetention
    <2>4. flushAt' \in 0..clock /\ buckets' \subseteq [pair : Pairs, at : 0..clock]
      BY <1>1, <2>2, <2>3
    <2> QED
      BY <1>3, <2>1, <2>4, ElsewhereInMonitor DEF monitorVars
  <1>4. CASE AddToList \/ RemoveFromList \/ SetMonitorFlag
    BY <1>1, <1>4, ElsewhereInMonitor DEF AddToList, RemoveFromList, SetMonitorFlag, Edit, netVars
  <1>5. ASSUME NEW s \in Scanners, ScanConflict(s)
        PROVE  MonitorInv'
    BY <1>5, ScanGoesOn DEF ScanConflict, ScanIs, netVars
  <1>6. ASSUME NEW s \in Scanners, ScanDies(s)
        PROVE  MonitorInv'
    BY <1>1, <1>6, ElsewhereInMonitor DEF ScanDies
  <1> QED
    BY <1>2, <1>3, <1>4, <1>5, <1>6, ScanStartKeeps, ScanReadKeeps, ScanCommitKeeps, ScanNotifyKeeps,
       MonitorTickKeeps DEF MonitorStep, ScanStep

LEMMA MonitorStart == NetInit /\ MonitorInit => MonitorInv
  <1> SUFFICES ASSUME NetInit, MonitorInit
               PROVE  MonitorInv
    OBVIOUS
  <1>1. /\ flushAt = 0 /\ clock = 0 /\ buckets = {} /\ conns = [p \in Pairs |-> NoRow]
        /\ events = <<>> /\ scan = [s \in Scanners |-> NoScan]
    BY DEF NetInit, MonitorInit
  <1>2. events \in Seq(EventRow) /\ DOMAIN events = {}
    BY <1>1
  <1> QED
    BY <1>1, <1>2 DEF MonitorInv, MonitorTyped, EventsSpaced, RowsFollow, ScanIs

(* A pair is new once, and comes back no sooner than the gap allows, as    *)
(* far as the window of a scan can tell: for any number of scans that      *)
(* overlap, edits of the lists, buckets that are deleted and crashes.      *)
THEOREM MonitorEventsSpaced == MonitorSpec => []EventsSpaced
  <1>1. MonitorInv => EventsSpaced
    BY DEF MonitorInv
  <1> QED
    BY <1>1, MonitorStart, MonitorNext, PTL DEF MonitorSpec

----------------------------------------------------------------------------
(* Proofs: Shodan lookups and their quota                                  *)

LEMMA LookupsCounted ==
    ASSUME NEW S \in SUBSET Lookups
    PROVE  IsFiniteSet(S) /\ Cardinality(S) \in Nat /\ Cardinality(S) <= Cardinality(Lookups)
           /\ Cardinality(Lookups) \in Nat
  BY OsintAssumption, FS_Subset, FS_CardinalityType

\* Two sets of lookups that agree on all but one.
LEMMA OneLookupMoves ==
    ASSUME NEW S \in SUBSET Lookups, NEW T \in SUBSET Lookups, NEW c \in Lookups, S \ {c} = T \ {c}
    PROVE  /\ Cardinality(S) \in Nat /\ Cardinality(T) \in Nat
           /\ Cardinality(T) + (IF c \in S THEN 1 ELSE 0) = Cardinality(S) + (IF c \in T THEN 1 ELSE 0)
  <1> DEFINE R == S \ {c}
  <1>1. IsFiniteSet(R) /\ Cardinality(R) \in Nat /\ Cardinality(S) \in Nat /\ Cardinality(T) \in Nat
    BY LookupsCounted
  <1>2. Cardinality(R \cup {c}) = Cardinality(R) + 1
    BY <1>1, FS_AddElement
  <1>3. /\ (c \in S => S = R \cup {c}) /\ (c \notin S => S = R)
        /\ (c \in T => T = R \cup {c}) /\ (c \notin T => T = R)
    OBVIOUS
  <1> HIDE DEF R
  <1>4. Cardinality(S) = Cardinality(R) + (IF c \in S THEN 1 ELSE 0)
    <2>1. CASE c \in S
      BY <1>2, <1>3, <2>1
    <2>2. CASE c \notin S
      BY <1>1, <1>3, <2>2
    <2> QED
      BY <2>1, <2>2
  <1>5. Cardinality(T) = Cardinality(R) + (IF c \in T THEN 1 ELSE 0)
    <2>1. CASE c \in T
      BY <1>2, <1>3, <2>1
    <2>2. CASE c \notin T
      BY <1>1, <1>3, <2>2
    <2> QED
      BY <2>1, <2>2
  <1> QED
    BY <1>1, <1>4, <1>5

\* What a lookup adds to the sets, by its locals.
Calls(l) == IF l.pc = "call" /\ l.who = "auto" THEN 1 ELSE 0
Owes(l) == IF l.pc \in {"call", "count"} /\ l.who = "auto" THEN 1 ELSE 0
Passes(l, stored) == IF l.pc = "stored" /\ l.seen + stored < Limit THEN 1 ELSE 0

LEMMA SpentMoves ==
    ASSUME OsintTyped, NEW c \in Lookups, NEW l, Becomes(c, l), NEW stored
    PROVE  /\ Cardinality(Calling(look)) \in Nat /\ Cardinality(Calling(look')) \in Nat
           /\ Cardinality(Owing(look)) \in Nat /\ Cardinality(Owing(look')) \in Nat
           /\ Cardinality(Passing(look, stored)) \in Nat /\ Cardinality(Passing(look', stored)) \in Nat
           /\ Cardinality(Calling(look')) + Calls(look[c]) = Cardinality(Calling(look)) + Calls(l)
           /\ Cardinality(Owing(look')) + Owes(look[c]) = Cardinality(Owing(look)) + Owes(l)
           /\ Cardinality(Passing(look', stored)) + Passes(look[c], stored)
                = Cardinality(Passing(look, stored)) + Passes(l, stored)
  <1>1. look'[c] = l /\ \A d \in Lookups \ {c} : look'[d] = look[d]
    BY DEF OsintTyped, Becomes
  <1>2. /\ Calling(look) \in SUBSET Lookups /\ Calling(look') \in SUBSET Lookups
        /\ Calling(look) \ {c} = Calling(look') \ {c}
        /\ Calls(look[c]) = (IF c \in Calling(look) THEN 1 ELSE 0)
        /\ Calls(l) = (IF c \in Calling(look') THEN 1 ELSE 0)
    BY <1>1 DEF Calling, Calls
  <1>3. /\ Owing(look) \in SUBSET Lookups /\ Owing(look') \in SUBSET Lookups
        /\ Owing(look) \ {c} = Owing(look') \ {c}
        /\ Owes(look[c]) = (IF c \in Owing(look) THEN 1 ELSE 0)
        /\ Owes(l) = (IF c \in Owing(look') THEN 1 ELSE 0)
    BY <1>1 DEF Owing, Owes
  <1> DEFINE P == Passing(look, stored)
             Q == Passing(look', stored)
  <1>4. /\ P \in SUBSET Lookups /\ Q \in SUBSET Lookups /\ P \ {c} = Q \ {c}
        /\ Passes(look[c], stored) = (IF c \in P THEN 1 ELSE 0)
        /\ Passes(l, stored) = (IF c \in Q THEN 1 ELSE 0)
    BY <1>1 DEF Passing, Passes
  <1>5. /\ Cardinality(Calling(look)) \in Nat /\ Cardinality(Calling(look')) \in Nat
        /\ Cardinality(Calling(look')) + Calls(look[c]) = Cardinality(Calling(look)) + Calls(l)
    BY <1>2, OneLookupMoves
  <1>6. /\ Cardinality(Owing(look)) \in Nat /\ Cardinality(Owing(look')) \in Nat
        /\ Cardinality(Owing(look')) + Owes(look[c]) = Cardinality(Owing(look)) + Owes(l)
    BY <1>3, OneLookupMoves
  <1> HIDE DEF P, Q
  <1>7. /\ Cardinality(P) \in Nat /\ Cardinality(Q) \in Nat
        /\ Cardinality(Q) + Passes(look[c], stored) = Cardinality(P) + Passes(l, stored)
    BY <1>4, OneLookupMoves
  <1> QED
    BY <1>5, <1>6, <1>7 DEF P, Q

LEMMA CarriedCounted ==
    ASSUME NEW flight
    PROVE  /\ IsFiniteSet(Carried(flight)) /\ Cardinality(Carried(flight)) \in Nat
           /\ Cardinality(Carried(flight)) <= Cardinality(OsintFlushers) * Most
           /\ Cardinality(OsintFlushers) \in Nat /\ Most \in Nat /\ Limit \in Nat \ {0}
           /\ Cardinality(Lookups) \in Nat /\ Most = Limit + Cardinality(Lookups) - 1
  <1>1. Cardinality(Lookups) \in Nat /\ Limit \in Nat \ {0} /\ IsFiniteSet(OsintFlushers)
        /\ Cardinality(OsintFlushers) \in Nat
    BY OsintAssumption, FS_CardinalityType
  <1>2. Most \in Nat
    BY <1>1 DEF Most
  <1>3. IsFiniteSet(1..Most) /\ Cardinality(1..Most) = Most
    BY <1>2, FS_Interval
  <1>4. IsFiniteSet(OsintFlushers \X (1..Most))
        /\ Cardinality(OsintFlushers \X (1..Most)) = Cardinality(OsintFlushers) * Most
    BY <1>1, <1>3, FS_Product
  <1>5. Carried(flight) \in SUBSET (OsintFlushers \X (1..Most))
    BY DEF Carried
  <1>6. IsFiniteSet(Carried(flight)) /\ Cardinality(Carried(flight)) <= Cardinality(OsintFlushers) * Most
    BY <1>4, <1>5, FS_Subset
  <1> QED
    BY <1>1, <1>2, <1>6, FS_CardinalityType DEF Most

Least(n) == IF n <= Most THEN n ELSE Most

\* One flush takes a copy: so much more is carried.
LEMMA CarriedGrows ==
    ASSUME NEW flight, NEW f \in OsintFlushers, NEW n \in Nat, NEW copy,
           flight[f]["real"] = 0, f \in DOMAIN flight, copy["real"] = n
    PROVE  Cardinality(Carried([flight EXCEPT ![f] = copy])) = Cardinality(Carried(flight)) + Least(n)
  <1> DEFINE new == [flight EXCEPT ![f] = copy]
             C == Carried(flight)
             A == {f} \X (1..Least(n))
  <1>1. Most \in Nat /\ Least(n) \in Nat /\ Least(n) <= Most /\ Least(n) <= n
    BY CarriedCounted DEF Least
  <1>2. IsFiniteSet(C) /\ Cardinality(C) \in Nat
    BY CarriedCounted
  <1>3. IsFiniteSet(A) /\ Cardinality(A) = Least(n)
    <2>1. IsFiniteSet(1..Least(n)) /\ Cardinality(1..Least(n)) = Least(n)
      BY <1>1, FS_Interval
    <2>2. IsFiniteSet({f}) /\ Cardinality({f}) = 1
      BY FS_Singleton
    <2> DEFINE I == 1..Least(n)
               F == {f}
    <2> HIDE DEF I, F
    <2>3. IsFiniteSet(F \X I) /\ Cardinality(F \X I) = Cardinality(F) * Cardinality(I)
      BY <2>1, <2>2, FS_Product DEF I, F
    <2> QED
      BY <1>1, <2>1, <2>2, <2>3 DEF I, F
  <1>4. \A t \in OsintFlushers \X (1..Most) :
          t \in Carried(new) <=> t \in C \/ t \in A
    <2> SUFFICES ASSUME NEW t \in OsintFlushers \X (1..Most)
                 PROVE  t \in Carried(new) <=> t \in C \/ t \in A
      OBVIOUS
    <2>1. t = <<t[1], t[2]>> /\ t[1] \in OsintFlushers /\ t[2] \in 1..Most
      OBVIOUS
    <2>2. CASE t[1] = f
      <3>1. t \in Carried(new) <=> t[2] <= n
        BY <2>1, <2>2 DEF Carried
      <3>2. t \notin C
        BY <1>1, <2>1, <2>2 DEF Carried
      <3>3. t \in A <=> t[2] \in 1..Least(n)
        BY <2>1, <2>2
      <3>4. t[2] \in 1..Least(n) <=> t[2] <= n
        BY <1>1, <2>1 DEF Least
      <3> QED
        BY <3>1, <3>2, <3>3, <3>4
    <2>3. CASE t[1] # f
      <3>1. new[t[1]] = flight[t[1]] /\ t \notin A
        BY <2>1, <2>3
      <3> QED
        BY <3>1 DEF Carried
    <2> QED
      BY <2>2, <2>3
  <1>5. A \subseteq OsintFlushers \X (1..Most)
    BY <1>1
  <1>6. Carried(new) = C \cup A
    BY <1>4, <1>5 DEF Carried
  <1>7. C \cap A = {}
    BY <1>1 DEF Carried
  <1> HIDE DEF A, C, new
  <1>8. Cardinality(C \cup A) = Cardinality(C) + Cardinality(A) - Cardinality({})
    BY <1>2, <1>3, <1>7, FS_Union
  <1>9. Cardinality(Carried(new)) = Cardinality(C) + Least(n)
    BY <1>1, <1>2, <1>3, <1>6, <1>8, FS_EmptySet
  <1> QED
    BY <1>9 DEF C, new

LEMMA MeterIs ==
    ASSUME OsintTyped
    PROVE  /\ osintMeter.pending["real"] \in Nat /\ osintMeter.stored["real"] \in Nat
           /\ osintMeter.failures \in Nat /\ autoCalls \in Nat /\ DOMAIN osintMeter.flight = OsintFlushers
           /\ \A f \in OsintFlushers : osintMeter.flight[f]["real"] \in Nat
  BY DEF OsintTyped, OsintFlow!Typed, OsintFlow!Counts, Statuses

\* The sum that bounds what is spent, when a lookup moves on.
LEMMA WithinStays ==
    ASSUME NEW spent \in Nat, NEW owed \in Nat, NEW spent2 \in Nat, NEW owed2 \in Nat,
           NEW stored \in Nat, NEW carried \in Nat, Within(spent, stored, carried, owed),
           spent2 <= spent, owed2 - owed >= spent2 - spent
    PROVE  Within(spent2, stored, carried, owed2)
  <1> DEFINE M == (Cardinality(OsintFlushers) + 1) * Most
  <1>1. Most \in Nat /\ Cardinality(OsintFlushers) \in Nat
    BY CarriedCounted
  <1>2. M \in Int
    BY <1>1
  <1> HIDE DEF M
  <1>3. spent <= stored + carried + (IF owed <= Most THEN owed ELSE Most) /\ spent <= M
    BY DEF Within, M
  <1>4. spent2 <= stored + carried + (IF owed2 <= Most THEN owed2 ELSE Most)
    BY <1>1, <1>3
  <1>5. spent2 <= M
    BY <1>2, <1>3
  <1> QED
    BY <1>4, <1>5 DEF Within, M

(* A lookup moves on, and no call gets past the gate by it.                *)
LEMMA LookupMoves ==
    ASSUME OsintInv, NEW c \in Lookups, NEW l \in OsintLook, Becomes(c, l), OsintFlow!Typed', autoCalls' \in Nat,
           osintMeter'.stored["real"] = osintMeter.stored["real"], osintMeter'.flight = osintMeter.flight,
           osintMeter'.failures = osintMeter.failures,
           osintMeter.failures = 0 =>
             /\ l.pc = "cache" => l.who # "auto"
             /\ autoCalls' + Calls(l) + Passes(l, osintMeter.stored["real"])
                  <= autoCalls + Calls(look[c]) + Passes(look[c], osintMeter.stored["real"])
             /\ osintMeter'.pending["real"] + Owes(l) + autoCalls + Calls(look[c])
                  >= osintMeter.pending["real"] + Owes(look[c]) + autoCalls' + Calls(l)
    PROVE  OsintInv'
  <1>1. OsintTyped /\ look' \in [Lookups -> OsintLook] /\ look'[c] = l /\ \A d \in Lookups \ {c} : look'[d] = look[d]
    BY DEF OsintInv, OsintTyped, Becomes
  <1>2. OsintTyped'
    BY <1>1 DEF OsintTyped
  <1>3. osintMeter'.pending["real"] \in Nat
    BY <1>2 DEF OsintTyped, OsintFlow!Typed, OsintFlow!Counts, Statuses
  <1> SUFFICES ASSUME osintMeter.failures = 0
               PROVE  /\ \A d \in Lookups : look'[d].pc = "cache" => look'[d].who # "auto"
                      /\ Within(Spent(look', autoCalls', osintMeter.stored["real"]),
                                osintMeter.stored["real"], Cardinality(Carried(osintMeter.flight)),
                                Owed(look', osintMeter'.pending["real"], osintMeter.stored["real"]))
    BY <1>2 DEF OsintInv
  <1>4. \A d \in Lookups : look'[d].pc = "cache" => look'[d].who # "auto"
    BY <1>1 DEF OsintInv
  <1> DEFINE st == osintMeter.stored["real"]
             pe == osintMeter.pending["real"]
             pe2 == osintMeter'.pending["real"]
             a == Cardinality(Calling(look))
             a2 == Cardinality(Calling(look'))
             o == Cardinality(Owing(look))
             o2 == Cardinality(Owing(look'))
             p == Cardinality(Passing(look, st))
             p2 == Cardinality(Passing(look', st))
             ca == Cardinality(Carried(osintMeter.flight))
  <1>5. /\ a \in Nat /\ a2 \in Nat /\ o \in Nat /\ o2 \in Nat /\ p \in Nat /\ p2 \in Nat
        /\ a2 + Calls(look[c]) = a + Calls(l) /\ o2 + Owes(look[c]) = o + Owes(l)
        /\ p2 + Passes(look[c], st) = p + Passes(l, st)
    BY <1>1, SpentMoves
  <1>6. st \in Nat /\ pe \in Nat /\ pe2 \in Nat /\ autoCalls \in Nat /\ ca \in Nat
    BY <1>1, <1>3, MeterIs, CarriedCounted
  <1>7. /\ \A v : Calls(v) \in {0, 1} /\ Owes(v) \in {0, 1} /\ Passes(v, st) \in {0, 1}
    BY DEF Calls, Owes, Passes
  <1>8. /\ autoCalls' + Calls(l) + Passes(l, st) <= autoCalls + Calls(look[c]) + Passes(look[c], st)
        /\ pe2 + Owes(l) + autoCalls + Calls(look[c]) >= pe + Owes(look[c]) + autoCalls' + Calls(l)
    OBVIOUS
  <1>9. Within(autoCalls + a + p, st, ca, pe + o + p)
    BY DEF OsintInv, Spent, Owed
  <1> HIDE DEF st, pe, pe2, a, a2, o, o2, p, p2, ca
  <1>10. /\ autoCalls' + a2 + p2 <= autoCalls + a + p
         /\ (pe2 + o2 + p2) - (pe + o + p) >= (autoCalls' + a2 + p2) - (autoCalls + a + p)
    BY <1>5, <1>6, <1>7, <1>8
  <1>11. /\ autoCalls' + a2 + p2 \in Nat /\ autoCalls + a + p \in Nat
         /\ pe2 + o2 + p2 \in Nat /\ pe + o + p \in Nat
    BY <1>5, <1>6
  <1>12. Within(autoCalls' + a2 + p2, st, ca, pe2 + o2 + p2)
    BY <1>6, <1>9, <1>10, <1>11, WithinStays
  <1> QED
    BY <1>4, <1>12 DEF Spent, Owed, st, pe, pe2, a, a2, o, o2, p, p2, ca

\* A failure: from then on the bound says nothing.
LEMMA OsintFails ==
    ASSUME OsintTyped', osintMeter.failures \in Nat, osintMeter'.failures = osintMeter.failures + 1
    PROVE  OsintInv'
  BY DEF OsintInv

(* The gate looks at the counters in memory: if it may let this lookup     *)
(* pass, less than Most is waiting there and under way.                    *)
LEMMA ReadPendingKeeps == ASSUME OsintInv, NEW c \in Lookups, ReadPending(c) PROVE OsintInv'
  <1> DEFINE st == osintMeter.stored["real"]
             pe == osintMeter.pending["real"]
             l == [pc |-> "stored", ip |-> look[c].ip, seen |-> pe]
  <1>1. look[c].pc = "pending" /\ Becomes(c, l) /\ UNCHANGED <<osintMeter, autoCalls>>
    BY DEF ReadPending
  <1>2. OsintTyped /\ pe \in Nat /\ st \in Nat /\ autoCalls \in Nat
    BY MeterIs DEF OsintInv
  <1>3. l \in OsintLook /\ l.pc = "stored" /\ l.seen = pe
    BY <1>1, <1>2 DEF OsintTyped, OsintLook, At, Idle
  <1> HIDE DEF l
  <1>4. CASE ~(pe + st < Limit)
    <2>1. Passes(l, st) = 0 /\ Calls(l) = 0 /\ Owes(l) = 0
          /\ Passes(look[c], st) = 0 /\ Calls(look[c]) = 0 /\ Owes(look[c]) = 0
      BY <1>1, <1>3, <1>4 DEF Passes, Calls, Owes
    <2>2. OsintFlow!Typed'
      BY <1>1, <1>2 DEF OsintTyped, OsintFlow!Typed
    <2> QED
      BY <1>1, <1>2, <1>3, <2>1, <2>2, LookupMoves
  <1>5. CASE pe + st < Limit
    <2> DEFINE a == Cardinality(Calling(look))
               a2 == Cardinality(Calling(look'))
               o == Cardinality(Owing(look))
               o2 == Cardinality(Owing(look'))
               p == Cardinality(Passing(look, st))
               p2 == Cardinality(Passing(look', st))
               ca == Cardinality(Carried(osintMeter.flight))
               M == (Cardinality(OsintFlushers) + 1) * Most
               FM == Cardinality(OsintFlushers) * Most
    <2>1. Passes(l, st) = 1 /\ Calls(l) = 0 /\ Owes(l) = 0
          /\ Passes(look[c], st) = 0 /\ Calls(look[c]) = 0 /\ Owes(look[c]) = 0
      BY <1>1, <1>3, <1>5 DEF Passes, Calls, Owes
    <2>2. /\ a \in Nat /\ o \in Nat /\ p \in Nat
          /\ a2 = a /\ o2 = o /\ p2 = p + 1
      <3>1. /\ a \in Nat /\ a2 \in Nat /\ o \in Nat /\ o2 \in Nat /\ p \in Nat /\ p2 \in Nat
            /\ a2 + Calls(look[c]) = a + Calls(l) /\ o2 + Owes(look[c]) = o + Owes(l)
            /\ p2 + Passes(look[c], st) = p + Passes(l, st)
        BY <1>1, <1>2, SpentMoves
      <3> HIDE DEF a, a2, o, o2, p, p2
      <3> QED
        BY <2>1, <3>1
    <2>3. ca \in Nat /\ ca <= FM /\ Most \in Nat /\ Limit \in Nat /\ Cardinality(Lookups) \in Nat
          /\ Most = Limit + Cardinality(Lookups) - 1 /\ Cardinality(OsintFlushers) \in Nat
      BY CarriedCounted
    <2>4. M = FM + Most /\ FM \in Int
      BY <2>3
    <2>5. o + p + 1 <= Cardinality(Lookups)
      <3> DEFINE P == Passing(look, st)
                 O == Owing(look)
      <3>1. /\ P \in SUBSET Lookups /\ O \in SUBSET Lookups /\ P \cap O = {}
            /\ c \notin P \cup O /\ (P \cup O) \cup {c} \in SUBSET Lookups
        BY <1>1 DEF Passing, Owing
      <3>2. IsFiniteSet(P) /\ IsFiniteSet(O) /\ IsFiniteSet(P \cup O)
            /\ Cardinality((P \cup O) \cup {c}) <= Cardinality(Lookups)
        BY <3>1, LookupsCounted
      <3> HIDE DEF P, O
      <3>3. Cardinality(P \cup O) = Cardinality(P) + Cardinality(O) - Cardinality({})
        BY <3>1, <3>2, FS_Union
      <3>4. Cardinality((P \cup O) \cup {c}) = Cardinality(P \cup O) + 1
        BY <3>1, <3>2, FS_AddElement
      <3>5. Cardinality(P) \in Nat /\ Cardinality(O) \in Nat /\ Cardinality({}) = 0
        BY <3>2, FS_CardinalityType, FS_EmptySet
      <3>6. Cardinality(O) + Cardinality(P) + 1 <= Cardinality(Lookups)
        BY <2>3, <3>2, <3>3, <3>4, <3>5
      <3> QED
        BY <3>6 DEF P, O
    <2>6. osintMeter.failures = 0 => Within(autoCalls + a + p, st, ca, pe + o + p)
      BY DEF OsintInv, Spent, Owed
    <2> HIDE DEF a, a2, o, o2, p, p2, ca, M, FM
    <2>7. osintMeter.failures = 0 => Within(autoCalls + a2 + p2, st, ca, pe + o2 + p2)
      <3> SUFFICES ASSUME osintMeter.failures = 0
                   PROVE  Within(autoCalls + a2 + p2, st, ca, pe + o2 + p2)
        OBVIOUS
      <3>1. autoCalls + a + p <= st + ca + (IF pe + o + p <= Most THEN pe + o + p ELSE Most)
        BY <2>6 DEF Within
      <3> HIDE DEF st, pe
      <3>2. pe + o + p + 1 <= Most - st
        BY <1>2, <1>5, <2>2, <2>3, <2>5
      <3>3. autoCalls + a + (p + 1) <= st + ca + (pe + o + (p + 1))
        BY <1>2, <2>2, <2>3, <3>1, <3>2
      <3>4. autoCalls + a + (p + 1) <= M
        BY <1>2, <2>2, <2>3, <2>4, <3>2, <3>3
      <3>5. pe + o + (p + 1) <= Most
        BY <1>2, <2>2, <2>3, <3>2
      <3> QED
        BY <2>2, <3>3, <3>4, <3>5 DEF Within, M
    <2>8. look' \in [Lookups -> OsintLook] /\ look'[c] = l /\ \A d \in Lookups \ {c} : look'[d] = look[d]
      BY <1>1, <1>2, <1>3 DEF OsintTyped, Becomes
    <2>9. OsintTyped'
      BY <1>1, <1>2, <2>8 DEF OsintTyped, OsintFlow!Typed
    <2>10. osintMeter.failures = 0 => \A d \in Lookups : look'[d].pc = "cache" => look'[d].who # "auto"
      BY <1>3, <2>8 DEF OsintInv
    <2> QED
      BY <1>1, <2>7, <2>9, <2>10 DEF OsintInv, Spent, Owed, a2, o2, p2, ca
  <1> QED
    BY <1>4, <1>5

LEMMA CallRecorded ==
    ASSUME OsintTyped, NEW s \in Statuses, Osint!Record(One(s))
    PROVE  /\ OsintFlow!Typed'
           /\ osintMeter'.pending["real"] = osintMeter.pending["real"] + (IF s = "real" THEN 1 ELSE 0)
           /\ osintMeter'.stored = osintMeter.stored /\ osintMeter'.flight = osintMeter.flight
           /\ osintMeter'.failures = osintMeter.failures
  <1>1. One(s) \in OsintFlow!Counts /\ "real" \in Statuses /\ One(s)["real"] = (IF s = "real" THEN 1 ELSE 0)
    BY DEF One, OsintFlow!Counts, Statuses
  <1>2. osintMeter' = [osintMeter EXCEPT !.counted = Osint!Plus(osintMeter.counted, One(s)),
                                         !.pending = Osint!Plus(osintMeter.pending, One(s))]
    BY DEF Osint!Record
  <1>3. OsintFlow!Record(One(s))
    BY <1>2 DEF OsintFlow!Record, Osint!Plus, OsintFlow!Plus
  <1>4. OsintFlow!Typed
    BY DEF OsintTyped
  <1>5. OsintFlow!Typed'
    BY <1>1, <1>3, <1>4, OsintFlow!TypedStep DEF OsintFlow!Next
  <1>6. /\ osintMeter'.pending = Osint!Plus(osintMeter.pending, One(s))
        /\ osintMeter'.stored = osintMeter.stored /\ osintMeter'.flight = osintMeter.flight
        /\ osintMeter'.failures = osintMeter.failures
    BY <1>2, <1>4 DEF OsintFlow!Typed
  <1>7. Osint!Plus(osintMeter.pending, One(s))["real"] = osintMeter.pending["real"] + One(s)["real"]
    BY <1>1 DEF Osint!Plus
  <1> QED
    BY <1>1, <1>5, <1>6, <1>7

LEMMA LookIs ==
    ASSUME OsintTyped, NEW c \in Lookups
    PROVE  /\ look[c] \in OsintLook /\ Idle \in OsintLook /\ Idle.pc = "idle"
           /\ look[c].pc # "idle" => look[c].ip \in Addresses
           /\ look[c].pc \in {"pending", "cache", "call", "count"} => look[c] \in At(look[c].pc)
           /\ \A ip \in Addresses, who \in Callers, pc \in {"pending", "cache", "call", "count"} :
                Step(pc, ip, who) \in OsintLook /\ Step(pc, ip, who).pc = pc /\ Step(pc, ip, who).who = who
           /\ \A ip \in Addresses, answered \in BOOLEAN, fold \in BOOLEAN :
                Write(ip, answered, fold) \in OsintLook /\ Write(ip, answered, fold).pc = "write"
  <1>1. look[c] \in OsintLook /\ Idle \in OsintLook /\ Idle.pc = "idle"
    BY DEF OsintTyped, OsintLook, Idle
  <1>2. look[c].pc # "idle" => look[c].ip \in Addresses
    BY <1>1 DEF OsintLook, At, Idle
  <1>3. look[c].pc \in {"pending", "cache", "call", "count"} => look[c] \in At(look[c].pc)
    BY <1>1 DEF OsintLook, At, Idle
  <1>4. ASSUME NEW ip \in Addresses, NEW who \in Callers, NEW pc \in {"pending", "cache", "call", "count"}
        PROVE  Step(pc, ip, who) \in OsintLook /\ Step(pc, ip, who).pc = pc /\ Step(pc, ip, who).who = who
    BY DEF OsintLook, At, Step
  <1>5. ASSUME NEW ip \in Addresses, NEW answered \in BOOLEAN, NEW fold \in BOOLEAN
        PROVE  Write(ip, answered, fold) \in OsintLook /\ Write(ip, answered, fold).pc = "write"
    BY DEF OsintLook, Write
  <1> QED
    BY <1>1, <1>2, <1>3, <1>4, <1>5

(* A lookup moves on without the meter, and without calling.               *)
LEMMA LookupGoesOn ==
    ASSUME OsintInv, NEW c \in Lookups, NEW l \in OsintLook, Becomes(c, l), UNCHANGED <<osintMeter, autoCalls>>,
           osintMeter.failures = 0 =>
             /\ l.pc = "cache" => l.who # "auto"
             /\ Calls(l) + Passes(l, osintMeter.stored["real"])
                  <= Calls(look[c]) + Passes(look[c], osintMeter.stored["real"])
             /\ Owes(l) + Calls(look[c]) >= Owes(look[c]) + Calls(l)
    PROVE  OsintInv'
  <1>1. OsintTyped /\ osintMeter.pending["real"] \in Nat /\ osintMeter.stored["real"] \in Nat /\ autoCalls \in Nat
    BY MeterIs DEF OsintInv
  <1>2. OsintFlow!Typed'
    BY <1>1 DEF OsintTyped, OsintFlow!Typed
  <1>3. /\ \A v : Calls(v) \in {0, 1} /\ Owes(v) \in {0, 1} /\ Passes(v, osintMeter.stored["real"]) \in {0, 1}
    BY DEF Calls, Owes, Passes
  <1> DEFINE st == osintMeter.stored["real"]
             pe == osintMeter.pending["real"]
  <1>4. osintMeter.failures = 0 =>
          /\ l.pc = "cache" => l.who # "auto"
          /\ autoCalls + Calls(l) + Passes(l, st) <= autoCalls + Calls(look[c]) + Passes(look[c], st)
          /\ pe + Owes(l) + autoCalls + Calls(look[c]) >= pe + Owes(look[c]) + autoCalls + Calls(l)
    <2> HIDE DEF st, pe
    <2> QED
      BY <1>1, <1>3 DEF st, pe
  <1>5. autoCalls' = autoCalls /\ osintMeter' = osintMeter
    OBVIOUS
  <1> QED
    BY <1>1, <1>2, <1>4, <1>5, LookupMoves

\* Whether it is allowed or not: what the cache has decides the rest.
LEMMA UseCacheKeeps ==
    ASSUME OsintInv, NEW c \in Lookups, NEW allowed \in BOOLEAN,
           \/ look[c].pc = "stored"
           \/ look[c].pc = "cache",
           NEW who \in Callers, UseCache(c, look[c].ip, who, allowed),
           osintMeter.failures = 0 /\ allowed /\ who = "auto" => Passes(look[c], osintMeter.stored["real"]) = 1
    PROVE  OsintInv'
  <1> DEFINE st == osintMeter.stored["real"]
             ip == look[c].ip
  <1>1. /\ OsintTyped /\ ip \in Addresses /\ autoCalls' = autoCalls /\ autoCalls \in Nat
        /\ osintMeter.pending["real"] \in Nat /\ st \in Nat
    BY LookIs, MeterIs DEF UseCache, OsintInv
  <1>2. Calls(look[c]) = 0 /\ Owes(look[c]) = 0 /\ \A v : Passes(v, st) \in {0, 1}
    BY DEF Calls, Owes, Passes
  <1>3. CASE Becomes(c, Step("call", ip, who)) /\ UNCHANGED osintMeter /\ allowed
    <2> DEFINE l == Step("call", ip, who)
    <2>1. l \in OsintLook /\ l.pc = "call" /\ l.who = who
      BY <1>1, LookIs
    <2> HIDE DEF l
    <2>2. Passes(l, st) = 0 /\ Calls(l) = (IF who = "auto" THEN 1 ELSE 0) /\ Owes(l) = Calls(l)
      BY <2>1 DEF Passes, Calls, Owes
    <2>3. osintMeter.failures = 0 =>
            /\ Calls(l) + Passes(l, st) <= Calls(look[c]) + Passes(look[c], st)
            /\ Owes(l) + Calls(look[c]) >= Owes(look[c]) + Calls(l)
      BY <1>2, <1>3, <2>2
    <2> QED
      BY <1>1, <1>3, <2>1, <2>3, LookupGoesOn DEF l
  <1>4. CASE Becomes(c, Write(ip, FALSE, FALSE)) /\ UNCHANGED osintMeter
    <2> DEFINE l == Write(ip, FALSE, FALSE)
    <2>1. l \in OsintLook /\ l.pc = "write"
      BY <1>1, LookIs
    <2> HIDE DEF l
    <2>2. Passes(l, st) = 0 /\ Calls(l) = 0 /\ Owes(l) = 0
      BY <2>1 DEF Passes, Calls, Owes
    <2>3. osintMeter.failures = 0 =>
            /\ Calls(l) + Passes(l, st) <= Calls(look[c]) + Passes(look[c], st)
            /\ Owes(l) + Calls(look[c]) >= Owes(look[c]) + Calls(l)
      BY <1>2, <2>2
    <2> QED
      BY <1>1, <1>4, <2>1, <2>3, LookupGoesOn DEF l
  <1>5. CASE Becomes(c, Idle) /\ Osint!Record(One("cache_hit"))
    <2>1. /\ OsintFlow!Typed' /\ osintMeter'.pending["real"] = osintMeter.pending["real"] + 0
          /\ osintMeter'.stored = osintMeter.stored /\ osintMeter'.flight = osintMeter.flight
          /\ osintMeter'.failures = osintMeter.failures
      BY <1>1, <1>5, CallRecorded DEF Statuses
    <2>2. Passes(Idle, st) = 0 /\ Calls(Idle) = 0 /\ Owes(Idle) = 0 /\ Idle \in OsintLook /\ Idle.pc = "idle"
      BY <1>1, LookIs DEF Passes, Calls, Owes
    <2>3. /\ autoCalls' + Calls(Idle) + Passes(Idle, st) <= autoCalls + Calls(look[c]) + Passes(look[c], st)
          /\ osintMeter'.pending["real"] + Owes(Idle) + autoCalls + Calls(look[c])
               >= osintMeter.pending["real"] + Owes(look[c]) + autoCalls' + Calls(Idle)
      BY <1>1, <1>2, <2>1, <2>2
    <2> QED
      BY <1>1, <1>5, <2>1, <2>2, <2>3, LookupMoves
  <1> QED
    BY <1>3, <1>4, <1>5 DEF UseCache

LEMMA CallShodanKeeps == ASSUME OsintInv, NEW c \in Lookups, CallShodan(c) PROVE OsintInv'
  <1> DEFINE v == look[c]
             l == [v EXCEPT !.pc = "count"]
             st == osintMeter.stored["real"]
  <1>1. /\ v.pc = "call" /\ Becomes(c, l) /\ osintMeter' = osintMeter
        /\ autoCalls' = IF v.who = "auto" THEN autoCalls + 1 ELSE autoCalls
    BY DEF CallShodan
  <1>2. /\ OsintTyped /\ autoCalls \in Nat /\ osintMeter.pending["real"] \in Nat
        /\ v \in [pc : {"call"}, ip : Addresses, who : Callers]
    BY <1>1, MeterIs, LookIs DEF OsintInv, At
  <1>3. l \in OsintLook /\ l.pc = "count" /\ l.who = v.who
    BY <1>2 DEF OsintLook, At
  <1> HIDE DEF v, l
  <1>4. /\ Calls(v) = (IF v.who = "auto" THEN 1 ELSE 0) /\ Owes(v) = Calls(v) /\ Passes(v, st) = 0
        /\ Calls(l) = 0 /\ Owes(l) = Owes(v) /\ Passes(l, st) = 0
    BY <1>1, <1>3 DEF Calls, Owes, Passes
  <1>5. /\ autoCalls' + Calls(l) + Passes(l, st) <= autoCalls + Calls(v) + Passes(v, st)
        /\ osintMeter'.pending["real"] + Owes(l) + autoCalls + Calls(v)
             >= osintMeter.pending["real"] + Owes(v) + autoCalls' + Calls(l)
        /\ autoCalls' \in Nat
    BY <1>1, <1>2, <1>4
  <1>6. OsintFlow!Typed'
    BY <1>1, <1>2 DEF OsintTyped, OsintFlow!Typed
  <1> QED
    BY <1>1, <1>2, <1>3, <1>5, <1>6, LookupMoves DEF v

LEMMA CountCallKeeps == ASSUME OsintInv, NEW c \in Lookups, CountCall(c) PROVE OsintInv'
  <1> DEFINE v == look[c]
             st == osintMeter.stored["real"]
             fold == v.who = "button"
  <1>1. PICK answered \in BOOLEAN : Becomes(c, Write(v.ip, answered, fold))
    BY DEF CountCall
  <1>2. v.pc = "count" /\ Osint!Record(One("real")) /\ autoCalls' = autoCalls
    BY DEF CountCall
  <1>3. /\ OsintTyped /\ autoCalls \in Nat /\ osintMeter.pending["real"] \in Nat /\ v.ip \in Addresses
    BY <1>2, MeterIs, LookIs DEF OsintInv
  <1> DEFINE l == Write(v.ip, answered, fold)
  <1>4. fold \in BOOLEAN
    OBVIOUS
  <1> HIDE DEF fold
  <1>5. l \in OsintLook /\ l.pc = "write"
    BY <1>3, <1>4, LookIs
  <1>6. /\ OsintFlow!Typed' /\ osintMeter'.pending["real"] = osintMeter.pending["real"] + 1
        /\ osintMeter'.stored = osintMeter.stored /\ osintMeter'.flight = osintMeter.flight
        /\ osintMeter'.failures = osintMeter.failures
    BY <1>2, <1>3, CallRecorded DEF Statuses
  <1> HIDE DEF v, l
  <1>7. /\ Calls(v) = 0 /\ Owes(v) \in {0, 1} /\ Passes(v, st) = 0
        /\ Calls(l) = 0 /\ Owes(l) = 0 /\ Passes(l, st) = 0
    BY <1>2, <1>5 DEF Calls, Owes, Passes
  <1>8. /\ autoCalls' + Calls(l) + Passes(l, st) <= autoCalls + Calls(v) + Passes(v, st)
        /\ osintMeter'.pending["real"] + Owes(l) + autoCalls + Calls(v)
             >= osintMeter.pending["real"] + Owes(v) + autoCalls' + Calls(l)
    BY <1>2, <1>3, <1>6, <1>7
  <1> QED
    BY <1>1, <1>2, <1>3, <1>5, <1>6, <1>8, LookupMoves DEF v, l

LEMMA QuietLookups ==
    ASSUME OsintInv, NEW c \in Lookups, StartLookup(c) \/ PressButton(c) \/ WriteCache(c)
    PROVE  OsintInv'
  <1>1. OsintTyped /\ UNCHANGED <<osintMeter, autoCalls>> /\ look[c].pc \in {"idle", "write"}
    BY DEF OsintInv, StartLookup, PressButton, WriteCache, Idle
  <1>2. PICK l \in {Idle} \cup {Step("pending", ip, "auto") : ip \in Addresses}
                   \cup {Step("cache", ip, "person") : ip \in Addresses}
                   \cup {Step("call", ip, "button") : ip \in Addresses} : Becomes(c, l)
    BY DEF StartLookup, PressButton, WriteCache
  <1>3. /\ l \in OsintLook /\ l.pc \in {"idle", "pending", "cache", "call"}
        /\ l.pc \in {"cache", "call"} => l.who # "auto"
    BY <1>1, <1>2, LookIs DEF Callers
  <1>4. /\ Calls(l) = 0 /\ Owes(l) = 0 /\ Passes(l, osintMeter.stored["real"]) = 0
        /\ Calls(look[c]) = 0 /\ Owes(look[c]) = 0 /\ Passes(look[c], osintMeter.stored["real"]) = 0
    BY <1>1, <1>3 DEF Calls, Owes, Passes
  <1> QED
    BY <1>1, <1>2, <1>3, <1>4, LookupGoesOn

LEMMA GateFailedKeeps == ASSUME OsintInv, NEW c \in Lookups, GateFailed(c) PROVE OsintInv'
  <1>1. /\ look[c].pc \in {"pending", "stored"} /\ Becomes(c, Step("cache", look[c].ip, "auto"))
        /\ osintMeter' = [osintMeter EXCEPT !.failures = osintMeter.failures + 1]
        /\ autoCalls' = autoCalls
    BY DEF GateFailed
  <1>2. OsintTyped /\ osintMeter.failures \in Nat
    BY MeterIs DEF OsintInv
  <1>3. Step("cache", look[c].ip, "auto") \in OsintLook
    BY <1>1, <1>2, LookIs DEF Callers
  <1>4. OsintFlow!Typed' /\ osintMeter'.failures = osintMeter.failures + 1 /\ osintMeter'.stored = osintMeter.stored
    BY <1>1, <1>2 DEF OsintTyped, OsintFlow!Typed
  <1>5. look' \in [Lookups -> OsintLook]
    BY <1>1, <1>2, <1>3 DEF OsintTyped, Becomes
  <1>6. OsintTyped'
    BY <1>1, <1>2, <1>4, <1>5 DEF OsintTyped
  <1> QED
    BY <1>2, <1>4, <1>6, OsintFails

LEMMA TakeKeeps ==
    ASSUME OsintInv, NEW f \in OsintFlushers, Osint!Take(f), UNCHANGED <<look, autoCalls>>
    PROVE  OsintInv'
  <1> DEFINE pe == osintMeter.pending["real"]
             st == osintMeter.stored["real"]
             fl == osintMeter.flight
  <1>1. OsintTyped /\ OsintFlow!Typed /\ pe \in Nat /\ st \in Nat
    BY MeterIs DEF OsintInv, OsintTyped
  <1>2. OsintFlow!Take(f)
    BY DEF Osint!Take, OsintFlow!Take, Osint!Zero, OsintFlow!Zero, Osint!Plus, OsintFlow!Plus
  <1>3. OsintFlow!Typed'
    BY <1>1, <1>2, OsintFlow!TypedStep DEF OsintFlow!Next
  <1>4. /\ osintMeter.flight[f] = Osint!Zero /\ osintMeter'.pending = Osint!Zero
        /\ osintMeter'.flight = [fl EXCEPT ![f] = osintMeter.pending]
        /\ osintMeter'.stored = osintMeter.stored /\ osintMeter'.failures = osintMeter.failures
    BY <1>1 DEF Osint!Take, OsintFlow!Typed
  <1>5. fl[f]["real"] = 0 /\ osintMeter'.pending["real"] = 0 /\ f \in DOMAIN fl
    BY <1>1, <1>4, MeterIs DEF Osint!Zero, Statuses
  <1>6. Cardinality(Carried(osintMeter'.flight)) = Cardinality(Carried(fl)) + Least(pe)
    BY <1>1, <1>4, <1>5, CarriedGrows
  <1>7. OsintTyped'
    BY <1>1, <1>3, <1>4 DEF OsintTyped
  <1> DEFINE a == Cardinality(Calling(look))
             o == Cardinality(Owing(look))
             p == Cardinality(Passing(look, st))
             ca == Cardinality(Carried(fl))
             ca2 == Cardinality(Carried(osintMeter'.flight))
  <1>8. osintMeter.failures = 0 => Within(autoCalls + a + p, st, ca, pe + o + p)
    BY DEF OsintInv, Spent, Owed
  <1>9. a \in Nat /\ o \in Nat /\ p \in Nat /\ ca \in Nat /\ Most \in Nat /\ autoCalls \in Nat
    BY <1>1, LookupsCounted, CarriedCounted, MeterIs DEF Calling, Owing, Passing
  <1>10. osintMeter.failures = 0 => \A d \in Lookups : look'[d].pc = "cache" => look'[d].who # "auto"
    BY DEF OsintInv
  <1>11. osintMeter'.stored["real"] = st
    BY <1>4
  <1> HIDE DEF a, o, p, ca, ca2, pe, st
  <1>12. osintMeter.failures = 0 => Within(autoCalls + a + p, st, ca2, 0 + o + p)
    BY <1>1, <1>6, <1>8, <1>9 DEF Within, Least, ca, ca2
  <1> QED
    BY <1>4, <1>5, <1>7, <1>10, <1>11, <1>12 DEF OsintInv, Spent, Owed, a, o, p, ca2

LEMMA CommitKeeps ==
    ASSUME OsintInv, NEW f \in OsintFlushers, Osint!Commit(f), UNCHANGED <<look, autoCalls>>
    PROVE  OsintInv'
  <1> DEFINE pe == osintMeter.pending["real"]
             st == osintMeter.stored["real"]
             st2 == osintMeter'.stored["real"]
             fl == osintMeter.flight
             n == fl[f]["real"]
             back == osintMeter'.flight
  <1>1. OsintTyped /\ OsintFlow!Typed /\ pe \in Nat /\ st \in Nat /\ n \in Nat
    BY MeterIs DEF OsintInv, OsintTyped
  <1>2. OsintFlow!Commit(f)
    BY DEF Osint!Commit, OsintFlow!Commit, Osint!Zero, OsintFlow!Zero, Osint!Plus, OsintFlow!Plus,
           Osint!Minus, OsintFlow!Minus
  <1>3. OsintFlow!Typed'
    BY <1>1, <1>2, OsintFlow!TypedStep DEF OsintFlow!Next
  <1>4. /\ osintMeter'.pending = osintMeter.pending /\ back = [fl EXCEPT ![f] = Osint!Zero]
        /\ osintMeter'.stored = Osint!Plus(osintMeter.stored, fl[f])
        /\ osintMeter'.failures = osintMeter.failures
    BY <1>1 DEF Osint!Commit, OsintFlow!Typed
  <1>5. f \in DOMAIN fl /\ back[f]["real"] = 0 /\ f \in DOMAIN back /\ st2 = st + n
    BY <1>1, <1>4, MeterIs DEF Osint!Zero, Osint!Plus, Statuses
  <1>6. fl = [back EXCEPT ![f] = fl[f]]
    <2>1. fl \in [OsintFlushers -> OsintFlow!Counts]
      BY <1>1 DEF OsintFlow!Typed
    <2> QED
      BY <1>4, <2>1
  <1>7. Cardinality(Carried(fl)) = Cardinality(Carried(back)) + Least(n)
    <2> HIDE DEF back, fl
    <2>1. Cardinality(Carried([back EXCEPT ![f] = fl[f]])) = Cardinality(Carried(back)) + Least(n)
      BY <1>1, <1>5, CarriedGrows DEF n
    <2> QED
      BY <1>6, <2>1
  <1>8. st2 \in Nat
    BY <1>1, <1>5
  <1>9. OsintTyped'
    BY <1>1, <1>3, <1>4, <1>8 DEF OsintTyped
  <1> DEFINE a == Cardinality(Calling(look))
             o == Cardinality(Owing(look))
             p == Cardinality(Passing(look, st))
             p2 == Cardinality(Passing(look, st2))
             ca == Cardinality(Carried(fl))
             ca2 == Cardinality(Carried(back))
  <1>10. osintMeter.failures = 0 => Within(autoCalls + a + p, st, ca, pe + o + p)
    BY DEF OsintInv, Spent, Owed
  <1>11. /\ a \in Nat /\ o \in Nat /\ p \in Nat /\ p2 \in Nat /\ ca2 \in Nat /\ Most \in Nat /\ autoCalls \in Nat
    <2>1. a \in Nat /\ o \in Nat /\ ca2 \in Nat /\ Most \in Nat /\ autoCalls \in Nat
      BY <1>1, LookupsCounted, CarriedCounted, MeterIs DEF Calling, Owing
    <2>2. p \in Nat /\ p2 \in Nat
      BY LookupsCounted DEF Passing
    <2> QED
      BY <2>1, <2>2
  <1>12. p2 <= p
    <2>1. Passing(look, st) \in SUBSET Lookups
      BY DEF Passing
    <2>2. \A c \in Lookups : look[c].pc = "stored" => look[c].seen \in Nat
      BY <1>1, LookIs DEF OsintLook, At, Idle
    <2>3. Passing(look, st2) \in SUBSET Passing(look, st)
      <3> HIDE DEF st, st2, n
      <3> QED
        BY <1>1, <1>5, <2>2, OsintAssumption DEF Passing
    <2> QED
      BY <2>1, <2>3, LookupsCounted, FS_Subset
  <1>13. osintMeter.failures = 0 => \A d \in Lookups : look'[d].pc = "cache" => look'[d].who # "auto"
    BY DEF OsintInv
  <1>14. ca = ca2 + Least(n)
    BY <1>7
  <1> DEFINE M == (Cardinality(OsintFlushers) + 1) * Most
  <1>15. M \in Int
    BY CarriedCounted
  <1> HIDE DEF a, o, p, p2, ca, ca2, pe, st, st2, n, M
  <1>16. osintMeter.failures = 0 => Within(autoCalls + a + p2, st2, ca2, pe + o + p2)
    <2> SUFFICES ASSUME osintMeter.failures = 0
                 PROVE  Within(autoCalls + a + p2, st2, ca2, pe + o + p2)
      OBVIOUS
    <2>1. /\ autoCalls + a + p <= st + ca + (IF pe + o + p <= Most THEN pe + o + p ELSE Most)
          /\ autoCalls + a + p <= M
      BY <1>10 DEF Within, M
    <2>2. Least(n) <= n
      BY <1>1, <1>11 DEF Least
    <2>3. autoCalls + a + p <= st2 + ca2 + (IF pe + o + p <= Most THEN pe + o + p ELSE Most)
      BY <1>1, <1>5, <1>11, <1>14, <2>1, <2>2 DEF Least
    <2>4. autoCalls + a + p2 <= st2 + ca2 + (IF pe + o + p2 <= Most THEN pe + o + p2 ELSE Most)
      BY <1>1, <1>8, <1>11, <1>12, <2>3
    <2>5. autoCalls + a + p2 <= M
      BY <1>11, <1>12, <1>15, <2>1
    <2> QED
      BY <2>4, <2>5 DEF Within, M
  <1>17. osintMeter'.pending["real"] = pe
    BY <1>4 DEF pe
  <1> QED
    BY <1>4, <1>9, <1>13, <1>16, <1>17 DEF OsintInv, Spent, Owed, a, o, p2, ca2, st2

\* A flush that fails and a backend that dies.
LEMMA FailKeeps ==
    ASSUME OsintInv, NEW f \in OsintFlushers, Osint!Fail(f), UNCHANGED <<look, autoCalls>>
    PROVE  OsintInv'
  <1>1. OsintTyped /\ OsintFlow!Typed /\ osintMeter.failures \in Nat
    BY MeterIs DEF OsintInv, OsintTyped
  <1>2. OsintFlow!Fail(f)
    BY DEF Osint!Fail, OsintFlow!Fail, Osint!Zero, OsintFlow!Zero, Osint!Plus, OsintFlow!Plus,
           Osint!Minus, OsintFlow!Minus
  <1>3. OsintFlow!Typed'
    BY <1>1, <1>2, OsintFlow!TypedStep DEF OsintFlow!Next
  <1>4. osintMeter'.failures = osintMeter.failures + 1 /\ osintMeter'.stored = osintMeter.stored
    BY <1>1 DEF Osint!Fail, OsintFlow!Typed
  <1>5. OsintTyped'
    BY <1>1, <1>3, <1>4 DEF OsintTyped
  <1> QED
    BY <1>1, <1>4, <1>5, OsintFails

LEMMA BackendDiesKeeps == ASSUME OsintInv, BackendDies PROVE OsintInv'
  <1>1. OsintTyped /\ OsintFlow!Typed /\ osintMeter.failures \in Nat /\ autoCalls \in Nat
    BY MeterIs DEF OsintInv, OsintTyped
  <1>2. Osint!Die /\ look' = [c \in Lookups |-> Idle] /\ autoCalls' = autoCalls
    BY DEF BackendDies
  <1>3. OsintFlow!Die
    BY <1>2 DEF Osint!Die, OsintFlow!Die, Osint!Zero, OsintFlow!Zero, Osint!Plus, OsintFlow!Plus
  <1>4. OsintFlow!Typed'
    BY <1>1, <1>3, OsintFlow!TypedStep DEF OsintFlow!Next
  <1>5. osintMeter'.failures = osintMeter.failures + 1 /\ osintMeter'.stored = osintMeter.stored
    BY <1>1, <1>2 DEF Osint!Die, OsintFlow!Typed
  <1>6. look' \in [Lookups -> OsintLook]
    BY <1>2 DEF OsintLook
  <1>7. OsintTyped'
    BY <1>1, <1>2, <1>4, <1>5, <1>6 DEF OsintTyped
  <1> QED
    BY <1>1, <1>5, <1>7, OsintFails

LEMMA OsintNext == OsintInv /\ [OsintStep]_osintVars => OsintInv'
  <1> SUFFICES ASSUME OsintInv, [OsintStep]_osintVars
               PROVE  OsintInv'
    OBVIOUS
  <1>1. ASSUME UNCHANGED <<osintMeter, look, autoCalls>>
        PROVE  OsintInv'
    BY <1>1 DEF OsintInv, OsintTyped, OsintFlow!Typed
  <1>2. CASE UNCHANGED osintVars
    BY <1>1, <1>2 DEF osintVars
  <1>3. ASSUME NEW ip \in Addresses, Expire(ip)
        PROVE  OsintInv'
    BY <1>1, <1>3 DEF Expire
  <1>4. ASSUME NEW f \in OsintFlushers, OsintFlush(f)
        PROVE  OsintInv'
    BY <1>4, TakeKeeps, CommitKeeps, FailKeeps DEF OsintFlush
  <1>5. ASSUME NEW c \in Lookups, ReadStored(c)
        PROVE  OsintInv'
    <2> DEFINE allowed == look[c].seen + osintMeter.stored["real"] < Limit
    <2>1. look[c].pc = "stored" /\ UseCache(c, look[c].ip, "auto", allowed)
      BY <1>5 DEF ReadStored
    <2>2. allowed \in BOOLEAN
      OBVIOUS
    <2>3. allowed => Passes(look[c], osintMeter.stored["real"]) = 1
      BY <2>1 DEF Passes
    <2> HIDE DEF allowed
    <2> QED
      BY <2>1, <2>2, <2>3, UseCacheKeeps DEF Callers
  <1>6. ASSUME NEW c \in Lookups, ReadCache(c)
        PROVE  OsintInv'
    <2>1. look[c].pc = "cache" /\ UseCache(c, look[c].ip, look[c].who, TRUE)
      BY <1>6 DEF ReadCache
    <2>2. look[c].who \in Callers
      BY <2>1, LookIs DEF OsintInv, At
    <2>3. osintMeter.failures = 0 => look[c].who # "auto"
      BY <2>1 DEF OsintInv
    <2> QED
      BY <2>1, <2>2, <2>3, UseCacheKeeps
  <1>7. ASSUME NEW c \in Lookups, StartLookup(c) \/ PressButton(c) \/ LookupStep(c)
        PROVE  OsintInv'
    BY <1>5, <1>6, <1>7, QuietLookups, ReadPendingKeeps, GateFailedKeeps, CallShodanKeeps, CountCallKeeps
       DEF LookupStep
  <1> QED
    BY <1>2, <1>3, <1>4, <1>7, BackendDiesKeeps DEF OsintStep

LEMMA OsintStart == OsintInit => OsintInv
  <1> SUFFICES ASSUME OsintInit
               PROVE  OsintInv
    OBVIOUS
  <1>1. Osint!MeterInit /\ look = [c \in Lookups |-> Idle] /\ autoCalls = 0
    BY DEF OsintInit
  <1>2. OsintFlow!Typed
    <2>1. OsintFlow!MeterInit
      BY <1>1 DEF Osint!MeterInit, OsintFlow!MeterInit, Osint!Zero, OsintFlow!Zero
    <2> QED
      BY <2>1, OsintFlow!TypedInit
  <1>3. osintMeter.stored["real"] = 0 /\ osintMeter.pending["real"] = 0 /\ osintMeter.failures = 0
    BY <1>1 DEF Osint!MeterInit, Osint!Zero, Statuses
  <1>4. \A c \in Lookups : look[c].pc = "idle"
    BY <1>1 DEF Idle
  <1>5. OsintTyped
    BY <1>1, <1>2, <1>3 DEF OsintTyped, OsintLook
  <1>6. Calling(look) = {} /\ Owing(look) = {} /\ Passing(look, 0) = {}
    BY <1>4 DEF Calling, Owing, Passing
  <1> DEFINE ca == Cardinality(Carried(osintMeter.flight))
             F == Cardinality(OsintFlushers)
             E == Cardinality({})
  <1>7. ca \in Nat /\ F \in Nat /\ Most \in Nat /\ E = 0
    BY CarriedCounted, FS_EmptySet
  <1>8. (F + 1) * Most >= 0
    BY <1>7
  <1> HIDE DEF ca, F, E
  <1>9. Within(0 + E + E, 0, ca, 0 + E + E)
    BY <1>7, <1>8 DEF Within, F
  <1> QED
    BY <1>1, <1>3, <1>4, <1>5, <1>6, <1>9 DEF OsintInv, Spent, Owed, ca, E

(* With nothing lost, F flushes at a time and K lookups spend at most      *)
(* (F + 1) * (Limit + K - 1) calls in automatic lookups, whatever people   *)
(* call beside them: what a flush carries is hidden from the gate, and so  *)
(* is what a lookup has not counted yet.                                   *)
THEOREM LimitOverrunBounded == OsintSpec => []OvershootBounded
  <1>1. OsintInv => OvershootBounded
    <2> SUFFICES ASSUME OsintInv, osintMeter.failures = 0
                 PROVE  autoCalls <= (Cardinality(OsintFlushers) + 1) * (Limit + Cardinality(Lookups) - 1)
      BY DEF OvershootBounded
    <2> DEFINE a == Cardinality(Calling(look))
               p == Cardinality(Passing(look, osintMeter.stored["real"]))
               M == (Cardinality(OsintFlushers) + 1) * Most
    <2>1. a \in Nat /\ p \in Nat /\ autoCalls \in Nat
      BY LookupsCounted, MeterIs DEF OsintInv, Calling, Passing
    <2>2. autoCalls + a + p <= M
      BY DEF OsintInv, Within, Spent
    <2>3. M \in Int
      BY CarriedCounted
    <2> HIDE DEF a, p, M
    <2>4. autoCalls <= M
      BY <2>1, <2>2, <2>3
    <2> QED
      BY <2>4 DEF M, Most
  <1> QED
    BY <1>1, OsintStart, OsintNext, PTL DEF OsintSpec

----------------------------------------------------------------------------
(* Proofs: the counters that are flushed                                   *)

LlmSpec == LlmInit /\ [][LlmStep]_llmVars

LlmFlow == INSTANCE FlushBufferProofs WITH
               Keys <- Fields, Flushers <- LlmFlushers, meter <- llmMeter

NetSpec == NetInit /\ [][MonitorStep]_<<netVars, clock, monitorVars>>

NetFlowing == INSTANCE FlushBufferProofs WITH
                  Keys <- Pairs \cup Ifaces, Flushers <- Loop, meter <- netMeter

\* The counters of the language model are a buffer like the one proved about.
LEMMA LlmIsBuffer == LlmSpec => LlmFlow!Spec
  <1>1. LlmInit => LlmFlow!MeterInit
    BY DEF LlmInit, Llm!MeterInit, LlmFlow!MeterInit, Llm!Zero, LlmFlow!Zero
  <1>2. ASSUME [LlmStep]_llmVars
        PROVE  [LlmFlow!Next]_llmMeter
    <2> USE DEF Llm!Zero, LlmFlow!Zero, Llm!Plus, LlmFlow!Plus, Llm!Minus, LlmFlow!Minus
    <2>1. ASSUME NEW calls \in Nat, NEW tokens \in Nat, Llm!Record([calls |-> calls, tokens |-> tokens])
          PROVE  LlmFlow!Next
      <3> DEFINE d == [calls |-> calls, tokens |-> tokens]
      <3>1. d \in LlmFlow!Counts
        BY DEF LlmFlow!Counts, Fields
      <3>2. LlmFlow!Record(d)
        BY <2>1 DEF Llm!Record, LlmFlow!Record
      <3> HIDE DEF d
      <3> QED
        BY <3>1, <3>2 DEF LlmFlow!Next
    <2>2. ASSUME NEW f \in LlmFlushers, LlmFlush(f)
          PROVE  LlmFlow!Next
      BY <2>2 DEF LlmFlush, Llm!Take, Llm!Commit, Llm!Fail, LlmFlow!Next, LlmFlow!Take, LlmFlow!Commit,
                  LlmFlow!Fail
    <2>3. CASE LlmProcessDies
      BY <2>3 DEF LlmProcessDies, Llm!Die, LlmFlow!Die, LlmFlow!Next
    <2>4. CASE TestConnection
      BY <2>1, <2>4 DEF TestConnection
    <2>5. ASSUME NEW c \in LlmCallers, Ask(c) \/ AskPlainly(c) \/ Answered(c)
          PROVE  LlmFlow!Next \/ llmMeter' = llmMeter
      BY <2>1, <2>5 DEF Ask, AskPlainly, Answered
    <2> QED
      BY <1>2, <2>2, <2>3, <2>4, <2>5 DEF LlmStep, llmVars
  <1> QED
    BY <1>1, <1>2, PTL DEF LlmSpec, LlmFlow!Spec

(* llm_usage counts every recorded call and its tokens at most once and    *)
(* misses them only after a failed write or a crash.                       *)
THEOREM LlmCallsCountedOnce == LlmSpec => LlmImplementsCounter
  <1>1. LlmFlow!Spec => LlmFlow!Implemented
    BY LlmFlow!FlushBufferImplementsCounter
  <1>2. /\ LlmFlow!Counter!Init => Llm!Counter!Init
        /\ [LlmFlow!Counter!Next]_(LlmFlow!Counter!vars) => [Llm!Counter!Next]_(Llm!Counter!vars)
    <2> USE DEF LlmFlow!Counter!Zero, Llm!Counter!Zero, LlmFlow!Counter!vars, Llm!Counter!vars,
                LlmFlow!Plus, Llm!Plus
    <2>1. LlmFlow!Counter!Init => Llm!Counter!Init
      BY DEF LlmFlow!Counter!Init, Llm!Counter!Init
    <2>2. LlmFlow!Counter!Next => Llm!Counter!Next
      BY DEF LlmFlow!Counter!Next, Llm!Counter!Next, LlmFlow!Counter!Count, Llm!Counter!Count,
             LlmFlow!Counter!Store, Llm!Counter!Store, LlmFlow!Counter!Lose, Llm!Counter!Lose,
             LlmFlow!Counter!MovesTo, Llm!Counter!MovesTo
    <2> QED
      BY <2>1, <2>2
  <1> QED
    BY <1>1, <1>2, LlmIsBuffer, PTL DEF LlmImplementsCounter, Llm!Implemented, LlmFlow!Implemented,
       LlmFlow!Counter!Spec, Llm!Counter!Spec

(* A crash or a failure that loses nothing of what the meter holds: a loss *)
(* of nothing.                                                             *)
LEMMA OsintLosesNothing ==
    ASSUME OsintFlow!Typed, osintMeter' = [osintMeter EXCEPT !.failures = osintMeter.failures + 1]
    PROVE  OsintFlow!Typed' /\ OsintFlow!Counter!Next
  <1> DEFINE waiting == OsintFlow!Plus(osintMeter.pending, osintMeter.inflight)
  <1>1. /\ osintMeter'.pending = osintMeter.pending /\ osintMeter'.inflight = osintMeter.inflight
        /\ osintMeter'.lost = osintMeter.lost /\ osintMeter'.counted = osintMeter.counted
        /\ osintMeter'.stored = osintMeter.stored /\ osintMeter'.failures = osintMeter.failures + 1
    BY DEF OsintFlow!Typed
  <1>2. \A k \in Statuses : waiting[k] \in Int /\ osintMeter.lost[k] \in Int
    BY DEF OsintFlow!Plus, OsintFlow!Typed, OsintFlow!Counts, OsintFlow!Vectors
  <1>3. OsintFlow!Plus(osintMeter'.pending, osintMeter'.inflight) = waiting
    BY <1>1
  <1> HIDE DEF waiting
  <1>4. OsintFlow!Counter!Lose
    BY <1>1, <1>2, <1>3 DEF OsintFlow!Counter!Lose, OsintFlow!Counter!MovesTo, waiting
  <1>5. OsintFlow!Typed'
    BY DEF OsintFlow!Typed
  <1> QED
    BY <1>4, <1>5 DEF OsintFlow!Counter!Next

LEMMA NetLosesNothing ==
    ASSUME NetFlowing!Typed, netMeter' = [netMeter EXCEPT !.failures = netMeter.failures + 1]
    PROVE  NetFlowing!Typed' /\ NetFlowing!Counter!Next
  <1> DEFINE waiting == NetFlowing!Plus(netMeter.pending, netMeter.inflight)
  <1>1. /\ netMeter'.pending = netMeter.pending /\ netMeter'.inflight = netMeter.inflight
        /\ netMeter'.lost = netMeter.lost /\ netMeter'.counted = netMeter.counted
        /\ netMeter'.stored = netMeter.stored /\ netMeter'.failures = netMeter.failures + 1
    BY DEF NetFlowing!Typed
  <1>2. \A k \in Pairs \cup Ifaces : waiting[k] \in Int /\ netMeter.lost[k] \in Int
    BY DEF NetFlowing!Plus, NetFlowing!Typed, NetFlowing!Counts, NetFlowing!Vectors
  <1>3. NetFlowing!Plus(netMeter'.pending, netMeter'.inflight) = waiting
    BY <1>1
  <1> HIDE DEF waiting
  <1>4. NetFlowing!Counter!Lose
    BY <1>1, <1>2, <1>3 DEF NetFlowing!Counter!Lose, NetFlowing!Counter!MovesTo, waiting
  <1>5. NetFlowing!Typed'
    BY DEF NetFlowing!Typed
  <1> QED
    BY <1>4, <1>5 DEF NetFlowing!Counter!Next

\* What a step does to the meter of OSINT calls.
LEMMA OsintMoves ==
    ASSUME [OsintStep]_osintVars
    PROVE  \/ [OsintFlow!Next]_osintMeter
           \/ osintMeter' = [osintMeter EXCEPT !.failures = osintMeter.failures + 1]
  <1> USE DEF Osint!Zero, OsintFlow!Zero, Osint!Plus, OsintFlow!Plus, Osint!Minus, OsintFlow!Minus
  <1>1. ASSUME NEW s \in Statuses, Osint!Record(One(s))
        PROVE  OsintFlow!Next
    <2>1. One(s) \in OsintFlow!Counts
      BY DEF One, OsintFlow!Counts
    <2>2. OsintFlow!Record(One(s))
      BY <1>1 DEF Osint!Record, OsintFlow!Record
    <2> QED
      BY <2>1, <2>2 DEF OsintFlow!Next
  <1>2. ASSUME NEW f \in OsintFlushers, OsintFlush(f)
        PROVE  OsintFlow!Next
    BY <1>2 DEF OsintFlush, Osint!Take, Osint!Commit, Osint!Fail, OsintFlow!Next, OsintFlow!Take,
                OsintFlow!Commit, OsintFlow!Fail
  <1>3. CASE BackendDies
    BY <1>3 DEF BackendDies, Osint!Die, OsintFlow!Die, OsintFlow!Next
  <1>4. ASSUME NEW c \in Lookups, GateFailed(c)
        PROVE  osintMeter' = [osintMeter EXCEPT !.failures = osintMeter.failures + 1]
    BY <1>4 DEF GateFailed
  <1>5. ASSUME NEW c \in Lookups, ReadStored(c) \/ ReadCache(c) \/ CountCall(c)
        PROVE  OsintFlow!Next \/ osintMeter' = osintMeter
    BY <1>1, <1>5 DEF ReadStored, ReadCache, UseCache, CountCall, Statuses
  <1>6. ASSUME NEW c \in Lookups, \/ StartLookup(c) \/ PressButton(c) \/ ReadPending(c)
                                  \/ CallShodan(c) \/ WriteCache(c)
        PROVE  osintMeter' = osintMeter
    BY <1>6 DEF StartLookup, PressButton, ReadPending, CallShodan, WriteCache
  <1>7. ASSUME NEW ip \in Addresses, Expire(ip)
        PROVE  osintMeter' = osintMeter
    BY <1>7 DEF Expire
  <1> QED
    BY <1>2, <1>3, <1>4, <1>5, <1>6, <1>7 DEF OsintStep, LookupStep, osintVars

(* osint_usage counts every call at most once, keeps what it has counted,  *)
(* and misses calls only after a failed write or a crash.                  *)
THEOREM ShodanCallsCountedOnce == OsintSpec => OsintImplementsCounter
  <1> USE DEF Osint!Zero, OsintFlow!Zero, Osint!Plus, OsintFlow!Plus, Osint!Minus, OsintFlow!Minus
  <1>1. OsintInit => OsintFlow!MeterInit
    BY DEF OsintInit, Osint!MeterInit, OsintFlow!MeterInit
  <1>2. OsintFlow!Typed /\ [OsintStep]_osintVars =>
          OsintFlow!Typed' /\ [OsintFlow!Counter!Next]_(OsintFlow!Counter!vars)
    BY OsintMoves, OsintFlow!TypedStep, OsintFlow!CounterStep, OsintLosesNothing
  <1>3. OsintFlow!MeterInit => OsintFlow!Typed /\ OsintFlow!Counter!Init
    BY OsintFlow!TypedInit, OsintFlow!CounterInit
  <1>4. /\ OsintFlow!Counter!Init => Osint!Counter!Init
        /\ [OsintFlow!Counter!Next]_(OsintFlow!Counter!vars) => [Osint!Counter!Next]_(Osint!Counter!vars)
    <2> USE DEF OsintFlow!Counter!Zero, Osint!Counter!Zero, OsintFlow!Counter!vars, Osint!Counter!vars
    <2>1. OsintFlow!Counter!Init => Osint!Counter!Init
      BY DEF OsintFlow!Counter!Init, Osint!Counter!Init
    <2>2. OsintFlow!Counter!Next => Osint!Counter!Next
      BY DEF OsintFlow!Counter!Next, Osint!Counter!Next, OsintFlow!Counter!Count, Osint!Counter!Count,
             OsintFlow!Counter!Store, Osint!Counter!Store, OsintFlow!Counter!Lose, Osint!Counter!Lose,
             OsintFlow!Counter!MovesTo, Osint!Counter!MovesTo
    <2> QED
      BY <2>1, <2>2
  <1> QED
    BY <1>1, <1>2, <1>3, <1>4, PTL DEF OsintSpec, OsintImplementsCounter, Osint!Implemented, Osint!Counter!Spec

\* What a step does to the meter of flow records.
LEMMA NetMoves ==
    ASSUME [MonitorStep]_<<netVars, clock, monitorVars>>
    PROVE  \/ [NetFlowing!Next]_netMeter
           \/ netMeter' = [netMeter EXCEPT !.failures = netMeter.failures + 1]
  <1> USE DEF Net!Zero, NetFlowing!Zero, Net!Plus, NetFlowing!Plus, Net!Minus, NetFlowing!Minus
  <1>1. ASSUME Ingest
        PROVE  NetFlowing!Next
    <2>1. PICK p \in Pairs, ifaces \in SUBSET Ifaces :
            Net!Record([k \in Pairs \cup Ifaces |-> IF k = p \/ k \in ifaces THEN 1 ELSE 0])
      BY <1>1 DEF Ingest
    <2> DEFINE d == [k \in Pairs \cup Ifaces |-> IF k = p \/ k \in ifaces THEN 1 ELSE 0]
    <2>2. d \in NetFlowing!Counts
      BY DEF NetFlowing!Counts
    <2>3. NetFlowing!Record(d)
      BY <2>1 DEF Net!Record, NetFlowing!Record
    <2> HIDE DEF d
    <2> QED
      BY <2>2, <2>3 DEF NetFlowing!Next
  <1>2. ASSUME FlushTake \/ FlushCommit \/ FlushFail \/ CollectorDies
        PROVE  NetFlowing!Next
    BY <1>2 DEF FlushTake, FlushCommit, FlushFail, CollectorDies, Net!Take, Net!Commit, Net!Fail, Net!Die,
                NetFlowing!Next, NetFlowing!Take, NetFlowing!Commit, NetFlowing!Fail, NetFlowing!Die, Loop
  <1>3. ASSUME NEW s \in Scanners, ScanDies(s)
        PROVE  netMeter' = [netMeter EXCEPT !.failures = netMeter.failures + 1]
    BY <1>3 DEF ScanDies
  <1>4. ASSUME NEW s \in Scanners, \/ ScanStart(s) \/ ScanRead(s) \/ ScanCommit(s) \/ ScanConflict(s)
                                   \/ ScanNotify(s)
        PROVE  netMeter' = netMeter
    BY <1>4 DEF ScanStart, ScanRead, ScanCommit, ScanConflict, ScanNotify, netVars
  <1>5. ASSUME BucketRetention \/ AddToList \/ RemoveFromList \/ SetMonitorFlag \/ MonitorTick
        PROVE  netMeter' = netMeter
    BY <1>5 DEF BucketRetention, AddToList, RemoveFromList, SetMonitorFlag, Edit, MonitorTick, netVars
  <1> QED
    BY <1>1, <1>2, <1>3, <1>4, <1>5 DEF MonitorStep, NetStep, ScanStep, netVars

(* netflow_buckets and netflow_iface_buckets count every flow record at    *)
(* most once and miss it only after a failed write or a crash.             *)
THEOREM FlowsCountedOnce == NetSpec => NetImplementsCounter
  <1> USE DEF Net!Zero, NetFlowing!Zero, Net!Plus, NetFlowing!Plus, Net!Minus, NetFlowing!Minus
  <1>1. NetInit => NetFlowing!MeterInit
    BY DEF NetInit, Net!MeterInit, NetFlowing!MeterInit
  <1>2. NetFlowing!Typed /\ [MonitorStep]_<<netVars, clock, monitorVars>> =>
          NetFlowing!Typed' /\ [NetFlowing!Counter!Next]_(NetFlowing!Counter!vars)
    BY NetMoves, NetFlowing!TypedStep, NetFlowing!CounterStep, NetLosesNothing
  <1>3. NetFlowing!MeterInit => NetFlowing!Typed /\ NetFlowing!Counter!Init
    BY NetFlowing!TypedInit, NetFlowing!CounterInit
  <1>4. /\ NetFlowing!Counter!Init => Net!Counter!Init
        /\ [NetFlowing!Counter!Next]_(NetFlowing!Counter!vars) => [Net!Counter!Next]_(Net!Counter!vars)
    <2> USE DEF NetFlowing!Counter!Zero, Net!Counter!Zero, NetFlowing!Counter!vars, Net!Counter!vars
    <2>1. NetFlowing!Counter!Init => Net!Counter!Init
      BY DEF NetFlowing!Counter!Init, Net!Counter!Init
    <2>2. NetFlowing!Counter!Next => Net!Counter!Next
      BY DEF NetFlowing!Counter!Next, Net!Counter!Next, NetFlowing!Counter!Count, Net!Counter!Count,
             NetFlowing!Counter!Store, Net!Counter!Store, NetFlowing!Counter!Lose, Net!Counter!Lose,
             NetFlowing!Counter!MovesTo, Net!Counter!MovesTo
    <2> QED
      BY <2>1, <2>2
  <1> QED
    BY <1>1, <1>2, <1>3, <1>4, PTL DEF NetSpec, NetImplementsCounter, Net!Implemented, Net!Counter!Spec

(* The sum by which waiting events are read off is that of the copies in   *)
(* flight, for any finite number of flushes.                               *)
LEMMA OsintAddsUp == OsintSpec => []Osint!InFlightSums
  <1>f. OsintFlow!IsFiniteSet(OsintFlushers)
    BY OsintAssumption DEF IsFiniteSet, OsintFlow!IsFiniteSet
  <1>1. OsintFlow!InFlightSums => Osint!InFlightSums
    BY DEF OsintFlow!InFlightSums, Osint!InFlightSums,
       OsintFlow!MapThenSumSet, Osint!MapThenSumSet, OsintFlow!MapThenFoldSet, Osint!MapThenFoldSet
  <1>2. OsintInit => OsintFlow!Typed /\ OsintFlow!InFlightSums
    <2>1. OsintInit => OsintFlow!MeterInit
      BY DEF OsintInit, Osint!MeterInit, OsintFlow!MeterInit, Osint!Zero, OsintFlow!Zero
    <2> QED
      BY <1>f, <2>1, OsintFlow!TypedInit, OsintFlow!SumsInit
  <1>3. OsintFlow!Typed /\ OsintFlow!InFlightSums /\ [OsintStep]_osintVars
          => OsintFlow!Typed' /\ OsintFlow!InFlightSums'
    <2> SUFFICES ASSUME OsintFlow!Typed, OsintFlow!InFlightSums, [OsintStep]_osintVars
                 PROVE  OsintFlow!Typed' /\ OsintFlow!InFlightSums'
      OBVIOUS
    <2>1. CASE [OsintFlow!Next]_osintMeter
      BY <1>f, <2>1, OsintFlow!TypedStep, OsintFlow!SumsStep
    <2>2. CASE osintMeter' = [osintMeter EXCEPT !.failures = osintMeter.failures + 1]
      <3>1. osintMeter'.flight = osintMeter.flight /\ osintMeter'.inflight = osintMeter.inflight
        BY <2>2 DEF OsintFlow!Typed
      <3>2. OsintFlow!InFlightSums'
        BY <3>1, OsintFlow!SumsRead
      <3> QED
        BY <2>2, <3>2, OsintLosesNothing
    <2> QED
      BY <2>1, <2>2, OsintMoves
  <1> QED
    BY <1>1, <1>2, <1>3, PTL DEF OsintSpec

LEMMA LlmAddsUp == LlmSpec => []Llm!InFlightSums
  <1>1. LlmFlow!InFlightSums => Llm!InFlightSums
    BY DEF LlmFlow!InFlightSums, Llm!InFlightSums,
       LlmFlow!MapThenSumSet, Llm!MapThenSumSet, LlmFlow!MapThenFoldSet, Llm!MapThenFoldSet
  <1>2. LlmFlow!Spec => []LlmFlow!InFlightSums
    <2>1. LlmFlow!IsFiniteSet(LlmFlushers)
      BY LlmAssumption DEF IsFiniteSet, LlmFlow!IsFiniteSet
    <2> QED
      BY <2>1, LlmFlow!CopiesAddUp
  <1> QED
    BY <1>1, <1>2, LlmIsBuffer, PTL

LEMMA NetAddsUp == NetSpec => []Net!InFlightSums
  <1>f. NetFlowing!IsFiniteSet(Loop)
    BY FS_Singleton DEF Loop, IsFiniteSet, NetFlowing!IsFiniteSet
  <1>1. NetFlowing!InFlightSums => Net!InFlightSums
    BY DEF NetFlowing!InFlightSums, Net!InFlightSums,
       NetFlowing!MapThenSumSet, Net!MapThenSumSet, NetFlowing!MapThenFoldSet, Net!MapThenFoldSet
  <1>2. NetInit => NetFlowing!Typed /\ NetFlowing!InFlightSums
    <2>1. NetInit => NetFlowing!MeterInit
      BY DEF NetInit, Net!MeterInit, NetFlowing!MeterInit, Net!Zero, NetFlowing!Zero
    <2> QED
      BY <1>f, <2>1, NetFlowing!TypedInit, NetFlowing!SumsInit
  <1>3. NetFlowing!Typed /\ NetFlowing!InFlightSums /\ [MonitorStep]_<<netVars, clock, monitorVars>>
          => NetFlowing!Typed' /\ NetFlowing!InFlightSums'
    <2> SUFFICES ASSUME NetFlowing!Typed, NetFlowing!InFlightSums, [MonitorStep]_<<netVars, clock, monitorVars>>
                 PROVE  NetFlowing!Typed' /\ NetFlowing!InFlightSums'
      OBVIOUS
    <2>1. CASE [NetFlowing!Next]_netMeter
      BY <1>f, <2>1, NetFlowing!TypedStep, NetFlowing!SumsStep
    <2>2. CASE netMeter' = [netMeter EXCEPT !.failures = netMeter.failures + 1]
      <3>1. netMeter'.flight = netMeter.flight /\ netMeter'.inflight = netMeter.inflight
        BY <2>2 DEF NetFlowing!Typed
      <3>2. NetFlowing!InFlightSums'
        BY <3>1, NetFlowing!SumsRead
      <3> QED
        BY <2>2, <3>2, NetLosesNothing
    <2> QED
      BY <2>1, <2>2, NetMoves
  <1> QED
    BY <1>1, <1>2, <1>3, PTL DEF NetSpec

----------------------------------------------------------------------------
(* Proofs: all of them, in the specification the runs explore              *)

\* What the parts of MCMeters do.
PartsMove ==
    /\ [OsintStep]_osintVars /\ [LlmStep]_llmVars
    /\ [MonitorStep]_<<netVars, clock, monitorVars>>
    /\ [GeoStep]_geoVars /\ [CollectStep]_collectVars

LEMMA StepsOfParts == [Next]_vars => PartsMove
  <1> SUFFICES ASSUME [Next]_vars
               PROVE  PartsMove
    OBVIOUS
  <1>1. CASE UNCHANGED vars
    BY <1>1 DEF PartsMove, vars
  <1>2. CASE Next
    BY <1>2 DEF PartsMove, Next
  <1> QED
    BY <1>1, <1>2

(* What the run checks of the meters, the caches and the collectors holds  *)
(* in every behaviour of the specification it explores, whatever its       *)
(* constants are.                                                          *)
THEOREM MetersAreSafe ==
    Spec => /\ [](OvershootBounded /\ EventsSpaced /\ PaidOnce /\ NoGap)
            /\ OsintImplementsCounter /\ LlmImplementsCounter /\ NetImplementsCounter
  <1>1. Init => OsintInit /\ LlmInit /\ NetInit /\ MonitorInit /\ GeoInit /\ CollectInit
    BY DEF Init
  <1>2. Spec => OsintSpec /\ LlmSpec /\ NetSpec /\ MonitorSpec /\ GeoSpec /\ CollectSpec
    BY <1>1, StepsOfParts, PTL
       DEF Spec, PartsMove, OsintSpec, LlmSpec, NetSpec, MonitorSpec, GeoSpec, CollectSpec
  <1> QED
    BY <1>2, LimitOverrunBounded, MonitorEventsSpaced, AddressesPaidOnce, NothingLeftBehind,
       ShodanCallsCountedOnce, LlmCallsCountedOnce, FlowsCountedOnce, PTL

(* All that the run checks of the counters: those of OSINT calls, of the   *)
(* language model and of flow records keep the promise of LossyCounter,    *)
(* and what it calls waiting is in the dictionary or in one copy.          *)
THEOREM MetersCountOnce == Spec => MetersImplementCounters
  <1>1. Init => OsintInit /\ LlmInit /\ NetInit
    BY DEF Init
  <1>2. Spec => OsintSpec /\ LlmSpec /\ NetSpec
    BY <1>1, StepsOfParts, PTL DEF Spec, PartsMove, OsintSpec, LlmSpec, NetSpec
  <1> QED
    BY <1>2, ShodanCallsCountedOnce, LlmCallsCountedOnce, FlowsCountedOnce,
       OsintAddsUp, LlmAddsUp, NetAddsUp, PTL DEF MetersImplementCounters
=============================================================================
