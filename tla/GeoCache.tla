------------------------------ MODULE GeoCache ------------------------------
(***************************************************************************)
(* Where an address is, and its AbuseIPDB score.  The syslog receiver and  *)
(* the backend share a row per address and a key in Redis, and each has    *)
(* its own code: the receiver's upsert keeps a score that is there, the    *)
(* backend merges an object whose score may be empty.  Rows stay; the key  *)
(* expires.  One address.                                                  *)
(***************************************************************************)
EXTENDS Naturals, FiniteSets

CONSTANTS
    Receivers,   \* lookups of the syslog receiver
    Backends,    \* lookups of the backend
    Scores,      \* AbuseIPDB scores
    NoScore,     \* no key configured, or the service did not answer
    MaxExpiries  \* bound: how often the key in Redis goes away

ASSUME GeoAssumption ==
    /\ MaxExpiries \in Nat /\ NoScore \notin Scores
    /\ Receivers \cap Backends = {} /\ IsFiniteSet(Receivers \cup Backends)

VARIABLES
    geoRow,    \* the row of geoip_cache: none, or its score
    geoKey,    \* the key in Redis: none, or the score in it
    geoLook,   \* the locals of each lookup
    fetches,   \* history: addresses looked up outside
    notStored, \* history: lookups that could not write the row
    everScored, \* history: the row has had a score
    expiries

geoVars == <<geoRow, geoKey, geoLook, fetches, notStored, everScored, expiries>>

Geos == Receivers \cup Backends
None == {}
Answer == Scores \cup {NoScore}
Optional == {None} \cup {{s} : s \in Answer}

NoLook == [pc |-> "idle"]

GeoTypeOK ==
    /\ geoRow \in Optional /\ geoKey \in Optional
    /\ geoLook \in [Geos -> {NoLook} \cup [pc : {"row", "fetch"}]
         \cup [pc : {"store", "warm"}, score : Answer]
         \cup [pc : {"flush"}, score : Answer, found : BOOLEAN]]
    /\ fetches \in Nat /\ notStored \in Nat /\ everScored \in BOOLEAN
    /\ expiries \in 0..MaxExpiries

GeoInit ==
    /\ geoRow = None /\ geoKey = None
    /\ geoLook = [g \in Geos |-> NoLook]
    /\ fetches = 0 /\ notStored = 0 /\ everScored = FALSE /\ expiries = 0

Looks(g, l) == geoLook' = [geoLook EXCEPT ![g] = l]

With(pc, s) == [pc |-> pc, score |-> s]

\* Redis has no entry for the address, or does not answer.
GeoMiss(g) ==
    /\ geoLook[g] = NoLook
    /\ Looks(g, [pc |-> "row"])
    /\ UNCHANGED <<geoRow, geoKey, fetches, notStored, everScored, expiries>>

\* Mutant: the row counts only if it has a score.
GeoReadScored(g) ==
    /\ geoLook[g].pc = "row"
    /\ IF geoRow \in {None, {NoScore}} THEN Looks(g, [pc |-> "fetch"])
       ELSE \E s \in geoRow : Looks(g, With("warm", s))
    /\ UNCHANGED <<geoRow, geoKey, fetches, notStored, everScored, expiries>>

GeoReadRow(g) ==
    /\ geoLook[g].pc = "row"
    /\ IF geoRow = None THEN Looks(g, [pc |-> "fetch"])
       ELSE \E s \in geoRow : Looks(g, With("warm", s))
    /\ UNCHANGED <<geoRow, geoKey, fetches, notStored, everScored, expiries>>

\* MaxMind or ip-api.com know the address, and AbuseIPDB perhaps its score.
GeoFetch(g) ==
    /\ geoLook[g].pc = "fetch"
    /\ fetches' = fetches + 1
    /\ \E s \in Answer : Looks(g, With("store", s))
    /\ UNCHANGED <<geoRow, geoKey, notStored, everScored, expiries>>

\* Nobody knows the address.
GeoUnknown(g) ==
    /\ geoLook[g].pc = "fetch"
    /\ Looks(g, NoLook)
    /\ UNCHANGED <<geoRow, geoKey, fetches, notStored, everScored, expiries>>

WriteRow(s) ==
    /\ geoRow' = {s}
    /\ everScored' = (everScored \/ s # NoScore)

\* The receiver: COALESCE(EXCLUDED.abuse_score, geoip_cache.abuse_score).
GeoUpsert(g) ==
    /\ g \in Receivers /\ geoLook[g].pc = "store"
    /\ WriteRow(IF geoLook[g].score = NoScore /\ geoRow # None
                THEN CHOOSE s \in geoRow : TRUE ELSE geoLook[g].score)
    /\ Looks(g, With("warm", geoLook[g].score))
    /\ UNCHANGED <<geoKey, fetches, notStored, expiries>>

\* The receiver's write fails, and only Redis gets the answer.
GeoUpsertFails(g) ==
    /\ g \in Receivers /\ geoLook[g].pc = "store"
    /\ notStored < 1
    /\ notStored' = notStored + 1
    /\ Looks(g, With("warm", geoLook[g].score))
    /\ UNCHANGED <<geoRow, geoKey, fetches, everScored, expiries>>

\* The backend: merge() looks for the row ...
GeoMerge(g) ==
    /\ g \in Backends /\ geoLook[g].pc = "store"
    /\ Looks(g, [pc |-> "flush", score |-> geoLook[g].score, found |-> geoRow # None])
    /\ UNCHANGED <<geoRow, geoKey, fetches, notStored, everScored, expiries>>

\* ... and commit() updates all of it, or inserts it.
GeoCommit(g) ==
    /\ geoLook[g].pc = "flush"
    /\ geoLook[g].found \/ geoRow = None
    /\ WriteRow(geoLook[g].score)
    /\ Looks(g, With("warm", geoLook[g].score))
    /\ UNCHANGED <<geoKey, fetches, notStored, expiries>>

\* The row has appeared since: the insert raises, and so does the lookup.
GeoConflict(g) ==
    /\ geoLook[g].pc = "flush"
    /\ ~geoLook[g].found /\ geoRow # None
    /\ Looks(g, NoLook)
    /\ UNCHANGED <<geoRow, geoKey, fetches, notStored, everScored, expiries>>

GeoWarm(g) ==
    /\ geoLook[g].pc = "warm"
    /\ geoKey' = {geoLook[g].score}
    /\ Looks(g, NoLook)
    /\ UNCHANGED <<geoRow, fetches, notStored, everScored, expiries>>

GeoExpire ==
    /\ geoKey # None /\ expiries < MaxExpiries
    /\ geoKey' = None /\ expiries' = expiries + 1
    /\ UNCHANGED <<geoRow, geoLook, fetches, notStored, everScored>>

GeoStep ==
    \/ \E g \in Geos :
         \/ GeoMiss(g) \/ GeoReadRow(g) \/ GeoFetch(g) \/ GeoUnknown(g)
         \/ GeoUpsert(g) \/ GeoUpsertFails(g)
         \/ GeoMerge(g) \/ GeoCommit(g) \/ GeoConflict(g)
         \/ GeoWarm(g)
    \/ GeoExpire

----------------------------------------------------------------------------
(* An address is paid for once: it is fetched again only by lookups that   *)
(* overlap the first, or when its row could not be written.  And a score   *)
(* that is in the row stays there unless two lookups fetched the address:  *)
(* then the backend's answer without a score may replace it.               *)
PaidOnce ==
    /\ fetches <= Cardinality(Geos) + notStored
    /\ everScored /\ geoRow = {NoScore} => fetches > 1
=============================================================================
