------------------------------ MODULE NetFlow ------------------------------
(***************************************************************************)
(* The NetFlow collector.  Flow records are added up in memory, by pair of *)
(* addresses and by interface; a loop moves both to the database once a    *)
(* minute, in one transaction, and what fails is dropped.  Buckets carry   *)
(* the time of the flush, and old ones are deleted.                        *)
(***************************************************************************)
EXTENDS Integers, FiniteSets

CONSTANTS
    Pairs,         \* pairs of addresses, with the direction
    MaxFlows,      \* bound: flow records in a behaviour
    MaxNetFails,   \* bound: failed flushes and crashes
    BucketKeep,    \* how long buckets are kept (30 days)
    MaxClock       \* bound: the last tick

ASSUME NetFlowAssumption ==
    /\ IsFiniteSet(Pairs) /\ MaxFlows \in Nat /\ MaxNetFails \in Nat
    /\ BucketKeep \in Nat /\ MaxClock \in Nat

VARIABLES
    netMeter,  \* the two dictionaries, the flush under way, all ever stored
    flushAt,   \* the time the flush under way stamps on its rows
    buckets,   \* netflow_buckets: pairs and times
    clock

netVars == <<netMeter, flushAt, buckets>>

Ifaces == {"in", "out"}

Loop == {"loop"}

Net == INSTANCE FlushBuffer WITH
           Keys <- Pairs \cup Ifaces, Flushers <- Loop, meter <- netMeter

NetTypeOK ==
    /\ Net!MeterTypeOK
    /\ flushAt \in 0..MaxClock /\ clock \in 0..MaxClock
    /\ buckets \subseteq [pair : Pairs, at : 0..MaxClock]

NetInit ==
    /\ Net!MeterInit
    /\ flushAt = 0 /\ clock = 0 /\ buckets = {}

\* _ingest_flow: the pair, and each interface the record names.
Ingest ==
    /\ \E p \in Pairs, ifaces \in SUBSET Ifaces :
         /\ netMeter.counted[p] < MaxFlows
         /\ Net!Record([k \in Pairs \cup Ifaces |->
                          IF k = p \/ k \in ifaces THEN 1 ELSE 0])
    /\ UNCHANGED <<flushAt, buckets, clock>>

FlushTake ==
    /\ Net!Take("loop")
    /\ flushAt' = clock
    /\ UNCHANGED <<buckets, clock>>

FlushCommit ==
    /\ Net!Commit("loop")
    /\ buckets' = buckets \cup
         {[pair |-> p, at |-> flushAt] : p \in {q \in Pairs : netMeter.flight["loop"][q] > 0}}
    /\ UNCHANGED <<flushAt, clock>>

FlushFail ==
    /\ netMeter.failures < MaxNetFails
    /\ Net!Fail("loop")
    /\ UNCHANGED <<flushAt, buckets, clock>>

CollectorDies ==
    /\ netMeter.failures < MaxNetFails
    /\ Net!Die
    /\ UNCHANGED <<flushAt, buckets, clock>>

\* _retention_loop
BucketRetention ==
    /\ \E b \in buckets : b.at < clock - BucketKeep
    /\ buckets' = {b \in buckets : b.at >= clock - BucketKeep}
    /\ UNCHANGED <<netMeter, flushAt, clock>>

NetStep ==
    \/ Ingest
    \/ FlushTake \/ FlushCommit \/ FlushFail
    \/ CollectorDies
    \/ BucketRetention
=============================================================================
