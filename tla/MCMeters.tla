------------------------------ MODULE MCMeters ------------------------------
(***************************************************************************)
(* What is gathered bit by bit, for TLC: the counters that are flushed -   *)
(* the Shodan quota, the telemetry of the language model, NetFlow with the *)
(* monitor of flagged addresses -, the shared GeoIP cache, and the         *)
(* collectors that resume at their cursors.  They share no state, so each  *)
(* behaviour explores one of them.                                         *)
(***************************************************************************)
EXTENDS OsintUsage, LlmUsage, IpMonitor, GeoCache, Collectors, TLC

VARIABLE part  \* which of them this behaviour explores

vars == <<osintVars, llmVars, netVars, clock, monitorVars, geoVars, collectVars, part>>

Init ==
    /\ OsintInit /\ LlmInit /\ NetInit /\ MonitorInit /\ GeoInit /\ CollectInit
    /\ part \in {"osint", "llm", "network", "geo", "collectors"}

Next ==
    \/ /\ part = "osint" /\ OsintStep
       /\ UNCHANGED <<llmVars, netVars, clock, monitorVars, geoVars, collectVars, part>>
    \/ /\ part = "llm" /\ LlmStep
       /\ UNCHANGED <<osintVars, netVars, clock, monitorVars, geoVars, collectVars, part>>
    \/ /\ part = "network" /\ MonitorStep
       /\ UNCHANGED <<osintVars, llmVars, geoVars, collectVars, part>>
    \/ /\ part = "geo" /\ GeoStep
       /\ UNCHANGED <<osintVars, llmVars, netVars, clock, monitorVars, collectVars, part>>
    \/ /\ part = "collectors" /\ CollectStep
       /\ UNCHANGED <<osintVars, llmVars, netVars, clock, monitorVars, geoVars, part>>

Spec == Init /\ [][Next]_vars

\* Lookups are alike, and so are scanners.
Symmetry == Permutations(Lookups) \cup Permutations(Scanners)

(* The types of the part that runs.                                        *)
MetersTypeOK ==
    /\ part = "osint" => OsintTypeOK
    /\ part = "llm" => LlmTypeOK
    /\ part = "network" => NetTypeOK /\ MonitorTypeOK
    /\ part = "geo" => GeoTypeOK
    /\ part = "collectors" => CollectTypeOK

(* Every counter that is flushed keeps the promise of LossyCounter, and    *)
(* the sum by which that is read off is the one of the copies in flight.   *)
MetersImplementCounters ==
    /\ OsintImplementsCounter /\ LlmImplementsCounter /\ NetImplementsCounter
    /\ [](Osint!InFlightSums /\ Llm!InFlightSums /\ Net!InFlightSums)
=============================================================================
