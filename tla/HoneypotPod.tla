---------------------------- MODULE HoneypotPod ----------------------------
(***************************************************************************)
(* A honeypot pod: the agent on a remote host that runs decoy services,    *)
(* watches decoy files and reports whatever touches them, and the row in   *)
(* Warroom that says which decoys it should have.  The agent asks for that *)
(* row with every heartbeat; its events wait in a bounded queue and go out *)
(* in batches, of which one that cannot be delivered is dropped.           *)
(***************************************************************************)
EXTENDS Integers, Sequences, FiniteSets

CONSTANTS
    Services,    \* decoy services, each on its port
    Sources,     \* addresses that touch one
    QueueSize,   \* events that wait (10000)
    BatchSize,   \* events in a report (50)
    MaxHits, MaxChanges  \* bounds: touches; changes by the operator, restarts

ASSUME HoneypotPodAssumption ==
    /\ "file" \notin Services
    /\ QueueSize \in Nat \ {0} /\ BatchSize \in Nat \ {0} /\ MaxChanges \in Nat

VARIABLES
    pod,      \* honeypots: the row of the pod, token 0 once it is deleted
    held,     \* the token the agent was installed with
    running,  \* _servers, and "file" for the watches on the decoy file
    beat,     \* the heartbeat: what the answer asks for
    queue,    \* _event_q
    report,   \* what _reporter_loop is sending
    touches, changes  \* bounds

podVars == <<pod, held, running, beat, queue, report, touches, changes>>

Decoys == Services \cup {"file"}
Quiet == [pc |-> "idle"]

\* A file event names no source; of its process it only matters whether the
\* operator considers it legitimate.
Hit == [decoy : Decoys, ident : Sources \cup {"file"}, legit : BOOLEAN]

PodTypeOK ==
    /\ pod \in [token : 0..MaxChanges + 1, enabled : BOOLEAN, decoys : SUBSET Decoys]
    /\ held \in 0..MaxChanges + 1 /\ running \subseteq Decoys
    /\ queue \in Seq(Hit) /\ Len(queue) <= QueueSize
    /\ report.pc \in {"idle", "posted", "waiting"} /\ beat.pc \in {"idle", "apply"}

PodInit ==
    /\ pod = [token |-> 1, enabled |-> TRUE, decoys |-> Decoys]
    /\ held = 1 /\ running = Decoys
    /\ beat = Quiet /\ queue = <<>> /\ report = Quiet
    /\ touches = 0 /\ changes = 0

Changes == changes < MaxChanges /\ changes' = changes + 1

\* _emit: what does not fit is lost.
Emitted(h) ==
    /\ touches < MaxHits /\ touches' = touches + 1
    /\ queue' = IF Len(queue) < QueueSize THEN Append(queue, h) ELSE queue
    /\ UNCHANGED <<pod, held, running, beat, report, changes>>

\* _h_ssh and its like: somebody talks to a decoy service.
ServiceTouched ==
    \E d \in Services \cap running, x \in Sources :
      Emitted([decoy |-> d, ident |-> x, legit |-> FALSE])

\* _on_fanotify_readable, _on_inotify_readable: some process opens the file.
FileTouched ==
    /\ "file" \in running
    /\ \E legit \in BOOLEAN : Emitted([decoy |-> "file", ident |-> "file", legit |-> legit])

\* _reporter_loop takes what is there.
ReportPosted ==
    /\ report = Quiet /\ queue # <<>>
    /\ LET n == IF Len(queue) < BatchSize THEN Len(queue) ELSE BatchSize
       IN /\ report' = [pc |-> "posted", batch |-> SubSeq(queue, 1, n)]
          /\ queue' = SubSeq(queue, n + 1, Len(queue))
    /\ UNCHANGED <<pod, held, running, beat, touches, changes>>

\* An answer, a refusal or the timeout: the batch is done with in any case.
ReportReturns ==
    /\ report # Quiet
    /\ report' = Quiet
    /\ UNCHANGED <<pod, held, running, beat, queue, touches, changes>>

Authentic == held = pod.token

\* honeypot_heartbeat, touch.  A refused or failed one changes nothing.
HeartbeatAnswered ==
    /\ beat = Quiet /\ Authentic
    /\ beat' = [pc |-> "apply", listen |-> IF pod.enabled THEN pod.decoys ELSE {}]
    /\ UNCHANGED <<pod, held, running, queue, report, touches, changes>>

\* _reconcile and _reconcile_files; a port may be taken.
Reconciled ==
    /\ beat.pc = "apply"
    /\ \E refused \in SUBSET (beat.listen \ running) :
         running' = beat.listen \ refused
    /\ beat' = Quiet
    /\ UNCHANGED <<pod, held, queue, report, touches, changes>>

\* update_honeypot
PodUpdated ==
    /\ pod.token # 0 /\ Changes
    /\ \E on \in BOOLEAN, decoys \in SUBSET Decoys :
         pod' = [pod EXCEPT !.enabled = on, !.decoys = decoys]
    /\ UNCHANGED <<held, running, beat, queue, report, touches>>

\* redeploy_honeypot: the token of the installed agent stops working.
PodRedeployed ==
    /\ pod.token # 0 /\ Changes
    /\ pod' = [pod EXCEPT !.token = @ + 1]
    /\ UNCHANGED <<held, running, beat, queue, report, touches>>

\* The agent is installed with the token of the row, or just restarted.
AgentStarted ==
    /\ Changes
    /\ held' \in {held, pod.token} \ {0}
    /\ running' = {} /\ beat' = Quiet /\ queue' = <<>> /\ report' = Quiet
    /\ UNCHANGED <<pod, touches>>

PodStep ==
    \/ ServiceTouched \/ FileTouched \/ ReportPosted \/ ReportReturns \/ HeartbeatAnswered \/ Reconciled
    \/ PodUpdated \/ PodRedeployed \/ AgentStarted
=============================================================================
