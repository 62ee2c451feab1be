--------------------------- MODULE HoneypotAlerts ---------------------------
(***************************************************************************)
(* What Warroom does with the events of a pod: each is stored, and whoever *)
(* touched a decoy is reported once in a while.  A key per source or file  *)
(* mutes the repeats; a process the operator has whitelisted is muted too, *)
(* also in what is stored already.  The agent gives a report up after 15   *)
(* seconds, so that two reports of one pod may be handled side by side.    *)
(***************************************************************************)
EXTENDS HoneypotPod

CONSTANTS
    Ingests,      \* reports handled side by side
    MuteFor,      \* how long a key mutes (300 seconds)
    PushLimit,    \* alerts of one report (20)
    MaxPodTime    \* bound

ASSUME HoneypotAlertsAssumption ==
    MuteFor \in Nat \ {0} /\ PushLimit \in Nat \ {0} /\ MaxPodTime \in Nat

VARIABLES
    stored,   \* honeypot_events
    keys,     \* Redis: until when each source or file is muted
    alerted,  \* what was sent, with the time its key was taken
    listed,   \* whether the legitimate process is whitelisted
    ingest,   \* the locals of each report in progress
    failed,   \* whether an alert whose key was taken was not sent
    cleared,  \* whether Redis lost its keys or did not answer
    time

alertVars == <<stored, keys, alerted, listed, ingest, failed, cleared, time>>
honeypotVars == <<podVars, alertVars>>

Idents == Sources \cup {"file"}

HoneypotTypeOK ==
    /\ PodTypeOK
    /\ \A i \in DOMAIN stored :
         stored[i].hit \in Hit /\ stored[i].muted \in BOOLEAN /\ stored[i].at \in 0..time
    /\ keys \in [Idents -> 0..MaxPodTime + MuteFor]
    /\ \A i \in DOMAIN alerted : alerted[i].ident \in Idents /\ alerted[i].at \in 0..time
    /\ \A w \in Ingests : ingest[w].pc \in {"idle", "load", "read", "send"}

HoneypotInit ==
    /\ PodInit
    /\ stored = <<>> /\ keys = [x \in Idents |-> 0] /\ alerted = <<>>
    /\ listed \in BOOLEAN
    /\ ingest = [w \in Ingests |-> Quiet]
    /\ failed = FALSE /\ cleared = FALSE /\ time = 0

\* honeypot_ingest: the token is good, the report is taken.
IngestStart(w) ==
    /\ ingest[w] = Quiet /\ report.pc = "posted" /\ Authentic
    /\ ingest' = [ingest EXCEPT ![w] = [pc |-> "load", batch |-> report.batch]]
    /\ report' = [pc |-> "waiting"]
    /\ UNCHANGED <<pod, held, running, beat, queue, touches, changes>>
    /\ UNCHANGED <<stored, keys, alerted, listed, failed, cleared, time>>

\* load_process_whitelist, once per report.
IngestLoad(w) ==
    /\ ingest[w].pc = "load"
    /\ ingest' = [ingest EXCEPT ![w] =
         [pc |-> "read", batch |-> @.batch, spared |-> listed, rows |-> <<>>, due |-> <<>>]]
    /\ UNCHANGED <<podVars, stored, keys, alerted, listed, failed, cleared, time>>

\* _access_whitelisted
Spared(w, h) == h.decoy = "file" /\ h.legit /\ ingest[w].spared

\* Mutant: a muted access takes the key as well.
TakesAnyKey(w, h) == keys[h.ident] <= time

\* _should_alert: SET NX EX, for what is not muted.
TakesKey(w, h) == ~Spared(w, h) /\ keys[h.ident] <= time

\* What the event at the head leaves behind: its row and, if it is to be
\* reported, the alert.
Handled(w, taken) ==
    LET h == Head(ingest[w].batch)
        row == [hit |-> h, muted |-> Spared(w, h), at |-> time]
        due == [ident |-> h.ident, at |-> time]
    IN ingest' = [ingest EXCEPT ![w] =
         [pc |-> "read", batch |-> Tail(@.batch), spared |-> @.spared,
          rows |-> Append(@.rows, row), due |-> IF taken THEN Append(@.due, due) ELSE @.due]]

\* lookup_ip: a source it had not looked up before is stored with a commit
\* of the report's own session, and so are the events before this one.
IngestLookup(w) ==
    /\ ingest[w].pc = "read" /\ ingest[w].batch # <<>> /\ ingest[w].rows # <<>>
    /\ Head(ingest[w].batch).decoy # "file"
    /\ stored' = stored \o ingest[w].rows
    /\ ingest' = [ingest EXCEPT ![w] =
         [pc |-> "read", batch |-> @.batch, spared |-> @.spared, rows |-> <<>>, due |-> @.due]]
    /\ UNCHANGED <<podVars, keys, alerted, listed, failed, cleared, time>>

IngestEvent(w) ==
    /\ ingest[w].pc = "read" /\ ingest[w].batch # <<>>
    /\ LET h == Head(ingest[w].batch)
       IN /\ keys' = IF TakesKey(w, h) THEN [keys EXCEPT ![h.ident] = time + MuteFor] ELSE keys
          /\ Handled(w, TakesKey(w, h) /\ ~Spared(w, h))
    /\ UNCHANGED <<podVars, stored, alerted, listed, failed, cleared, time>>

\* Redis does not answer: better an alert too many.
IngestBlindly(w) ==
    /\ ingest[w].pc = "read" /\ ingest[w].batch # <<>> /\ Changes
    /\ ~Spared(w, Head(ingest[w].batch))
    /\ Handled(w, TRUE) /\ cleared' = TRUE
    /\ UNCHANGED <<pod, held, running, beat, queue, report, touches>>
    /\ UNCHANGED <<stored, keys, alerted, listed, failed, time>>

\* The events not yet committed are; the alerts follow.
IngestCommit(w) ==
    /\ ingest[w].pc = "read" /\ ingest[w].batch = <<>>
    /\ stored' = stored \o ingest[w].rows
    /\ ingest' = [ingest EXCEPT ![w] =
         IF @.due = <<>> THEN Quiet ELSE [pc |-> "send", due |-> @.due, sent |-> 0]]
    /\ UNCHANGED <<podVars, keys, alerted, listed, failed, cleared, time>>

\* notify, best effort, and no more than PushLimit of them.
IngestAlert(w) ==
    /\ ingest[w].pc = "send"
    /\ \/ /\ ingest[w].sent < PushLimit
          /\ alerted' = Append(alerted, Head(ingest[w].due)) /\ UNCHANGED failed
       \/ failed' = TRUE /\ UNCHANGED alerted
    /\ ingest' = [ingest EXCEPT ![w] =
         IF Len(@.due) = 1 THEN Quiet ELSE [pc |-> "send", due |-> Tail(@.due), sent |-> @.sent + 1]]
    /\ UNCHANGED <<podVars, stored, keys, listed, cleared, time>>

\* A commit fails, or the backend is restarted: the keys stay taken, and what
\* was committed stays.
IngestFails(w) ==
    /\ ingest[w].pc # "idle"
    /\ failed' = (failed \/ (ingest[w].pc # "load" /\ ingest[w].due # <<>>))
    /\ ingest' = [ingest EXCEPT ![w] = Quiet]
    /\ UNCHANGED <<podVars, stored, keys, alerted, listed, cleared, time>>

\* add_process_whitelist mutes what is stored; delete_process_whitelist.
ProcessListed ==
    /\ ~listed /\ Changes
    /\ listed' = TRUE
    /\ stored' = [i \in DOMAIN stored |->
         [stored[i] EXCEPT !.muted = @ \/ (stored[i].hit.decoy = "file" /\ stored[i].hit.legit)]]
    /\ UNCHANGED <<pod, held, running, beat, queue, report, touches>>
    /\ UNCHANGED <<keys, alerted, ingest, failed, cleared, time>>

ProcessUnlisted ==
    /\ listed /\ Changes
    /\ listed' = FALSE
    /\ UNCHANGED <<pod, held, running, beat, queue, report, touches>>
    /\ UNCHANGED <<stored, keys, alerted, ingest, failed, cleared, time>>

\* delete_honeypot takes its events along; a report in progress still lands.
PodDeleted ==
    /\ pod.token # 0 /\ Changes
    /\ pod' = [pod EXCEPT !.token = 0]
    /\ stored' = <<>>
    /\ UNCHANGED <<held, running, beat, queue, report, touches>>
    /\ UNCHANGED <<keys, alerted, listed, ingest, failed, cleared, time>>

\* Redis loses its keys.
KeysLost ==
    /\ Changes
    /\ keys' = [x \in Idents |-> 0] /\ cleared' = TRUE
    /\ UNCHANGED <<pod, held, running, beat, queue, report, touches>>
    /\ UNCHANGED <<stored, alerted, listed, ingest, failed, time>>

PodTick ==
    /\ time < MaxPodTime /\ time' = time + 1
    /\ UNCHANGED <<podVars, stored, keys, alerted, listed, ingest, failed, cleared>>

IngestStep(w) ==
    \/ IngestStart(w) \/ IngestLoad(w) \/ IngestLookup(w) \/ IngestEvent(w)
    \/ IngestBlindly(w) \/ IngestCommit(w) \/ IngestAlert(w) \/ IngestFails(w)

HoneypotStep ==
    \/ PodStep /\ UNCHANGED alertVars
    \/ \E w \in Ingests : IngestStep(w)
    \/ ProcessListed \/ ProcessUnlisted \/ PodDeleted \/ KeysLost \/ PodTick

----------------------------------------------------------------------------
\* The alerts that were sent or that a report in progress will send.
Announced ==
    {alerted[i] : i \in DOMAIN alerted}
      \cup UNION {IF ingest[w].pc \in {"read", "send"}
                  THEN {ingest[w].due[i] : i \in DOMAIN ingest[w].due} ELSE {}
                  : w \in Ingests}

(* "First hit within the window alerts; repeats are muted", and a muted    *)
(* access leaves "no dedup key": alerts of one source or file are at least *)
(* the window apart unless Redis failed, also of reports that are handled  *)
(* side by side; and whatever is stored as an alarming access is covered   *)
(* by an alert of the window before it, sent or under way, unless an alert *)
(* got lost after its key was taken.                                       *)
TouchReportedOnce ==
    /\ cleared \/ \A i, j \in DOMAIN alerted :
         i # j /\ alerted[i].ident = alerted[j].ident
         => alerted[i].at - alerted[j].at \notin (1 - MuteFor)..(MuteFor - 1)
    /\ failed \/ \A i \in DOMAIN stored :
         ~stored[i].muted =>
           \E a \in Announced :
             /\ a.ident = stored[i].hit.ident
             /\ a.at <= stored[i].at /\ stored[i].at < a.at + MuteFor
=============================================================================
