--------------------------- MODULE SyslogReceiver ---------------------------
(***************************************************************************)
(* The syslog process: messages are parsed into a bounded queue, one       *)
(* worker takes them in batches, locates their attackers and inserts each  *)
(* batch in one transaction.  What the queue cannot hold, a failing insert *)
(* and a shutdown are losses.                                              *)
(***************************************************************************)
EXTENDS FirewallLogs, Sequences, SequencesExt

CONSTANTS
    QueueSize,  \* insert_queue maxsize (10000)
    BatchSize   \* records per insert (100)

ASSUME SyslogAssumption == QueueSize \in Nat \ {0} /\ BatchSize \in Nat \ {0}

VARIABLES
    queue,     \* insert_queue: records waiting, oldest first
    batch,     \* the records the worker has taken
    running,   \* _running: cleared by the signal handler
    arrived    \* messages received so far

syslogVars == <<queue, batch, running, arrived>>

SyslogInit ==
    /\ logs = {} /\ nextId = 1 /\ faults = 0
    /\ queue = <<>> /\ batch = <<>>
    /\ running = TRUE
    /\ arrived = 0

\* handle_message never waits: a record that does not fit is dropped.
Receive(m) ==
    /\ arrived < MaxIds
    /\ arrived' = arrived + 1
    /\ queue' = IF Len(queue) < QueueSize
                THEN Append(queue, [arrival |-> arrived', msg |-> m])
                ELSE queue
    /\ UNCHANGED <<tableVars, today, faults, batch, running>>

\* Mutant: the worker waits until a batch is full.
TakeFullBatch ==
    /\ running /\ batch = <<>> /\ Len(queue) >= BatchSize
    /\ batch' = SubSeq(queue, 1, BatchSize)
    /\ queue' = SubSeq(queue, BatchSize + 1, Len(queue))
    /\ UNCHANGED <<tableVars, today, faults, running, arrived>>

\* The worker waits for one record and drains what else is there.
TakeBatch ==
    /\ running /\ batch = <<>> /\ queue # <<>>
    /\ LET n == Min({BatchSize, Len(queue)})
       IN  /\ batch' = SubSeq(queue, 1, n)
           /\ queue' = SubSeq(queue, n + 1, Len(queue))
    /\ UNCHANGED <<tableVars, today, faults, running, arrived>>

\* The rows of a batch when the attackers in "found" could be located.
RowsOf(found) ==
    {[id |-> nextId + i - 1, arrival |-> batch[i].arrival,
      msg |-> batch[i].msg,
      located |-> AttackerOf(batch[i].msg) \in found] : i \in DOMAIN batch}

InsertBatch ==
    /\ batch # <<>>
    /\ nextId + Len(batch) <= MaxIds + 1
    /\ \E found \in SUBSET ({AttackerOf(b.msg) : b \in ToSet(batch)} \ {NoIp}) :
         logs' = logs \cup RowsOf(found)
    /\ nextId' = nextId + Len(batch)
    /\ batch' = <<>>
    /\ UNCHANGED <<today, faults, queue, running, arrived>>

\* Mutant: a batch that failed goes to the end of the queue again.
InsertRetried ==
    /\ batch # <<>>
    /\ queue' = queue \o batch
    /\ batch' = <<>>
    /\ UNCHANGED <<tableVars, today, faults, running, arrived>>

\* The transaction fails: the batch is gone, and so are the ids it had drawn.
InsertFailed ==
    /\ Fault
    /\ batch # <<>>
    /\ \E n \in nextId .. nextId + Len(batch) :
         /\ n <= MaxIds + 1
         /\ nextId' = n
    /\ batch' = <<>>
    /\ UNCHANGED <<logs, today, queue, running, arrived>>

\* The signal handler; the worker does not take another batch.
Stop ==
    /\ Fault
    /\ running
    /\ running' = FALSE
    /\ UNCHANGED <<tableVars, today, queue, batch, arrived>>

\* The worker is cancelled (or the process killed) and the service restarted.
Restart ==
    /\ ~running
    /\ running' = TRUE
    /\ queue' = <<>> /\ batch' = <<>>
    /\ UNCHANGED <<tableVars, today, faults, arrived>>

Worker == TakeBatch \/ InsertBatch \/ InsertFailed

SyslogStep(received) ==
    \/ \E m \in received : Receive(m)
    \/ Worker
    \/ Stop \/ Restart

----------------------------------------------------------------------------
(* Rows stand in the table in the order in which their messages arrived,   *)
(* and no message is stored twice: this is what makes an id watermark a    *)
(* position in time (map_rollup.py: "a strictly increasing serial").       *)
ArrivalOrder ==
    \A r, q \in logs : r.id < q.id => r.arrival < q.arrival

(* No message waits for ever: once the firewalls are silent (arrivals are  *)
(* bounded here), whatever was queued is stored, or lost with a failed     *)
(* batch or a shutdown.                                                    *)
QueueDrains == []<>(queue = <<>> /\ batch = <<>>)
=============================================================================
