---------------------------- MODULE IngestProofs ----------------------------
(***************************************************************************)
(* Proofs about the ingest side, for any messages, addresses, queue and    *)
(* batch sizes, refreshers, chunks and windows.  The runs explore one      *)
(* reader of firewall_logs at a time; what is proved here holds while the  *)
(* receiver, any number of refreshes, the retention, the top-up of the     *)
(* login cache and the clock all go on at once (IngestSpec), and so in     *)
(* particular of the behaviours that the runs explore.                     *)
(***************************************************************************)
EXTENDS MCIngest, TLAPS, FiniteSetTheorems, SequenceTheorems

ingestVars == <<tableVars, today, faults, syslogVars, rollupVars, loginVars>>

IngestInit ==
    /\ SyslogInit /\ RollupInit /\ LoginInit
    /\ today \in Nat

IngestNext ==
    \/ SyslogStep(Messages) /\ UNCHANGED <<rollupVars, loginVars>>
    \/ RollupStep(Refreshers) /\ UNCHANGED <<syslogVars, loginVars>>
    \/ (PurgeStep \/ NextDay) /\ UNCHANGED <<syslogVars, loginVars>>
    \/ LoginStep /\ UNCHANGED <<syslogVars, rollupVars>>

IngestSpec == IngestInit /\ [][IngestNext]_ingestVars

----------------------------------------------------------------------------
(* The inductive invariant                                                 *)

Record == [arrival : Nat, msg : Messages]

TableTyped ==
    /\ logs \subseteq Row /\ IsFiniteSet(logs)
    /\ nextId \in Nat /\ today \in Nat /\ faults \in Nat
    /\ \A r \in logs : r.id < nextId

\* What the receiver has not stored yet: one increasing sequence, younger than
\* all that is stored, of messages that have arrived.
Increasing(s) == \A i, j \in 1 .. Len(s) : i < j => s[i].arrival < s[j].arrival
Younger(s, a) == \A i \in 1 .. Len(s) : a < s[i].arrival
UpTo(s, a) == \A i \in 1 .. Len(s) : s[i].arrival <= a

Arrivals ==
    /\ queue \in Seq(Record) /\ batch \in Seq(Record) /\ arrived \in Nat
    /\ Increasing(queue) /\ Increasing(batch)
    /\ UpTo(queue, arrived) /\ UpTo(batch, arrived)
    /\ \A i \in 1 .. Len(batch) : Younger(queue, batch[i].arrival)
    /\ \A r \in logs : /\ Younger(queue, r.arrival) /\ Younger(batch, r.arrival)
                       /\ r.arrival <= arrived

\* Rows are located only when there is an attacker.
LocatedRows == \A r \in logs : r.located => AttackerOf(r.msg) # NoIp

FoldTyped ==
    /\ watermark \in Nat /\ watermark < nextId
    /\ advisory \in Refreshers \cup {Nobody}
    /\ refresh \in [Refreshers ->
         [pc : {"idle", "again", "range", "fold", "commit", "check"},
          lo : Nat, top : Nat, rows : SUBSET Row, left : Nat]]
    /\ purge \in [pc : {"idle", "connections", "security", "days"}, day : Nat]
    /\ purge.day <= today
    /\ daily \in [RollupKeys -> Nat]

\* What a refresh in its transaction has established.
Folds(r) ==
    LET s == refresh[r]
    IN  /\ s.pc \in {"range", "fold", "commit"} => advisory = r /\ s.lo = watermark
        /\ s.pc \in {"fold", "commit"} => s.lo < s.top /\ s.top < nextId
        /\ s.pc = "commit" =>
             /\ IsFiniteSet(s.rows)
             /\ \A q \in s.rows : /\ s.lo < q.id /\ q.id <= s.top
                                  /\ Mappable(q) /\ AttackerOf(q.msg) # NoIp
             /\ \A q \in logs : Mappable(q) /\ s.lo < q.id /\ q.id <= s.top
                                  => q \in s.rows

\* What has been counted lies behind the watermark.
Counted ==
    /\ counted \subseteq Row /\ IsFiniteSet(counted)
    /\ \A q \in counted : q.id <= watermark /\ Mappable(q) /\ AttackerOf(q.msg) # NoIp

RollupInv ==
    /\ FoldTyped
    /\ \A r \in Refreshers : Folds(r)
    /\ Counted
    /\ CountedOnce
    /\ NoneSkipped

\* What is behind b has been read: a row that comes now is late.
Reached(b) == \E f \in reads : b <= f.upto

\* The rows behind b are held, but for those that came late.
Passed(b, held) ==
    /\ Reached(b)
    /\ \A r \in Logins : r.msg.at < b /\ InWindow(r) => r \in held \/ Late(r)

Locals == [pc : {"idle", "select", "add", "cursor", "trim"}, now : Nat,
           since : Nat \cup {Cold}, rows : SUBSET Row]

CacheTyped ==
    /\ cached \subseteq Row
    /\ loginCursor \in Nat \cup {Cold}
    /\ topUp \in [LoginJobs -> Locals]
    /\ reads \subseteq [upto : Nat, next : Nat]
    /\ \A f \in reads : f.next <= nextId

\* What a top-up relies on: the cursor it took was right when it took it, and
\* what it is going to pass is in the cache, or in its hands.
Fits(s) ==
    /\ s.now <= today
    /\ s.pc = "select" /\ s.since # Cold => Passed(s.since, cached)
    /\ s.pc \in {"add", "cursor"} =>
         /\ s.rows # {} /\ IsFiniteSet(s.rows)
         /\ \A x \in s.rows :
              Passed(x.msg.at, IF s.pc = "add" THEN cached \cup s.rows ELSE cached)

CacheInv ==
    /\ CacheTyped
    /\ loginCursor # Cold => Passed(loginCursor, cached)
    /\ \A j \in LoginJobs : Fits(topUp[j])

SyslogInv == TableTyped /\ Arrivals /\ ArrivalOrder /\ LocatedRows

IngestInv == SyslogInv /\ RollupInv

----------------------------------------------------------------------------
(* The receiver                                                            *)

\* The smaller of two positive numbers.
LEMMA MinOfTwo ==
    ASSUME NEW a \in Nat \ {0}, NEW b \in Nat \ {0}
    PROVE  Min({a, b}) \in Nat \ {0} /\ Min({a, b}) <= a /\ Min({a, b}) <= b
<1>1. \E x \in {a, b} : \A y \in {a, b} : x <= y
  OBVIOUS
<1>2. Min({a, b}) \in {a, b} /\ \A y \in {a, b} : Min({a, b}) <= y
  BY <1>1 DEF Min
<1> QED
  BY <1>2

\* A finite sequence has a finite range.
LEMMA FiniteRange ==
    ASSUME NEW S, NEW s \in Seq(S), NEW f, f = [i \in 1 .. Len(s) |-> f[i]]
    PROVE  IsFiniteSet({f[i] : i \in 1 .. Len(s)})
<1> DEFINE T == {f[i] : i \in 1 .. Len(s)}
<1>1. Len(s) \in Int /\ 1 \in Int
  BY LenProperties
<1>2. IsFiniteSet(1 .. Len(s))
  BY <1>1, FS_Interval
<1>3. f \in Surjection(1 .. Len(s), T)
  BY DEF Surjection
<1> QED
  BY <1>2, <1>3, FS_Surjection

\* The rows of a batch take the next ids, in the order of the batch.
LEMMA RowsOfBatch ==
    ASSUME SyslogInv, NEW found, NoIp \notin found
    PROVE  /\ RowsOf(found) \subseteq Row /\ IsFiniteSet(RowsOf(found))
           /\ \A r \in RowsOf(found) :
                \E i \in 1 .. Len(batch) :
                  /\ r.id = nextId + i - 1
                  /\ r.arrival = batch[i].arrival
                  /\ r.located => AttackerOf(r.msg) # NoIp
<1> USE DEF SyslogInv, TableTyped, Arrivals
<1>1. /\ Len(batch) \in Nat /\ DOMAIN batch = 1 .. Len(batch) /\ nextId \in Nat
      /\ \A i \in 1 .. Len(batch) : batch[i] \in Record
  BY LenProperties, ElementOfSeq
<1> DEFINE row(i) == [id |-> nextId + i - 1, arrival |-> batch[i].arrival,
                      msg |-> batch[i].msg,
                      located |-> AttackerOf(batch[i].msg) \in found]
           f == [i \in 1 .. Len(batch) |-> row(i)]
<1>2. RowsOf(found) = {f[i] : i \in 1 .. Len(batch)}
  BY <1>1 DEF RowsOf
<1>3. ASSUME NEW i \in 1 .. Len(batch)
      PROVE  /\ f[i] \in Row
             /\ f[i].id = nextId + i - 1
             /\ f[i].arrival = batch[i].arrival
             /\ f[i].located => AttackerOf(f[i].msg) # NoIp
  <2> DEFINE at == AttackerOf(batch[i].msg)
  <2>1. f[i] = [id |-> nextId + i - 1, arrival |-> batch[i].arrival,
                msg |-> batch[i].msg, located |-> at \in found]
    OBVIOUS
  <2>2. batch[i].arrival \in Nat /\ batch[i].msg \in Messages /\ nextId + i - 1 \in Nat
    BY <1>1 DEF Record
  <2>3. (at \in found) \in BOOLEAN
    OBVIOUS
  <2> HIDE DEF f, row, at
  <2>4. f[i].located => at # NoIp
    <3>1. f[i].located = (at \in found)
      BY <2>1
    <3> QED
      BY <3>1, Zenon
  <2>5. f[i] \in Row
    BY <2>1, <2>2, <2>3 DEF Row
  <2> QED
    BY <2>1, <2>4, <2>5 DEF at
<1>4. IsFiniteSet({f[i] : i \in 1 .. Len(batch)})
  <2> HIDE DEF f, row
  <2>1. f = [i \in 1 .. Len(batch) |-> f[i]]
    BY DEF f
  <2> QED
    BY <2>1, FiniteRange
<1> HIDE DEF f
<1> QED
  BY <1>2, <1>3, <1>4

\* A record that is younger than the rest at the end of a sequence ...
LEMMA AppendYoungest ==
    ASSUME NEW s \in Seq(Record), NEW n \in Nat, Increasing(s), UpTo(s, n),
           NEW x \in Record, x.arrival = n + 1
    PROVE  /\ Append(s, x) \in Seq(Record)
           /\ Increasing(Append(s, x)) /\ UpTo(Append(s, x), n + 1)
           /\ \A a \in 0 .. n : Younger(s, a) => Younger(Append(s, x), a)
<1> DEFINE t == Append(s, x)
<1>1. /\ Len(s) \in Nat /\ Len(t) = Len(s) + 1 /\ t \in Seq(Record)
      /\ \A i \in 1 .. Len(s) : t[i] = s[i]
      /\ t[Len(s) + 1] = x
  BY AppendProperties, LenProperties
<1>2. \A i \in 1 .. Len(s) : s[i].arrival \in Nat /\ s[i].arrival < n + 1
  <2>1. \A i \in 1 .. Len(s) : s[i] \in Record
    BY ElementOfSeq
  <2> QED
    BY <2>1 DEF Record, UpTo
<1> HIDE DEF t
<1>3. \A i \in 1 .. Len(t) : \/ i \in 1 .. Len(s) /\ t[i] = s[i]
                             \/ i = Len(s) + 1 /\ t[i] = x
  BY <1>1
<1>4. Increasing(t)
  BY <1>1, <1>2, <1>3 DEF Increasing
<1>5. UpTo(t, n + 1)
  BY <1>2, <1>3 DEF UpTo
<1>6. \A a \in 0 .. n : Younger(s, a) => Younger(t, a)
  BY <1>3 DEF Younger
<1> QED
  BY <1>1, <1>4, <1>5, <1>6 DEF t

\* ... and the two parts of a sequence that is cut.
LEMMA CutIncreasing ==
    ASSUME NEW s \in Seq(Record), Increasing(s), NEW n \in 1 .. Len(s)
    PROVE  LET front == SubSeq(s, 1, n)
               rest == SubSeq(s, n + 1, Len(s))
           IN  /\ front \in Seq(Record) /\ rest \in Seq(Record)
               /\ Increasing(front) /\ Increasing(rest)
               /\ \A i \in 1 .. Len(front) : Younger(rest, front[i].arrival)
               /\ \A a \in Nat : /\ UpTo(s, a) => UpTo(front, a) /\ UpTo(rest, a)
                                 /\ Younger(s, a) => Younger(front, a) /\ Younger(rest, a)
<1> DEFINE front == SubSeq(s, 1, n)
           rest == SubSeq(s, n + 1, Len(s))
<1>1. Len(s) \in Nat /\ n \in Nat /\ n <= Len(s)
  BY LenProperties
<1>2. \A i \in 1 .. Len(s) : s[i] \in Record
  BY ElementOfSeq
<1>3. /\ front \in Seq(Record) /\ Len(front) = n
      /\ \A i \in 1 .. n : front[i] = s[i]
  BY <1>1, <1>2, SubSeqProperties
<1>4. /\ rest \in Seq(Record) /\ Len(rest) = Len(s) - n
      /\ \A i \in 1 .. Len(s) - n : rest[i] = s[n + i] /\ n + i \in 1 .. Len(s)
  <2>1. /\ n + 1 \in Int /\ Len(s) \in Int
        /\ \A i \in n + 1 .. Len(s) : s[i] \in Record
    BY <1>1, <1>2
  <2>2. /\ rest \in Seq(Record)
        /\ Len(rest) = IF n + 1 <= Len(s) THEN Len(s) - (n + 1) + 1 ELSE 0
        /\ \A i \in 1 .. Len(s) - (n + 1) + 1 : rest[i] = s[n + 1 + i - 1]
    BY <2>1, SubSeqProperties
  <2> HIDE DEF rest
  <2>3. Len(rest) = Len(s) - n
    BY <1>1, <2>2
  <2>4. ASSUME NEW i \in 1 .. Len(s) - n
        PROVE  rest[i] = s[n + i] /\ n + i \in 1 .. Len(s)
    <3>1. i \in 1 .. Len(s) - (n + 1) + 1 /\ n + 1 + i - 1 = n + i
      BY <1>1
    <3> QED
      BY <1>1, <2>2, <3>1
  <2> QED
    BY <2>2, <2>3, <2>4
<1> HIDE DEF front, rest
<1>5. Increasing(front) /\ Increasing(rest)
  <2>1. Increasing(front)
    BY <1>1, <1>3 DEF Increasing
  <2>2. ASSUME NEW i \in 1 .. Len(rest), NEW j \in 1 .. Len(rest), i < j
        PROVE  rest[i].arrival < rest[j].arrival
    <3>1. /\ rest[i] = s[n + i] /\ n + i \in 1 .. Len(s)
          /\ rest[j] = s[n + j] /\ n + j \in 1 .. Len(s)
          /\ n + i < n + j
      BY <1>1, <1>4, <2>2
    <3> QED
      BY <3>1 DEF Increasing
  <2> QED
    BY <2>1, <2>2 DEF Increasing
<1>6. \A i \in 1 .. Len(front) : Younger(rest, front[i].arrival)
  <2>1. ASSUME NEW i \in 1 .. n, NEW j \in 1 .. Len(s) - n
        PROVE  front[i].arrival < rest[j].arrival
    <3>1. /\ front[i] = s[i] /\ i \in 1 .. Len(s)
          /\ rest[j] = s[n + j] /\ n + j \in 1 .. Len(s)
          /\ i < n + j
      BY <1>1, <1>3, <1>4
    <3> QED
      BY <3>1 DEF Increasing
  <2> QED
    BY <1>3, <1>4, <2>1 DEF Younger
<1>7. ASSUME NEW a \in Nat
      PROVE  /\ UpTo(s, a) => UpTo(front, a) /\ UpTo(rest, a)
             /\ Younger(s, a) => Younger(front, a) /\ Younger(rest, a)
  <2>1. \A i \in 1 .. Len(front) : front[i] = s[i] /\ i \in 1 .. Len(s)
    BY <1>1, <1>3
  <2>2. \A i \in 1 .. Len(rest) : rest[i] = s[n + i] /\ n + i \in 1 .. Len(s)
    BY <1>1, <1>4
  <2>3. UpTo(s, a) => UpTo(front, a) /\ UpTo(rest, a)
    BY <2>1, <2>2 DEF UpTo
  <2>4. Younger(s, a) => Younger(front, a) /\ Younger(rest, a)
    BY <2>1, <2>2 DEF Younger
  <2> QED
    BY <2>3, <2>4
<1> QED
  BY <1>3, <1>4, <1>5, <1>6, <1>7 DEF front, rest

LEMMA SyslogInvInit == IngestInit => SyslogInv
<1>1. SUFFICES ASSUME IngestInit PROVE SyslogInv
  OBVIOUS
<1>2. logs = {} /\ queue = <<>> /\ batch = <<>> /\ nextId = 1 /\ faults = 0 /\ arrived = 0
      /\ today \in Nat
  BY <1>1 DEF IngestInit, SyslogInit
<1>3. <<>> \in Seq(Record) /\ Len(<<>>) = 0
  BY EmptySeq
<1>4. TableTyped
  BY <1>2, FS_EmptySet DEF TableTyped
<1>5. Arrivals
  BY <1>2, <1>3 DEF Arrivals, Increasing, Younger, UpTo
<1> QED
  BY <1>2, <1>4, <1>5 DEF SyslogInv, ArrivalOrder, LocatedRows

\* A message is the youngest of those that wait.
LEMMA ReceiveKeeps ==
    ASSUME SyslogInv, NEW m \in Messages, Receive(m)
    PROVE  SyslogInv'
<1>1. UNCHANGED <<logs, nextId, today, faults, batch>> /\ arrived' = arrived + 1
  BY DEF Receive, tableVars
<1>2. TableTyped' /\ ArrivalOrder' /\ LocatedRows'
  BY <1>1 DEF SyslogInv, TableTyped, ArrivalOrder, LocatedRows
<1> DEFINE new == [arrival |-> arrived + 1, msg |-> m]
<1>3. /\ arrived \in Nat /\ queue \in Seq(Record) /\ batch \in Seq(Record)
      /\ Increasing(queue) /\ UpTo(queue, arrived) /\ UpTo(batch, arrived)
      /\ \A r \in logs : r.arrival \in 0 .. arrived
      /\ \A i \in 1 .. Len(batch) : batch[i].arrival \in 0 .. arrived
  <2>1. \A i \in 1 .. Len(batch) : batch[i] \in Record
    BY ElementOfSeq DEF SyslogInv, Arrivals
  <2> QED
    BY <2>1 DEF SyslogInv, TableTyped, Arrivals, Row, Record, UpTo
<1>4. new \in Record /\ new.arrival = arrived + 1
  BY <1>3 DEF Record
<1> HIDE DEF new
<1>5. UpTo(batch, arrived + 1) /\ UpTo(queue, arrived + 1)
  <2>1. \A i \in 1 .. Len(queue) : queue[i].arrival \in Nat
    <3>1. \A i \in 1 .. Len(queue) : queue[i] \in Record
      BY <1>3, ElementOfSeq
    <3> QED
      BY <3>1 DEF Record
  <2> QED
    BY <1>3, <2>1 DEF UpTo
<1>6. CASE queue' = queue
  BY <1>1, <1>2, <1>3, <1>5, <1>6 DEF SyslogInv, Arrivals
<1>7. CASE queue' = Append(queue, new)
  <2>1. /\ queue' \in Seq(Record) /\ Increasing(queue') /\ UpTo(queue', arrived + 1)
        /\ \A a \in 0 .. arrived : Younger(queue, a) => Younger(queue', a)
    BY <1>3, <1>4, <1>7, AppendYoungest
  <2>2. \A i \in 1 .. Len(batch) : Younger(queue', batch[i].arrival)
    BY <1>3, <2>1 DEF SyslogInv, Arrivals
  <2>3. \A r \in logs : Younger(queue', r.arrival) /\ r.arrival <= arrived + 1
    BY <1>3, <2>1 DEF SyslogInv, Arrivals
  <2> QED
    BY <1>1, <1>2, <1>3, <1>5, <2>1, <2>2, <2>3 DEF SyslogInv, Arrivals
<1> QED
  BY <1>1, <1>6, <1>7 DEF Receive, new

\* A batch is the front of the queue.
LEMMA TakeBatchKeeps ==
    ASSUME SyslogInv, TakeBatch
    PROVE  SyslogInv'
<1>1. UNCHANGED <<logs, nextId, today, faults, arrived>> /\ queue # <<>>
  BY DEF TakeBatch, tableVars
<1>2. TableTyped' /\ ArrivalOrder' /\ LocatedRows'
  BY <1>1 DEF SyslogInv, TableTyped, ArrivalOrder, LocatedRows
<1> DEFINE n == Min({BatchSize, Len(queue)})
<1>3. batch' = SubSeq(queue, 1, n) /\ queue' = SubSeq(queue, n + 1, Len(queue))
  BY DEF TakeBatch
<1>4. /\ queue \in Seq(Record) /\ Increasing(queue) /\ UpTo(queue, arrived)
      /\ arrived \in Nat
      /\ \A r \in logs : r.arrival \in Nat /\ Younger(queue, r.arrival)
  BY DEF SyslogInv, TableTyped, Arrivals, Row
<1>5. n \in 1 .. Len(queue)
  <2>1. Len(queue) \in Nat \ {0}
    BY <1>1, <1>4, EmptySeq
  <2> QED
    BY <2>1, MinOfTwo, SyslogAssumption
<1> HIDE DEF n
<1>6. /\ batch' \in Seq(Record) /\ queue' \in Seq(Record)
      /\ Increasing(batch') /\ Increasing(queue')
      /\ \A i \in 1 .. Len(batch') : Younger(queue', batch'[i].arrival)
      /\ \A a \in Nat : /\ UpTo(queue, a) => UpTo(batch', a) /\ UpTo(queue', a)
                        /\ Younger(queue, a) => Younger(batch', a) /\ Younger(queue', a)
  BY <1>3, <1>4, <1>5, CutIncreasing
<1>7. Arrivals'
  BY <1>1, <1>4, <1>6 DEF SyslogInv, Arrivals
<1> QED
  BY <1>2, <1>7 DEF SyslogInv

\* What is inserted is younger than the rows, in ids and in arrival.
LEMMA InsertKeeps ==
    ASSUME SyslogInv, InsertBatch
    PROVE  SyslogInv'
<1>1. /\ UNCHANGED <<today, faults, queue, arrived>>
      /\ nextId' = nextId + Len(batch) /\ batch' = <<>>
  BY DEF InsertBatch
<1>2. PICK found \in SUBSET ({AttackerOf(b.msg) : b \in ToSet(batch)} \ {NoIp}) :
        logs' = logs \cup RowsOf(found)
  BY DEF InsertBatch
<1>3. NoIp \notin found
  BY <1>2
<1> DEFINE rows == RowsOf(found)
<1>4. /\ rows \subseteq Row /\ IsFiniteSet(rows)
      /\ \A r \in rows : \E i \in 1 .. Len(batch) :
           /\ r.id = nextId + i - 1
           /\ r.arrival = batch[i].arrival
           /\ r.located => AttackerOf(r.msg) # NoIp
  BY <1>3, RowsOfBatch
<1>5. logs' = logs \cup rows
  BY <1>2
<1> HIDE DEF rows
<1>6. Len(batch) \in Nat
  BY LenProperties DEF SyslogInv, Arrivals
<1>7. TableTyped'
  <2>1. IsFiniteSet(logs')
    BY <1>4, <1>5, FS_Union DEF SyslogInv, TableTyped
  <2>2. nextId' \in Nat /\ nextId <= nextId'
    BY <1>1, <1>6 DEF SyslogInv, TableTyped
  <2>3. \A r \in rows : r.id < nextId'
    BY <1>1, <1>4, <1>6 DEF SyslogInv, TableTyped
  <2>4. \A r \in logs : r.id < nextId'
    BY <1>1, <1>6 DEF SyslogInv, TableTyped, Row
  <2> QED
    BY <1>1, <1>4, <1>5, <2>1, <2>2, <2>3, <2>4 DEF SyslogInv, TableTyped
<1>8. Arrivals'
  <2>1. <<>> \in Seq(Record) /\ Len(<<>>) = 0
    BY EmptySeq
  <2>2. \A r \in rows : Younger(queue, r.arrival) /\ r.arrival <= arrived
    BY <1>4 DEF SyslogInv, Arrivals, UpTo
  <2>3. /\ Increasing(batch') /\ UpTo(batch', arrived)
        /\ \A a : Younger(batch', a)
        /\ \A i \in 1 .. Len(batch') : Younger(queue, batch'[i].arrival)
    BY <1>1, <2>1 DEF Increasing, UpTo, Younger
  <2> QED
    BY <1>1, <1>5, <2>1, <2>2, <2>3 DEF SyslogInv, Arrivals
<1>9. ArrivalOrder'
  <2>1. SUFFICES ASSUME NEW r \in logs', NEW q \in logs', r.id < q.id
                 PROVE  r.arrival < q.arrival
    BY DEF ArrivalOrder
  <2>2. CASE r \in logs /\ q \in logs
    BY <2>1, <2>2 DEF SyslogInv, ArrivalOrder
  <2>3. CASE r \in logs /\ q \in rows
    BY <1>4, <2>3 DEF SyslogInv, Arrivals, Younger
  <2>4. CASE r \in rows /\ q \in logs
    <3>1. q.id < nextId /\ q.id \in Nat /\ nextId \in Nat
      BY <2>4 DEF SyslogInv, TableTyped, Row
    <3>2. PICK i \in 1 .. Len(batch) : r.id = nextId + i - 1
      BY <1>4, <2>4
    <3> QED
      BY <1>6, <2>1, <3>1, <3>2
  <2>5. CASE r \in rows /\ q \in rows
    <3>1. PICK i \in 1 .. Len(batch) :
            r.id = nextId + i - 1 /\ r.arrival = batch[i].arrival
      BY <1>4, <2>5
    <3>2. PICK j \in 1 .. Len(batch) :
            q.id = nextId + j - 1 /\ q.arrival = batch[j].arrival
      BY <1>4, <2>5
    <3>3. i < j
      BY <1>6, <2>1, <3>1, <3>2 DEF SyslogInv, TableTyped
    <3> QED
      BY <3>1, <3>2, <3>3 DEF SyslogInv, Arrivals, Increasing
  <2> QED
    BY <1>5, <2>2, <2>3, <2>4, <2>5
<1>10. LocatedRows'
  BY <1>4, <1>5 DEF SyslogInv, LocatedRows
<1> QED
  BY <1>7, <1>8, <1>9, <1>10 DEF SyslogInv

\* Nothing waits in what is thrown away; ids may be skipped.
LEMMA DroppedKeeps ==
    ASSUME SyslogInv, UNCHANGED <<logs, today, arrived>>,
           faults' \in Nat, nextId' \in Nat, nextId <= nextId',
           queue' \in {queue, <<>>}, batch' \in {batch, <<>>}
    PROVE  SyslogInv'
<1>1. <<>> \in Seq(Record) /\ Len(<<>>) = 0
  BY EmptySeq
<1>2. Increasing(<<>>) /\ \A a : UpTo(<<>>, a) /\ Younger(<<>>, a)
  BY <1>1 DEF Increasing, UpTo, Younger
<1>3. TableTyped'
  BY DEF SyslogInv, TableTyped, Row
<1>4. \A i \in 1 .. Len(batch') : Younger(queue', batch'[i].arrival)
  BY <1>1, <1>2 DEF SyslogInv, Arrivals
<1>5. Arrivals'
  BY <1>1, <1>2, <1>4 DEF SyslogInv, Arrivals
<1> QED
  BY <1>3, <1>5 DEF SyslogInv, ArrivalOrder, LocatedRows

\* A subset of the rows is in the same order.
LEMMA DeletedKeeps ==
    ASSUME SyslogInv, logs' \subseteq logs,
           UNCHANGED <<nextId, queue, batch, arrived>>, faults' \in Nat, today' \in Nat
    PROVE  SyslogInv'
<1>1. TableTyped'
  BY FS_Subset DEF SyslogInv, TableTyped
<1>2. Arrivals'
  BY DEF SyslogInv, Arrivals
<1> QED
  BY <1>1, <1>2 DEF SyslogInv, ArrivalOrder, LocatedRows

LEMMA SyslogInvStep == SyslogInv /\ [IngestNext]_ingestVars => SyslogInv'
<1>1. SUFFICES ASSUME SyslogInv, [IngestNext]_ingestVars PROVE SyslogInv'
  OBVIOUS
<1>2. nextId \in Nat /\ faults \in Nat /\ today \in Nat
  BY <1>1 DEF SyslogInv, TableTyped
<1>3. CASE SyslogStep(Messages)
  <2>1. ASSUME NEW m \in Messages, Receive(m) PROVE SyslogInv'
    BY <1>1, <2>1, ReceiveKeeps
  <2>2. CASE TakeBatch
    BY <1>1, <2>2, TakeBatchKeeps
  <2>3. CASE InsertBatch
    BY <1>1, <2>3, InsertKeeps
  <2>4. CASE InsertFailed
    <3>1. /\ UNCHANGED <<logs, today, arrived, queue>> /\ batch' = <<>>
          /\ faults' = faults + 1
          /\ \E n \in nextId .. nextId + Len(batch) : nextId' = n
      BY <2>4 DEF InsertFailed, Fault
    <3>2. Len(batch) \in Nat
      BY <1>1, LenProperties DEF SyslogInv, Arrivals
    <3>3. faults' \in Nat /\ nextId' \in Nat /\ nextId <= nextId'
      BY <1>2, <3>1, <3>2
    <3> QED
      BY <1>1, <3>1, <3>3, DroppedKeeps
  <2>5. CASE Stop
    <3>1. UNCHANGED <<logs, nextId, today, arrived, queue, batch>> /\ faults' = faults + 1
      BY <2>5 DEF Stop, Fault, tableVars
    <3> QED
      BY <1>1, <1>2, <3>1, DroppedKeeps
  <2>6. CASE Restart
    <3>1. UNCHANGED <<logs, nextId, today, arrived, faults>> /\ queue' = <<>> /\ batch' = <<>>
      BY <2>6 DEF Restart, tableVars
    <3> QED
      BY <1>1, <1>2, <3>1, DroppedKeeps
  <2> QED
    BY <1>3, <2>1, <2>2, <2>3, <2>4, <2>5, <2>6 DEF SyslogStep, Worker
<1>4. CASE RollupStep(Refreshers) /\ UNCHANGED syslogVars
  <2>1. PICK r \in Refreshers : RefreshStep(r) \/ RefreshFailed(r)
    BY <1>4 DEF RollupStep
  <2>2. UNCHANGED <<logs, nextId, today>> /\ faults' \in {faults, faults + 1}
    BY <2>1 DEF RefreshStep, RefreshFailed, RefreshSkip, RefreshLock, RefreshRange,
       RefreshEmpty, RefreshFold, RefreshCommit, RefreshCheck, tableVars, Fault
  <2> QED
    BY <1>1, <1>2, <1>4, <2>2, DeletedKeeps DEF syslogVars
<1>5. CASE (PurgeStep \/ NextDay) /\ UNCHANGED syslogVars
  <2>1. logs' \subseteq logs /\ UNCHANGED <<nextId, faults>> /\ today' \in {today, today + 1}
    BY <1>5 DEF PurgeStep, PurgeStart, PurgeRows, PurgeDays, NextDay, tableVars
  <2> QED
    BY <1>1, <1>2, <1>5, <2>1, DeletedKeeps DEF syslogVars
<1>6. CASE LoginStep /\ UNCHANGED syslogVars
  <2>1. UNCHANGED <<logs, nextId, today>> /\ faults' \in {faults, faults + 1}
    BY <1>6 DEF LoginStep, TopUpStart, TopUpRead, TopUpBlind, TopUpStep, TopUpAdd, TopUpCursor,
       TopUpTrim, TopUpFailed, RedisFlush, tableVars, Fault
  <2> QED
    BY <1>1, <1>2, <1>6, <2>1, DeletedKeeps DEF syslogVars
<1>7. CASE UNCHANGED ingestVars
  BY <1>1, <1>2, <1>7, DeletedKeeps DEF ingestVars, tableVars, syslogVars
<1> QED
  BY <1>1, <1>3, <1>4, <1>5, <1>6, <1>7 DEF IngestNext

----------------------------------------------------------------------------
(* The rollup                                                              *)

\* The constants a refresh rests on.
LEMMA RollupConstants == Nobody \notin Refreshers /\ IdChunk \in Nat
BY RollupAssumption

LEMMA RollupInvInit == IngestInit => RollupInv
<1>1. SUFFICES ASSUME IngestInit PROVE RollupInv
  OBVIOUS
<1>2. /\ watermark = 0 /\ daily = [k \in RollupKeys |-> 0] /\ advisory = Nobody
      /\ refresh = [r \in Refreshers |-> NoRefresh] /\ purge = NoPurge
      /\ counted = {} /\ expired = {} /\ logs = {} /\ nextId = 1 /\ today \in Nat
  BY <1>1 DEF IngestInit, SyslogInit, RollupInit
<1>3. FoldTyped
  BY <1>2 DEF FoldTyped, NoRefresh, NoPurge
<1>4. \A r \in Refreshers : Folds(r)
  BY <1>2 DEF Folds, NoRefresh
<1>5. Counted /\ NoneSkipped
  BY <1>2, FS_EmptySet DEF Counted, NoneSkipped
<1>6. CountedOnce
  <2>1. ASSUME NEW k \in RollupKeys
        PROVE  daily[k] = Cardinality({r \in counted : KeyOf(r) = k})
    <3>1. {r \in counted : KeyOf(r) = k} = {}
      BY <1>2
    <3> QED
      BY <1>2, <3>1, FS_EmptySet
  <2> QED
    BY <2>1 DEF CountedOnce
<1> QED
  BY <1>3, <1>4, <1>5, <1>6 DEF RollupInv

\* Rows that come in have ids beyond what any refresh works on; rows that go
\* are missed by none.
LEMMA TableMoves ==
    ASSUME SyslogInv, RollupInv, SyslogInv',
           UNCHANGED <<watermark, daily, advisory, refresh, counted, expired>>,
           nextId <= nextId', today <= today',
           \A q \in logs' : q \in logs \/ q.id >= nextId,
           purge' \in [pc : {"idle", "connections", "security", "days"}, day : Nat],
           purge'.day <= today'
    PROVE  RollupInv'
<1>1. nextId \in Nat /\ nextId' \in Nat /\ watermark \in Nat /\ watermark < nextId
  BY DEF SyslogInv, TableTyped, RollupInv, FoldTyped
<1>2. \A q \in logs' : q.id \in Nat
  BY DEF SyslogInv, TableTyped, Row
<1>3. FoldTyped'
  BY <1>1 DEF RollupInv, FoldTyped
<1>4. ASSUME NEW r \in Refreshers PROVE Folds(r)'
  <2>1. Folds(r) /\ refresh[r].top \in Nat /\ refresh[r].lo \in Nat
    BY DEF RollupInv, FoldTyped
  <2>2. refresh[r].pc \in {"fold", "commit"} =>
          refresh[r].lo < refresh[r].top /\ refresh[r].top < nextId'
    BY <1>1, <2>1 DEF Folds
  <2>3. refresh[r].pc = "commit" =>
          \A q \in logs' : Mappable(q) /\ refresh[r].lo < q.id /\ q.id <= refresh[r].top
                             => q \in refresh[r].rows
    BY <1>1, <1>2, <2>1 DEF Folds
  <2> QED
    BY <2>1, <2>2, <2>3 DEF Folds
<1>5. Counted' /\ CountedOnce'
  BY DEF RollupInv, Counted, CountedOnce
<1>6. NoneSkipped'
  BY <1>1, <1>2 DEF RollupInv, NoneSkipped
<1> QED
  BY <1>3, <1>4, <1>5, <1>6 DEF RollupInv

\* A step of one refresh leaves the locals of the others alone.
LEMMA OneRefresh ==
    ASSUME FoldTyped, NEW r \in Refreshers, NEW t, Continue(r, t)
    PROVE  refresh'[r] = t /\ \A x \in Refreshers \ {r} : refresh'[x] = refresh[x]
BY DEF FoldTyped, Continue

LEMMA OneRefreshTyped ==
    ASSUME FoldTyped, NEW r \in Refreshers,
           NEW t \in [pc : {"idle", "again", "range", "fold", "commit", "check"},
                      lo : Nat, top : Nat, rows : SUBSET Row, left : Nat],
           Continue(r, t)
    PROVE  refresh' \in [Refreshers ->
             [pc : {"idle", "again", "range", "fold", "commit", "check"},
              lo : Nat, top : Nat, rows : SUBSET Row, left : Nat]]
BY DEF FoldTyped, Continue

\* With the lock one refresh only is in its transaction.
LEMMA OneFolder ==
    ASSUME RollupInv, NEW r \in Refreshers, NEW x \in Refreshers, x # r,
           advisory \in {Nobody, r}
    PROVE  refresh[x].pc \notin {"range", "fold", "commit"}
BY RollupConstants DEF RollupInv, Folds

\* A refresh that changes nothing but its locals, and the lock if it had it.
LEMMA LocalMove ==
    ASSUME SyslogInv, RollupInv, NEW r \in Refreshers,
           NEW t \in [pc : {"idle", "again", "range", "fold", "commit", "check"},
                      lo : Nat, top : Nat, rows : SUBSET Row, left : Nat],
           Continue(r, t), Folds(r)',
           UNCHANGED <<logs, nextId, today, watermark, daily, purge, counted, expired>>,
           advisory' \in Refreshers \cup {Nobody},
           advisory' = advisory \/ advisory \in {Nobody, r}
    PROVE  RollupInv'
<1>1. /\ refresh'[r] = t /\ \A x \in Refreshers \ {r} : refresh'[x] = refresh[x]
      /\ refresh' \in [Refreshers ->
           [pc : {"idle", "again", "range", "fold", "commit", "check"},
            lo : Nat, top : Nat, rows : SUBSET Row, left : Nat]]
  BY OneRefresh, OneRefreshTyped DEF RollupInv
<1>2. FoldTyped'
  BY <1>1 DEF RollupInv, FoldTyped
<1>3. ASSUME NEW x \in Refreshers PROVE Folds(x)'
  <2>1. CASE x = r
    BY <2>1
  <2>2. CASE x # r /\ advisory' = advisory
    BY <1>1, <2>2 DEF RollupInv, Folds
  <2>3. CASE x # r /\ advisory \in {Nobody, r}
    <3>1. refresh'[x].pc \notin {"range", "fold", "commit"}
      BY <1>1, <2>3, OneFolder
    <3> QED
      BY <3>1 DEF Folds
  <2> QED
    BY <2>1, <2>2, <2>3
<1>4. Counted' /\ CountedOnce' /\ NoneSkipped'
  BY DEF RollupInv, Counted, CountedOnce, NoneSkipped
<1> QED
  BY <1>2, <1>3, <1>4 DEF RollupInv

\* The least number of a set.
LEMMA LeastOf ==
    ASSUME NEW T, T \subseteq Nat, T # {}
    PROVE  \E m \in T : \A k \in T : m <= k
<1>1. PICK m \in T : \A k \in T : ~(<<k, m>> \in OpToRel(<, Nat))
  BY NatLessThanWellFounded, WFMin, Zenon
<1>2. \A k \in T : k \in Nat /\ m \in Nat
  OBVIOUS
<1>3. \A k \in T : ~(k < m)
  BY <1>1, <1>2, Zenon DEF OpToRel
<1> QED
  BY <1>2, <1>3

\* The greatest of the numbers up to a bound.
LEMMA GreatestOf ==
    ASSUME NEW n \in Nat, NEW S, S \subseteq 0 .. n, S # {}
    PROVE  Max(S) \in S /\ \A x \in S : x <= Max(S)
<1>1. \E x \in S : \A y \in S : x >= y
  <2>1. PICK x \in S : TRUE
    OBVIOUS
  <2> DEFINE T == {m \in Nat : n - m \in S /\ m <= n}
  <2>2. T \subseteq Nat /\ n - x \in T
    BY <2>1
  <2> HIDE DEF T
  <2>3. PICK m \in T : \A k \in T : m <= k
    BY <2>2, LeastOf
  <2>4. n - m \in S /\ m \in Nat
    BY <2>3 DEF T
  <2>5. ASSUME NEW y \in S PROVE n - m >= y
    <3>1. n - y \in T
      BY DEF T
    <3> QED
      BY <2>3, <2>4, <3>1
  <2> QED
    BY <2>4, <2>5
<1> QED
  BY <1>1 DEF Max

LEMMA RefreshLockKeeps ==
    ASSUME SyslogInv, RollupInv, NEW r \in Refreshers, RefreshLock(r)
    PROVE  RollupInv'
<1>1. /\ Continue(r, Locked(r)) /\ advisory' = r /\ advisory = Nobody
      /\ UNCHANGED <<logs, nextId, today, watermark, daily, purge, counted, expired>>
  BY DEF RefreshLock, tableVars, foldHistory
<1>2. RoundsLeft(r) \in Nat
  BY RollupAssumption DEF RoundsLeft, RollupInv, FoldTyped
<1>3. NoRefresh \in [pc : {"idle", "again", "range", "fold", "commit", "check"},
                     lo : Nat, top : Nat, rows : SUBSET Row, left : Nat]
  BY DEF NoRefresh
<1>4. /\ Locked(r) \in [pc : {"idle", "again", "range", "fold", "commit", "check"},
                        lo : Nat, top : Nat, rows : SUBSET Row, left : Nat]
      /\ Locked(r).pc = "range" /\ Locked(r).lo = watermark
  BY <1>2, <1>3 DEF Locked, RollupInv, FoldTyped
<1>5. refresh'[r] = Locked(r)
  BY <1>1, OneRefresh DEF RollupInv
<1>6. Folds(r)'
  BY <1>1, <1>4, <1>5 DEF Folds
<1> QED
  BY <1>1, <1>4, <1>6, LocalMove

\* The states a refresh ends in promise nothing.
LEMMA RefreshEndsKeeps ==
    ASSUME SyslogInv, RollupInv, NEW r \in Refreshers,
           NEW t \in [pc : {"idle", "again"},
                      lo : Nat, top : Nat, rows : SUBSET Row, left : Nat],
           Continue(r, t),
           UNCHANGED <<logs, nextId, today, watermark, daily, purge, counted, expired>>,
           advisory' = advisory \/ (advisory' = Nobody /\ advisory = r)
    PROVE  RollupInv'
<1>1. t \in [pc : {"idle", "again", "range", "fold", "commit", "check"},
             lo : Nat, top : Nat, rows : SUBSET Row, left : Nat]
  OBVIOUS
<1>2. refresh'[r] = t
  BY OneRefresh DEF RollupInv
<1>3. Folds(r)'
  BY <1>2 DEF Folds
<1>4. advisory' \in Refreshers \cup {Nobody}
  BY DEF RollupInv, FoldTyped
<1> QED
  BY <1>1, <1>3, <1>4, LocalMove

LEMMA RefreshRangeKeeps ==
    ASSUME SyslogInv, RollupInv, NEW r \in Refreshers, RefreshRange(r)
    PROVE  RollupInv'
<1> DEFINE s == refresh[r]
           found == Ids(InRange(s.lo, s.lo + IdChunk))
           t == [s EXCEPT !.pc = "fold", !.top = Max(found)]
<1>1. /\ s.pc = "range" /\ found # {} /\ Continue(r, t)
      /\ UNCHANGED <<logs, nextId, today, watermark, daily, advisory, purge, counted, expired>>
  BY DEF RefreshRange, Going, tableVars, foldHistory
<1>2. /\ s \in [pc : {"idle", "again", "range", "fold", "commit", "check"},
                lo : Nat, top : Nat, rows : SUBSET Row, left : Nat]
      /\ Folds(r) /\ advisory \in Refreshers \cup {Nobody}
  BY DEF RollupInv, FoldTyped
<1>3. \A x \in found : x \in Nat /\ s.lo < x /\ x < nextId
  BY DEF Ids, InRange, SyslogInv, TableTyped, Row
<1>4. Max(found) \in found
  <2>1. nextId \in Nat /\ found \subseteq 0 .. nextId
    BY <1>3 DEF SyslogInv, TableTyped
  <2> HIDE DEF found
  <2> QED
    BY <1>1, <2>1, GreatestOf
<1>5. Max(found) \in Nat /\ s.lo < Max(found) /\ Max(found) < nextId
  BY <1>3, <1>4
<1> HIDE DEF found
<1>6. /\ t \in [pc : {"idle", "again", "range", "fold", "commit", "check"},
                lo : Nat, top : Nat, rows : SUBSET Row, left : Nat]
      /\ t.pc = "fold" /\ t.lo = s.lo /\ t.top = Max(found)
  BY <1>2, <1>5
<1>7. refresh'[r] = t
  BY <1>1, OneRefresh DEF RollupInv
<1> HIDE DEF t
<1>8. Folds(r)'
  BY <1>1, <1>2, <1>5, <1>6, <1>7 DEF Folds
<1> QED
  BY <1>1, <1>2, <1>6, <1>8, LocalMove

LEMMA RefreshFoldKeeps ==
    ASSUME SyslogInv, RollupInv, NEW r \in Refreshers, RefreshFold(r)
    PROVE  RollupInv'
<1> DEFINE s == refresh[r]
           rows == {q \in InRange(s.lo, s.top) : Mappable(q)}
           t == [s EXCEPT !.pc = "commit", !.rows = rows]
<1>1. /\ s.pc = "fold" /\ Continue(r, t)
      /\ UNCHANGED <<logs, nextId, today, watermark, daily, advisory, purge, counted, expired>>
  BY DEF RefreshFold, Going, tableVars, foldHistory
<1>2. /\ s \in [pc : {"idle", "again", "range", "fold", "commit", "check"},
                lo : Nat, top : Nat, rows : SUBSET Row, left : Nat]
      /\ Folds(r) /\ advisory \in Refreshers \cup {Nobody}
  BY DEF RollupInv, FoldTyped
<1>3. rows \subseteq logs /\ rows \subseteq Row /\ IsFiniteSet(rows)
  <2>1. rows \subseteq logs
    BY DEF InRange
  <2> QED
    BY <2>1, FS_Subset DEF SyslogInv, TableTyped
<1>4. \A q \in rows : /\ s.lo < q.id /\ q.id <= s.top
                      /\ Mappable(q) /\ AttackerOf(q.msg) # NoIp
  BY DEF InRange, Mappable, SyslogInv, LocatedRows
<1>5. \A q \in logs : Mappable(q) /\ s.lo < q.id /\ q.id <= s.top => q \in rows
  BY DEF InRange
<1> HIDE DEF rows
<1>6. /\ t \in [pc : {"idle", "again", "range", "fold", "commit", "check"},
                lo : Nat, top : Nat, rows : SUBSET Row, left : Nat]
      /\ t.pc = "commit" /\ t.lo = s.lo /\ t.top = s.top /\ t.rows = rows
  BY <1>2, <1>3
<1>7. refresh'[r] = t
  BY <1>1, OneRefresh DEF RollupInv
<1> HIDE DEF t
<1>8. Folds(r)'
  <2>1. /\ refresh'[r].pc = "commit" /\ refresh'[r].lo = s.lo /\ refresh'[r].top = s.top
        /\ refresh'[r].rows = rows
    BY <1>6, <1>7
  <2>2. advisory' = r /\ s.lo = watermark' /\ s.lo < s.top /\ s.top < nextId'
    BY <1>1, <1>2 DEF Folds
  <2>3. \A q \in rows : Mappable(q)'
    BY <1>4 DEF Mappable
  <2> QED
    BY <1>1, <1>3, <1>4, <1>5, <2>1, <2>2 DEF Folds, Mappable
<1> QED
  BY <1>1, <1>2, <1>6, <1>8, LocalMove

\* What is folded is counted once: all that was counted lies behind the lock
\* holder's watermark, and all it folds beyond it.
LEMMA RefreshCommitKeeps ==
    ASSUME SyslogInv, RollupInv, NEW r \in Refreshers, RefreshCommit(r)
    PROVE  RollupInv'
<1> DEFINE s == refresh[r]
           t == [s EXCEPT !.pc = "check"]
<1>1. /\ s.pc = "commit" /\ Continue(r, t) /\ advisory' = Nobody
      /\ daily' = [k \in RollupKeys |->
                     daily[k] + Cardinality({q \in s.rows : KeyOf(q) = k})]
      /\ watermark' = s.top /\ counted' = counted \cup s.rows
      /\ UNCHANGED <<logs, nextId, today, purge, expired>>
  BY DEF RefreshCommit, Going, tableVars
<1>2. /\ s \in [pc : {"idle", "again", "range", "fold", "commit", "check"},
                lo : Nat, top : Nat, rows : SUBSET Row, left : Nat]
      /\ Folds(r) /\ FoldTyped /\ Counted /\ CountedOnce /\ NoneSkipped
  BY DEF RollupInv, FoldTyped
<1>3. /\ advisory = r /\ s.lo = watermark /\ s.lo < s.top /\ s.top < nextId
      /\ IsFiniteSet(s.rows)
      /\ \A q \in s.rows : /\ s.lo < q.id /\ q.id <= s.top
                           /\ Mappable(q) /\ AttackerOf(q.msg) # NoIp
      /\ \A q \in logs : Mappable(q) /\ s.lo < q.id /\ q.id <= s.top => q \in s.rows
  BY <1>1, <1>2 DEF Folds
<1>4. /\ t \in [pc : {"idle", "again", "range", "fold", "commit", "check"},
                lo : Nat, top : Nat, rows : SUBSET Row, left : Nat]
      /\ t.pc = "check"
  BY <1>2
<1>5. /\ refresh'[r] = t /\ \A x \in Refreshers \ {r} : refresh'[x] = refresh[x]
      /\ refresh' \in [Refreshers ->
           [pc : {"idle", "again", "range", "fold", "commit", "check"},
            lo : Nat, top : Nat, rows : SUBSET Row, left : Nat]]
  BY <1>1, <1>2, <1>4, OneRefresh, OneRefreshTyped
<1>6. /\ watermark \in Nat /\ s.lo \in Nat /\ s.top \in Nat
      /\ \A q \in counted : q.id \in Nat /\ q.id <= watermark
      /\ \A q \in s.rows : q.id \in Nat /\ q \in Row
      /\ \A q \in logs : q.id \in Nat
  BY <1>2 DEF FoldTyped, Counted, Row, SyslogInv, TableTyped
<1> HIDE DEF s, t
<1>7. counted \cap s.rows = {}
  BY <1>3, <1>6
<1>8. CountedOnce' /\ daily' \in [RollupKeys -> Nat]
  <2>1. ASSUME NEW k \in RollupKeys
        PROVE  /\ daily'[k] = Cardinality({q \in counted' : KeyOf(q) = k})
               /\ daily'[k] \in Nat
    <3> DEFINE old == {q \in counted : KeyOf(q) = k}
               new == {q \in s.rows : KeyOf(q) = k}
    <3>1. IsFiniteSet(old) /\ IsFiniteSet(new)
      BY <1>2, <1>3, FS_Subset DEF Counted
    <3>2. old \cap new = {} /\ {q \in counted' : KeyOf(q) = k} = old \cup new
      BY <1>1, <1>7
    <3>3. Cardinality(old) \in Nat /\ Cardinality(new) \in Nat
      BY <3>1, FS_CardinalityType
    <3>4. Cardinality(old \cup new) = Cardinality(old) + Cardinality(new)
      <4> HIDE DEF old, new
      <4>1. Cardinality(old \cup new)
              = Cardinality(old) + Cardinality(new) - Cardinality(old \cap new)
        BY <3>1, FS_Union
      <4>2. Cardinality({}) = 0
        BY FS_EmptySet
      <4>3. Cardinality(old \cap new) = 0
        BY <3>2, <4>2
      <4> QED
        BY <3>3, <4>1, <4>3
    <3>5. daily[k] = Cardinality(old)
      BY <1>2 DEF CountedOnce
    <3>6. daily'[k] = daily[k] + Cardinality(new)
      BY <1>1
    <3>7. Cardinality({q \in counted' : KeyOf(q) = k}) = Cardinality(old \cup new)
      BY <3>2
    <3> HIDE DEF old, new
    <3> QED
      BY <3>3, <3>4, <3>5, <3>6, <3>7
  <2>2. daily' = [k \in RollupKeys |-> daily'[k]]
    BY <1>1
  <2> QED
    BY <2>1, <2>2 DEF CountedOnce
<1>9. FoldTyped'
  BY <1>1, <1>2, <1>3, <1>5, <1>6, <1>8 DEF FoldTyped
<1>10. ASSUME NEW x \in Refreshers PROVE Folds(x)'
  <2>1. CASE x = r
    BY <1>4, <1>5, <2>1 DEF Folds
  <2>2. CASE x # r
    <3>1. refresh'[x].pc \notin {"range", "fold", "commit"}
      BY <1>3, <1>5, <2>2, OneFolder
    <3> QED
      BY <3>1 DEF Folds
  <2> QED
    BY <2>1, <2>2
<1>11. Counted'
  <2>1. counted' \subseteq Row /\ IsFiniteSet(counted')
    BY <1>1, <1>2, <1>3, <1>6, FS_Union DEF Counted
  <2>2. \A q \in counted : q.id <= s.top /\ Mappable(q) /\ AttackerOf(q.msg) # NoIp
    BY <1>2, <1>3, <1>6 DEF Counted
  <2> QED
    BY <1>1, <1>3, <2>1, <2>2 DEF Counted
<1>12. NoneSkipped'
  <2>1. SUFFICES ASSUME NEW q \in logs, Mappable(q), q.id <= s.top
                 PROVE  q \in counted \cup s.rows \cup expired
    BY <1>1 DEF NoneSkipped
  <2>2. CASE q.id <= watermark
    BY <1>2, <2>1, <2>2 DEF NoneSkipped
  <2>3. CASE watermark < q.id
    BY <1>3, <2>1, <2>3
  <2> QED
    BY <1>6, <2>2, <2>3
<1> QED
  BY <1>8, <1>9, <1>10, <1>11, <1>12 DEF RollupInv

\* The steps at which a refresh ends, or pauses before its next round.
LEMMA RefreshStopsKeeps ==
    ASSUME SyslogInv, RollupInv, NEW r \in Refreshers,
           RefreshSkip(r) \/ RefreshEmpty(r) \/ RefreshCheck(r) \/ RefreshFailed(r)
    PROVE  RollupInv'
<1> DEFINE Ended == [pc : {"idle", "again"},
                     lo : Nat, top : Nat, rows : SUBSET Row, left : Nat]
<1>1. NoRefresh \in Ended
  BY DEF NoRefresh
<1>2. CASE RefreshSkip(r)
  <2>1. /\ Continue(r, NoRefresh) /\ advisory' = advisory
        /\ UNCHANGED <<logs, nextId, today, watermark, daily, purge, counted, expired>>
    BY <1>2 DEF RefreshSkip, End, tableVars, foldHistory
  <2> QED
    BY <1>1, <2>1, RefreshEndsKeeps
<1>3. CASE RefreshEmpty(r)
  <2>1. /\ Continue(r, NoRefresh) /\ advisory' = Nobody /\ refresh[r].pc = "range"
        /\ UNCHANGED <<logs, nextId, today, watermark, daily, purge, counted, expired>>
    BY <1>3 DEF RefreshEmpty, End, Going, tableVars, foldHistory
  <2>2. advisory = r
    BY <2>1 DEF RollupInv, Folds
  <2> QED
    BY <1>1, <2>1, <2>2, RefreshEndsKeeps
<1>4. CASE RefreshCheck(r)
  <2> DEFINE s == refresh[r]
             behind == \E q \in logs : q.id > s.top
             more == [NoRefresh EXCEPT !.pc = "again", !.left = s.left - 1]
             goes == behind /\ s.rows # {} /\ s.left > 1
  <2>1. /\ Continue(r, IF goes THEN more ELSE NoRefresh) /\ advisory' = advisory
        /\ UNCHANGED <<logs, nextId, today, watermark, daily, purge, counted, expired>>
    BY <1>4 DEF RefreshCheck, tableVars, foldHistory
  <2>2. s.left \in Nat
    BY DEF RollupInv, FoldTyped
  <2>3. CASE goes
    <3>1. s.left - 1 \in Nat
      BY <2>2, <2>3
    <3>2. more \in Ended
      BY <1>1, <3>1
    <3>3. Continue(r, more)
      BY <2>1, <2>3
    <3> HIDE DEF more
    <3> QED
      BY <2>1, <3>2, <3>3, RefreshEndsKeeps
  <2>4. CASE ~goes
    <3>1. Continue(r, NoRefresh)
      BY <2>1, <2>4
    <3> QED
      BY <1>1, <2>1, <3>1, RefreshEndsKeeps
  <2> QED
    BY <2>3, <2>4
<1>5. CASE RefreshFailed(r)
  <2>1. /\ Continue(r, NoRefresh)
        /\ advisory' = IF advisory = r THEN Nobody ELSE advisory
        /\ UNCHANGED <<logs, nextId, today, watermark, daily, purge, counted, expired>>
    BY <1>5 DEF RefreshFailed, End, tableVars, foldHistory
  <2> QED
    BY <1>1, <2>1, RefreshEndsKeeps
<1> QED
  BY <1>2, <1>3, <1>4, <1>5

\* What is purged of the days is counted no more, and known to have been.
LEMMA PurgeDaysKeeps ==
    ASSUME SyslogInv, RollupInv, PurgeDays
    PROVE  RollupInv'
<1> DEFINE old == {q \in counted : Aged(q, KeepDays)}
<1>1. /\ daily' = [k \in RollupKeys |->
                     IF k[1] + KeepDays < purge.day THEN 0 ELSE daily[k]]
      /\ counted' = counted \ old /\ expired' = expired \cup old
      /\ purge' = NoPurge
      /\ UNCHANGED <<logs, nextId, today, watermark, advisory, refresh>>
  BY DEF PurgeDays, tableVars
<1>2. FoldTyped /\ Counted /\ CountedOnce /\ NoneSkipped /\ \A r \in Refreshers : Folds(r)
  BY DEF RollupInv
<1>3. daily' \in [RollupKeys -> Nat]
  BY <1>1, <1>2 DEF FoldTyped
<1>4. FoldTyped'
  BY <1>1, <1>2, <1>3 DEF FoldTyped, NoPurge, SyslogInv, TableTyped
<1>5. \A r \in Refreshers : Folds(r)'
  BY <1>1, <1>2 DEF Folds, Mappable
<1>6. Counted'
  <2>1. counted' \subseteq counted
    BY <1>1
  <2>2. IsFiniteSet(counted')
    BY <1>2, <2>1, FS_Subset DEF Counted
  <2> QED
    BY <1>1, <1>2, <2>1, <2>2 DEF Counted
<1>7. NoneSkipped'
  BY <1>1, <1>2 DEF NoneSkipped
<1>8. CountedOnce'
  <2>1. SUFFICES ASSUME NEW k \in RollupKeys
                 PROVE  daily'[k] = Cardinality({q \in counted' : KeyOf(q) = k})
    BY DEF CountedOnce
  <2>2. \A q : KeyOf(q)[1] = q.msg.at
    BY DEF KeyOf
  <2>3. CASE k[1] + KeepDays < purge.day
    <3>1. {q \in counted' : KeyOf(q) = k} = {}
      BY <1>1, <2>2, <2>3 DEF Aged
    <3>2. daily'[k] = 0
      BY <1>1, <2>3
    <3> QED
      BY <3>1, <3>2, FS_EmptySet
  <2>4. CASE ~(k[1] + KeepDays < purge.day)
    <3>1. {q \in counted' : KeyOf(q) = k} = {q \in counted : KeyOf(q) = k}
      BY <1>1, <2>2, <2>4 DEF Aged
    <3>2. daily'[k] = daily[k]
      BY <1>1, <2>4
    <3> QED
      BY <1>2, <3>1, <3>2 DEF CountedOnce
  <2> QED
    BY <2>3, <2>4
<1> QED
  BY <1>4, <1>5, <1>6, <1>7, <1>8 DEF RollupInv

\* The receiver adds rows with new ids only.
LEMMA SyslogAddsNewRows ==
    ASSUME SyslogInv, SyslogStep(Messages)
    PROVE  /\ nextId <= nextId' /\ today' = today
           /\ \A q \in logs' : q \in logs \/ q.id >= nextId
<1>1. nextId \in Nat /\ Len(batch) \in Nat
  BY LenProperties DEF SyslogInv, TableTyped, Arrivals
<1>2. CASE InsertBatch
  <2>1. nextId' = nextId + Len(batch) /\ today' = today
    BY <1>2 DEF InsertBatch
  <2>2. PICK found \in SUBSET ({AttackerOf(b.msg) : b \in ToSet(batch)} \ {NoIp}) :
          logs' = logs \cup RowsOf(found)
    BY <1>2 DEF InsertBatch
  <2>3. \A q \in RowsOf(found) : \E i \in 1 .. Len(batch) : q.id = nextId + i - 1
    BY <2>2, RowsOfBatch
  <2>4. \A q \in RowsOf(found) : q.id >= nextId
    BY <1>1, <2>3
  <2> QED
    BY <1>1, <2>1, <2>2, <2>4
<1>3. CASE InsertFailed
  <2>1. UNCHANGED <<logs, today>> /\ \E n \in nextId .. nextId + Len(batch) : nextId' = n
    BY <1>3 DEF InsertFailed
  <2> QED
    BY <1>1, <2>1
<1>4. CASE (\E m \in Messages : Receive(m)) \/ TakeBatch \/ Stop \/ Restart
  <2>1. UNCHANGED <<logs, nextId, today>>
    BY <1>4 DEF Receive, TakeBatch, Stop, Restart, tableVars
  <2> QED
    BY <1>1, <2>1
<1> QED
  BY <1>2, <1>3, <1>4 DEF SyslogStep, Worker

LEMMA RollupInvStep ==
    SyslogInv /\ RollupInv /\ SyslogInv' /\ [IngestNext]_ingestVars => RollupInv'
<1>1. SUFFICES ASSUME SyslogInv, RollupInv, SyslogInv', [IngestNext]_ingestVars
               PROVE  RollupInv'
  OBVIOUS
<1> DEFINE Purges == [pc : {"idle", "connections", "security", "days"}, day : Nat]
<1>2. purge \in Purges /\ purge.day \in Nat /\ purge.day <= today
      /\ today \in Nat /\ nextId \in Nat
  BY <1>1 DEF RollupInv, FoldTyped, SyslogInv, TableTyped
<1>3. CASE SyslogStep(Messages) /\ UNCHANGED rollupVars
  <2>1. /\ nextId <= nextId' /\ today' = today
        /\ \A q \in logs' : q \in logs \/ q.id >= nextId
    BY <1>1, <1>3, SyslogAddsNewRows
  <2> QED
    BY <1>1, <1>2, <1>3, <2>1, TableMoves DEF rollupVars
<1>4. CASE RollupStep(Refreshers)
  <2>1. PICK r \in Refreshers : RefreshStep(r) \/ RefreshFailed(r)
    BY <1>4 DEF RollupStep
  <2> QED
    BY <1>1, <2>1, RefreshLockKeeps, RefreshRangeKeeps, RefreshFoldKeeps,
       RefreshCommitKeeps, RefreshStopsKeeps DEF RefreshStep
<1>5. CASE PurgeStart
  <2>1. /\ purge' = [pc |-> "connections", day |-> today]
        /\ UNCHANGED <<logs, nextId, today, watermark, daily, advisory, refresh,
                       counted, expired>>
    BY <1>5 DEF PurgeStart, tableVars, foldHistory
  <2>2. purge' \in Purges /\ purge'.day <= today
    BY <1>2, <2>1
  <2> QED
    BY <1>1, <1>2, <2>1, <2>2, TableMoves
<1>6. CASE PurgeRows
  <2>1. /\ logs' \subseteq logs
        /\ purge' = purge \/ \E pc \in {"security", "days"} : purge' = [purge EXCEPT !.pc = pc]
        /\ UNCHANGED <<nextId, today, watermark, daily, advisory, refresh,
                       counted, expired>>
    BY <1>6 DEF PurgeRows, foldHistory
  <2>2. purge' \in Purges /\ purge'.day = purge.day
    BY <1>2, <2>1
  <2> QED
    BY <1>1, <1>2, <2>1, <2>2, TableMoves
<1>7. CASE PurgeDays
  BY <1>1, <1>7, PurgeDaysKeeps
<1>8. CASE NextDay
  <2>1. UNCHANGED <<logs, nextId, watermark, daily, advisory, refresh, purge,
                    counted, expired>> /\ today' = today + 1
    BY <1>8 DEF NextDay, tableVars, rollupVars
  <2> QED
    BY <1>1, <1>2, <2>1, TableMoves
<1>9. CASE LoginStep /\ UNCHANGED rollupVars
  <2>1. UNCHANGED <<logs, nextId, today>>
    BY <1>9 DEF LoginStep, TopUpStep, TopUpStart, TopUpRead, TopUpBlind, TopUpAdd,
       TopUpCursor, TopUpTrim, TopUpFailed, RedisFlush, tableVars
  <2> QED
    BY <1>1, <1>2, <1>9, <2>1, TableMoves DEF rollupVars
<1>10. CASE UNCHANGED ingestVars
  BY <1>1, <1>2, <1>10, TableMoves DEF ingestVars, tableVars, rollupVars
<1> QED
  BY <1>1, <1>3, <1>4, <1>5, <1>6, <1>7, <1>8, <1>9, <1>10 DEF IngestNext, PurgeStep

----------------------------------------------------------------------------
(* The login cache                                                         *)

\* A finite set of numbers has a greatest one: no least number of elements can
\* belong to a set without.
LEMMA FiniteHasGreatest ==
    ASSUME NEW S, S \subseteq Nat, IsFiniteSet(S), S # {}
    PROVE  Max(S) \in S /\ \A x \in S : x <= Max(S)
<1> DEFINE Greatest(T) == \E x \in T : \A y \in T : y <= x
           Bad == {T \in SUBSET S : T # {} /\ ~Greatest(T)}
           Sizes == {Cardinality(T) : T \in Bad}
<1>1. \A T \in SUBSET S : IsFiniteSet(T) /\ Cardinality(T) \in Nat
  BY FS_Subset, FS_CardinalityType
<1>2. Bad = {}
  <2>1. SUFFICES ASSUME Bad # {} PROVE FALSE
    OBVIOUS
  <2>2. Sizes \subseteq Nat /\ Sizes # {}
    BY <1>1, <2>1
  <2>3. PICK m \in Sizes : \A k \in Sizes : m <= k
    <3> HIDE DEF Sizes
    <3> QED
      BY <2>2, LeastOf
  <2>4. PICK T \in Bad : Cardinality(T) = m
    BY <2>3
  <2>5. PICK x \in T : TRUE
    BY <2>4
  <2> DEFINE U == T \ {x}
  <2>6. T \in SUBSET S /\ T \subseteq Nat /\ x \in Nat /\ ~Greatest(T)
    BY <2>4, <2>5
  <2>7. Cardinality(U) = Cardinality(T) - 1 /\ Cardinality(T) \in Nat /\ U \in SUBSET S
    BY <1>1, <2>5, <2>6, FS_RemoveElement
  <2>8. U \notin Bad
    <3>1. SUFFICES ASSUME U \in Bad PROVE FALSE
      OBVIOUS
    <3>2. Cardinality(U) \in Sizes
      BY <3>1
    <3> HIDE DEF Sizes, U
    <3> QED
      BY <2>3, <2>4, <2>7, <3>2
  <2>9. CASE U = {}
    <3>1. T = {x}
      BY <2>5, <2>9
    <3> QED
      BY <2>6, <3>1
  <2>10. CASE U # {}
    <3>1. PICK u \in U : \A y \in U : y <= u
      BY <2>7, <2>8, <2>10
    <3>2. u \in Nat /\ u \in T /\ \A y \in T : y \in Nat /\ (y = x \/ y <= u)
      BY <2>6, <3>1
    <3>3. CASE u <= x
      <4>1. \A y \in T : y <= x
        BY <2>6, <3>2, <3>3
      <4> QED
        BY <2>5, <2>6, <4>1
    <3>4. CASE x <= u
      <4>1. \A y \in T : y <= u
        BY <2>6, <3>2, <3>4
      <4> QED
        BY <2>6, <3>2, <4>1
    <3> QED
      BY <2>6, <3>2, <3>3, <3>4
  <2> QED
    BY <2>9, <2>10
<1>3. \E x \in S : \A y \in S : x >= y
  <2>1. Greatest(S)
    BY <1>2
  <2> QED
    BY <2>1
<1>4. \A x \in S, y \in S : x >= y <=> y <= x
  OBVIOUS
<1> QED
  BY <1>3, <1>4 DEF Max

\* The newest time among the rows of a top-up.
LEMMA NewestOf ==
    ASSUME NEW rows, rows \subseteq Row, IsFiniteSet(rows), rows # {}
    PROVE  /\ Newest(rows) \in Nat
           /\ \E x \in rows : x.msg.at = Newest(rows)
           /\ \A x \in rows : x.msg.at <= Newest(rows)
<1> DEFINE S == {r.msg.at : r \in rows}
           f == [r \in rows |-> r.msg.at]
<1>1. \A r \in rows : r.msg.at \in Nat
  BY LogAssumption DEF Row, Message
<1>2. f \in Surjection(rows, S)
  BY DEF Surjection
<1>3. S \subseteq Nat /\ S # {} /\ IsFiniteSet(S)
  BY <1>1, <1>2, FS_Surjection
<1>4. Max(S) \in S /\ \A x \in S : x <= Max(S)
  <2> HIDE DEF S
  <2> QED
    BY <1>3, FiniteHasGreatest
<1> QED
  BY <1>3, <1>4 DEF Newest

LEMMA CacheInvInit == IngestInit => CacheInv
<1>1. SUFFICES ASSUME IngestInit PROVE CacheInv
  OBVIOUS
<1>2. /\ cached = {} /\ loginCursor = Cold /\ reads = {} /\ today \in Nat
      /\ topUp = [j \in LoginJobs |-> NoTopUp]
  BY <1>1 DEF IngestInit, LoginInit
<1>3. NoTopUp \in Locals
  BY DEF NoTopUp, Locals
<1>4. CacheTyped
  BY <1>2, <1>3 DEF CacheTyped
<1>5. \A j \in LoginJobs : Fits(topUp[j])
  BY <1>2 DEF Fits, NoTopUp
<1> QED
  BY <1>2, <1>4, <1>5 DEF CacheInv

\* Time goes on, new rows get new ids, what was read stays read.
Onward ==
    /\ today \in Nat /\ today' \in Nat /\ today <= today'
    /\ nextId \in Nat /\ nextId' \in Nat /\ nextId <= nextId'
    /\ logs \subseteq Row /\ logs' \subseteq Row
    /\ \A q \in logs' : q \in logs \/ nextId <= q.id
    /\ reads \subseteq reads'

\* Passed, of the next state, for what is held then.
WillHavePassed(b, held) ==
    /\ \E f \in reads' : b <= f.upto
    /\ \A r \in Logins' : r.msg.at < b /\ InWindow(r)' => r \in held \/ Late(r)'

\* What has been passed stays so while the cache keeps the window: a row that
\* comes behind it is late.
LEMMA PassedStays ==
    ASSUME CacheTyped, Onward, NEW b \in Nat, NEW held, NEW later, Passed(b, held),
           \A q \in held : q \in later \/ ~InWindow(q)'
    PROVE  WillHavePassed(b, later)
<1>1. PICK f \in reads : b <= f.upto
  BY DEF Passed, Reached
<1>2. f \in reads' /\ f.next \in Nat /\ f.upto \in Nat /\ f.next <= nextId
  BY <1>1 DEF CacheTyped, Onward
<1>3. SUFFICES ASSUME NEW r \in Logins', r.msg.at < b, InWindow(r)'
               PROVE  r \in later \/ Late(r)'
  BY <1>1, <1>2 DEF WillHavePassed
<1>4. r \in logs' /\ r \in Row /\ r.msg.login /\ r.id \in Nat /\ r.msg.at \in Nat
  BY <1>3, LogAssumption DEF Logins, Onward, Row, Message
<1>5. CASE r \in logs
  <2>1. InWindow(r)
    BY <1>3, <1>4, LoginCacheAssumption DEF InWindow, Onward
  <2>2. r \in held \/ Late(r)
    BY <1>3, <1>4, <1>5, <2>1 DEF Passed, Logins
  <2>3. Late(r) => Late(r)'
    BY DEF Late, Onward
  <2> QED
    BY <1>3, <2>2, <2>3
<1>6. CASE nextId <= r.id
  <2>1. f.next <= r.id /\ r.msg.at < f.upto
    BY <1>1, <1>2, <1>3, <1>4, <1>6 DEF Onward
  <2> QED
    BY <1>2, <2>1 DEF Late
<1> QED
  BY <1>4, <1>5, <1>6 DEF Onward

\* The cache keeps what is in the window; it may gain.
Keeping == \A q \in cached : q \in cached' \/ ~InWindow(q)'

\* A job at rest can rely on what it relied on.
LEMMA FitsStays ==
    ASSUME CacheTyped, Onward, Keeping, NEW j \in LoginJobs, Fits(topUp[j]),
           topUp'[j] = topUp[j]
    PROVE  Fits(topUp[j])'
<1> DEFINE s == topUp[j]
<1>1. s \in Locals
  BY DEF CacheTyped
<1>2. s.now <= today'
  BY <1>1 DEF Fits, Onward, Locals
<1>3. s.pc = "select" /\ s.since # Cold => WillHavePassed(s.since, cached')
  <2>1. SUFFICES ASSUME s.pc = "select", s.since # Cold
                 PROVE  WillHavePassed(s.since, cached')
    OBVIOUS
  <2>2. s.since \in Nat /\ Passed(s.since, cached)
    BY <1>1, <2>1 DEF Fits, Locals
  <2> QED
    BY <2>2, PassedStays DEF Keeping
<1>4. ASSUME s.pc \in {"add", "cursor"}, NEW x \in s.rows
      PROVE  WillHavePassed(x.msg.at, IF s.pc = "add" THEN cached' \cup s.rows ELSE cached')
  <2>1. x.msg.at \in Nat
    BY <1>1, <1>4, LogAssumption DEF Locals, Row, Message
  <2>2. CASE s.pc = "add"
    <3>1. Passed(x.msg.at, cached \cup s.rows)
      BY <1>4, <2>2 DEF Fits
    <3>2. \A q \in cached \cup s.rows : q \in cached' \cup s.rows \/ ~InWindow(q)'
      BY DEF Keeping
    <3>3. WillHavePassed(x.msg.at, cached' \cup s.rows)
      BY <2>1, <3>1, <3>2, PassedStays
    <3> QED
      BY <2>2, <3>3
  <2>3. CASE s.pc = "cursor"
    <3>1. Passed(x.msg.at, cached)
      BY <1>4, <2>3 DEF Fits
    <3>2. WillHavePassed(x.msg.at, cached')
      BY <2>1, <3>1, PassedStays DEF Keeping
    <3> QED
      BY <2>3, <3>2
  <2> QED
    BY <1>4, <2>2, <2>3
<1>5. s.pc \in {"add", "cursor"} => s.rows # {} /\ IsFiniteSet(s.rows)
  BY DEF Fits
<1> QED
  BY <1>2, <1>3, <1>4, <1>5 DEF Fits, Passed, Reached, WillHavePassed

\* So can the next top-up on the cursor, where it stays.
LEMMA CursorStays ==
    ASSUME CacheInv, Onward, Keeping, loginCursor' = loginCursor
    PROVE  (loginCursor # Cold => Passed(loginCursor, cached))'
<1>1. loginCursor # Cold => loginCursor \in Nat /\ Passed(loginCursor, cached)
  BY DEF CacheInv, CacheTyped
<1>2. loginCursor # Cold => WillHavePassed(loginCursor, cached')
  BY <1>1, PassedStays DEF CacheInv, Keeping
<1> QED
  BY <1>2 DEF Passed, Reached, WillHavePassed

\* What goes on around the cache: rows come in and go, the window moves on.
LEMMA CacheStands ==
    ASSUME CacheInv, Onward, UNCHANGED loginVars
    PROVE  CacheInv'
<1>1. Keeping /\ CacheTyped'
  BY DEF Keeping, CacheInv, CacheTyped, loginVars, Onward
<1>2. \A j \in LoginJobs : Fits(topUp[j])'
  BY FitsStays, <1>1 DEF CacheInv, loginVars
<1>3. (loginCursor # Cold => Passed(loginCursor, cached))'
  BY <1>1, CursorStays DEF loginVars
<1> QED
  BY <1>1, <1>2, <1>3 DEF CacheInv

\* A step of one top-up: the others can rely on what they relied on.
LEMMA OneTopUp ==
    ASSUME CacheInv, Onward, Keeping, NEW j \in LoginJobs, NEW t \in Locals,
           Proceed(j, t), Fits(topUp[j])',
           cached' \subseteq Row, loginCursor' \in Nat \cup {Cold},
           reads' \subseteq [upto : Nat, next : Nat], \A f \in reads' : f.next <= nextId',
           (loginCursor # Cold => Passed(loginCursor, cached))'
    PROVE  CacheInv'
<1>1. /\ topUp' \in [LoginJobs -> Locals]
      /\ \A i \in LoginJobs \ {j} : topUp'[i] = topUp[i]
  BY DEF CacheInv, CacheTyped, Proceed
<1>2. CacheTyped'
  BY <1>1 DEF CacheTyped
<1>3. \A i \in LoginJobs : Fits(topUp[i])'
  BY <1>1, FitsStays DEF CacheInv
<1> QED
  BY <1>2, <1>3 DEF CacheInv

\* While nothing happens to the table, and the clock stands.
LEMMA NothingStored ==
    ASSUME SyslogInv, UNCHANGED <<logs, nextId, today>>, reads \subseteq reads'
    PROVE  Onward
BY DEF SyslogInv, TableTyped, Onward

LEMMA TopUpBeginKeeps ==
    ASSUME SyslogInv, CacheInv, NEW j \in LoginJobs, TopUpStart(j) \/ TopUpBlind(j)
    PROVE  CacheInv'
<1>1. PICK c \in {loginCursor, Cold} : Proceed(j, Begun(c))
  BY DEF TopUpStart, TopUpBlind
<1>2. UNCHANGED <<logs, nextId, today, cached, loginCursor, reads>>
  BY DEF TopUpStart, TopUpBlind, tableVars
<1>3. /\ Begun(c).pc = "select" /\ Begun(c).now = today /\ Begun(c).since = c
      /\ Begun(c) \in Locals /\ today \in Nat
  BY DEF Begun, NoTopUp, Locals, SyslogInv, TableTyped, CacheInv, CacheTyped
<1>4. Onward /\ Keeping
  BY <1>2, NothingStored DEF Keeping
<1>5. topUp'[j] = Begun(c)
  BY <1>1 DEF Proceed, CacheInv, CacheTyped
<1>6. (loginCursor # Cold => Passed(loginCursor, cached))'
  BY <1>2, <1>4, CursorStays
<1>7. c # Cold => c = loginCursor
  BY <1>1
<1>8. Fits(topUp[j])'
  BY <1>2, <1>3, <1>5, <1>6, <1>7 DEF Fits
<1> HIDE DEF Begun
<1> QED
  BY <1>1, <1>2, <1>3, <1>4, <1>6, <1>8, OneTopUp DEF CacheInv, CacheTyped

\* What is read is the oldest of what lies ahead of the cursor taken; what
\* lies behind it had been passed, or is out of the window.
LEMMA TopUpReadKeeps ==
    ASSUME SyslogInv, CacheInv, NEW j \in LoginJobs, TopUpRead(j)
    PROVE  CacheInv'
<1> DEFINE s == topUp[j]
           ahead == Since(s.since, s.now)
<1>1. PICK rs \in FirstRows(ahead, TopUpMax) :
        /\ Proceed(j, [s EXCEPT !.pc = IF rs = {} THEN "trim" ELSE "add",
                                !.since = Cold, !.rows = rs])
        /\ reads' = IF rs = {} \/ \E f \in reads : Newest(rs) <= f.upto THEN reads
                    ELSE reads \cup {[upto |-> Newest(rs), next |-> nextId]}
  BY DEF TopUpRead
<1>2. UNCHANGED <<logs, nextId, today, cached, loginCursor>> /\ s.pc = "select"
  BY DEF TopUpRead, Stage, tableVars
<1>3. s \in Locals /\ Fits(s)
  BY DEF CacheInv, CacheTyped
<1>4. ahead \subseteq logs /\ ahead \subseteq Logins
  BY DEF Since, Logins
<1>5. rs \subseteq ahead /\ \A x \in rs, y \in ahead \ rs : x.msg.at <= y.msg.at
  BY DEF FirstRows
<1>6. rs \subseteq Row /\ IsFiniteSet(rs)
  BY <1>4, <1>5, FS_Subset DEF SyslogInv, TableTyped
<1>7. rs # {} => Newest(rs) \in Nat /\ \A x \in rs : x.msg.at <= Newest(rs)
  BY <1>6, NewestOf
<1>8. nextId \in Nat /\ today \in Nat
  BY DEF SyslogInv, TableTyped
<1>9. /\ reads \subseteq reads' /\ reads' \subseteq [upto : Nat, next : Nat]
      /\ \A f \in reads' : f.next <= nextId'
      /\ rs # {} => \E f \in reads' : Newest(rs) <= f.upto
  <2>1. CASE rs = {} \/ \E f \in reads : Newest(rs) <= f.upto
    BY <1>1, <1>2, <2>1 DEF CacheInv, CacheTyped
  <2>2. CASE ~(rs = {} \/ \E f \in reads : Newest(rs) <= f.upto)
    <3> DEFINE g == [upto |-> Newest(rs), next |-> nextId]
    <3>1. g \in [upto : Nat, next : Nat] /\ g.next <= nextId /\ Newest(rs) <= g.upto
      BY <1>7, <1>8, <2>2
    <3>2. reads' = reads \cup {g}
      BY <1>1, <2>2
    <3> HIDE DEF g
    <3> QED
      BY <1>2, <3>1, <3>2 DEF CacheInv, CacheTyped
  <2> QED
    BY <2>1, <2>2
<1>10. Onward /\ Keeping
  BY <1>2, <1>9, NothingStored DEF Keeping
<1> DEFINE t == [s EXCEPT !.pc = IF rs = {} THEN "trim" ELSE "add",
                          !.since = Cold, !.rows = rs]
<1>11. /\ t \in Locals /\ t.now = s.now /\ t.rows = rs
       /\ t.pc \in {"add", "trim"} /\ (t.pc = "add" => rs # {})
  BY <1>3, <1>6 DEF Locals
<1>12. Proceed(j, t) /\ topUp'[j] = t
  BY <1>1 DEF Proceed, CacheInv, CacheTyped
<1> HIDE DEF t
<1>13. ASSUME NEW x \in rs PROVE WillHavePassed(x.msg.at, cached' \cup rs)
  <2>1. x \in Row /\ x.msg.at \in Nat /\ x.msg.at <= Newest(rs) /\ Newest(rs) \in Nat
    BY <1>6, <1>7, <1>13, LogAssumption DEF Row, Message
  <2>2. \E f \in reads' : x.msg.at <= f.upto
    <3>1. PICK f \in reads' : Newest(rs) <= f.upto
      BY <1>9, <1>13
    <3> QED
      BY <1>9, <2>1, <3>1
  <2>3. SUFFICES ASSUME NEW r \in Logins', r.msg.at < x.msg.at, InWindow(r)'
                 PROVE  r \in cached' \cup rs \/ Late(r)'
    BY <2>2 DEF WillHavePassed
  <2>4. r \in Logins /\ r \in Row /\ InWindow(r) /\ r.msg.at \in Nat
    BY <1>2, <2>3, LogAssumption DEF Logins, InWindow, SyslogInv, TableTyped, Row, Message
  <2>5. CASE r \in ahead
    BY <1>5, <1>13, <2>1, <2>3, <2>4, <2>5
  <2>6. CASE r \notin ahead
    <3>1. CASE s.since = Cold
      <4>1. ~(s.now <= r.msg.at + CacheWindow)
        BY <2>4, <2>6, <3>1 DEF Since
      <4>2. s.now \in Nat /\ s.now <= today
        BY <1>3 DEF Locals, Fits
      <4> QED
        BY <1>8, <2>4, <4>1, <4>2, LoginCacheAssumption DEF InWindow
    <3>2. CASE s.since # Cold
      <4>1. s.since \in Nat /\ Passed(s.since, cached)
        BY <1>2, <1>3, <3>2 DEF Locals, Fits
      <4>2. r.msg.at < s.since
        BY <2>4, <2>6, <3>2, <4>1 DEF Since
      <4>3. r \in cached \/ Late(r)
        BY <2>4, <4>1, <4>2 DEF Passed
      <4>4. Late(r) => Late(r)'
        BY <1>9 DEF Late
      <4> QED
        BY <1>2, <4>3, <4>4
    <3> QED
      BY <3>1, <3>2
  <2> QED
    BY <2>5, <2>6
<1>14. Fits(topUp[j])'
  <2>1. t.now <= today'
    BY <1>2, <1>3, <1>11 DEF Fits
  <2> QED
    BY <1>6, <1>11, <1>12, <1>13, <2>1 DEF Fits, Passed, Reached, WillHavePassed
<1>15. (loginCursor # Cold => Passed(loginCursor, cached))'
  BY <1>2, <1>10, CursorStays
<1> QED
  BY <1>2, <1>9, <1>10, <1>11, <1>12, <1>14, <1>15, OneTopUp DEF CacheInv, CacheTyped

\* What was in the hands of the top-up is in the cache.
LEMMA TopUpAddKeeps ==
    ASSUME SyslogInv, CacheInv, NEW j \in LoginJobs, TopUpAdd(j)
    PROVE  CacheInv'
<1> DEFINE s == topUp[j]
           t == [s EXCEPT !.pc = "cursor"]
<1>1. /\ s.pc = "add" /\ cached' = cached \cup s.rows /\ Proceed(j, t)
      /\ UNCHANGED <<logs, nextId, today, loginCursor, reads>>
  BY DEF TopUpAdd, Stage, tableVars
<1>2. s \in Locals /\ Fits(s)
  BY DEF CacheInv, CacheTyped
<1>3. t \in Locals /\ t.now = s.now /\ t.rows = s.rows /\ t.pc = "cursor"
  BY <1>2 DEF Locals
<1>4. topUp'[j] = t /\ cached' \subseteq Row
  BY <1>1, <1>2 DEF Proceed, CacheInv, CacheTyped, Locals
<1> HIDE DEF t
<1>5. Onward /\ Keeping
  BY <1>1, NothingStored DEF Keeping
<1>6. ASSUME NEW x \in s.rows PROVE WillHavePassed(x.msg.at, cached')
  <2>1. x.msg.at \in Nat
    BY <1>2, <1>6, LogAssumption DEF Locals, Row, Message
  <2>2. Passed(x.msg.at, cached \cup s.rows)
    BY <1>1, <1>2, <1>6 DEF Fits
  <2>3. \A q \in cached \cup s.rows : q \in cached'
    BY <1>1
  <2> QED
    BY <1>5, <2>1, <2>2, <2>3, PassedStays DEF CacheInv
<1>7. Fits(topUp[j])'
  <2>1. t.now <= today' /\ t.rows # {} /\ IsFiniteSet(t.rows)
    BY <1>1, <1>2, <1>3 DEF Fits
  <2> QED
    BY <1>3, <1>4, <1>6, <2>1 DEF Fits, Passed, Reached, WillHavePassed
<1>8. (loginCursor # Cold => Passed(loginCursor, cached))'
  BY <1>1, <1>5, CursorStays
<1> QED
  BY <1>1, <1>3, <1>4, <1>5, <1>7, <1>8, OneTopUp DEF CacheInv, CacheTyped

\* The cursor moves to a row behind which all is held, wherever it stood.
LEMMA TopUpCursorKeeps ==
    ASSUME SyslogInv, CacheInv, NEW j \in LoginJobs, TopUpCursor(j)
    PROVE  CacheInv'
<1> DEFINE s == topUp[j]
           t == [s EXCEPT !.pc = "trim", !.rows = {}]
<1>1. /\ s.pc = "cursor" /\ loginCursor' = Newest(s.rows) /\ Proceed(j, t)
      /\ UNCHANGED <<logs, nextId, today, cached, reads>>
  BY DEF TopUpCursor, Stage, tableVars
<1>2. s \in Locals /\ Fits(s)
  BY DEF CacheInv, CacheTyped
<1>3. t \in Locals /\ t.now = s.now /\ t.pc = "trim"
  BY <1>2 DEF Locals
<1>4. topUp'[j] = t
  BY <1>1 DEF Proceed, CacheInv, CacheTyped
<1> HIDE DEF t
<1>5. Onward /\ Keeping
  BY <1>1, NothingStored DEF Keeping
<1>6. PICK x \in s.rows : x.msg.at = Newest(s.rows)
  BY <1>1, <1>2, NewestOf DEF Fits, Locals
<1>7. x.msg.at \in Nat /\ loginCursor' = x.msg.at
  BY <1>1, <1>2, <1>6, LogAssumption DEF Locals, Row, Message
<1>8. Passed(x.msg.at, cached)
  BY <1>1, <1>2, <1>6 DEF Fits
<1>9. WillHavePassed(x.msg.at, cached')
  BY <1>5, <1>7, <1>8, PassedStays DEF CacheInv, Keeping
<1>10. (loginCursor # Cold => Passed(loginCursor, cached))'
  BY <1>7, <1>9 DEF Passed, Reached, WillHavePassed
<1>11. Fits(topUp[j])'
  <2>1. t.now <= today'
    BY <1>1, <1>2, <1>3 DEF Fits
  <2> QED
    BY <1>3, <1>4, <2>1 DEF Fits
<1> QED
  BY <1>1, <1>3, <1>5, <1>7, <1>10, <1>11, OneTopUp DEF CacheInv, CacheTyped

\* The end of a top-up: what is older than the window is trimmed, or nothing.
LEMMA TopUpEndsKeeps ==
    ASSUME SyslogInv, CacheInv, NEW j \in LoginJobs, TopUpTrim(j) \/ TopUpFailed(j)
    PROVE  CacheInv'
<1> DEFINE s == topUp[j]
<1>1. /\ Proceed(j, NoTopUp) /\ UNCHANGED <<logs, nextId, today, loginCursor, reads>>
      /\ \/ cached' = {r \in cached : s.now <= r.msg.at + CacheWindow}
         \/ cached' = cached
  BY DEF TopUpTrim, TopUpFailed, tableVars
<1>2. s \in Locals /\ s.now \in Nat /\ s.now <= today /\ today \in Nat
  BY DEF CacheInv, CacheTyped, Locals, Fits, SyslogInv, TableTyped
<1>3. cached' \subseteq Row /\ cached \subseteq Row
  BY <1>1 DEF CacheInv, CacheTyped
<1>4. Keeping
  <2>1. ASSUME NEW q \in cached, InWindow(q)' PROVE s.now <= q.msg.at + CacheWindow
    BY <1>1, <1>2, <1>3, <2>1, LogAssumption, LoginCacheAssumption
    DEF InWindow, Row, Message
  <2> QED
    BY <1>1, <2>1 DEF Keeping
<1>5. Onward
  BY <1>1, NothingStored
<1>6. NoTopUp \in Locals /\ topUp'[j] = NoTopUp
  BY <1>1 DEF NoTopUp, Locals, Proceed, CacheInv, CacheTyped
<1>7. Fits(topUp[j])'
  BY <1>1, <1>2, <1>6 DEF Fits, NoTopUp
<1>8. (loginCursor # Cold => Passed(loginCursor, cached))'
  BY <1>1, <1>4, <1>5, CursorStays
<1> QED
  BY <1>1, <1>3, <1>4, <1>5, <1>6, <1>7, <1>8, OneTopUp DEF CacheInv, CacheTyped

\* When Redis has lost everything, what lies behind the point a top-up has
\* reached counts as late, all of it.
LEMMA RedisFlushKeeps ==
    ASSUME SyslogInv, CacheInv, RedisFlush
    PROVE  CacheInv'
<1>1. /\ cached' = {} /\ loginCursor' = Cold
      /\ reads' = {[upto |-> Reach(topUp[j]), next |-> 0] : j \in LoginJobs}
      /\ UNCHANGED <<logs, nextId, today, topUp>>
  BY DEF RedisFlush, tableVars
<1>2. ASSUME NEW j \in LoginJobs
      PROVE  /\ Reach(topUp[j]) \in Nat /\ topUp[j] \in Locals /\ Fits(topUp[j])
             /\ [upto |-> Reach(topUp[j]), next |-> 0] \in reads'
  <2>1. topUp[j] \in Locals /\ Fits(topUp[j])
    BY DEF CacheInv, CacheTyped
  <2>2. topUp[j].pc \in {"add", "cursor"} => Newest(topUp[j].rows) \in Nat
    BY <2>1, NewestOf DEF Fits, Locals
  <2> QED
    BY <1>1, <2>1, <2>2 DEF Reach, Locals
<1>3. CacheTyped'
  BY <1>1, <1>2 DEF CacheInv, CacheTyped, SyslogInv, TableTyped
<1>4. ASSUME NEW j \in LoginJobs, NEW b \in Nat, b <= Reach(topUp[j]), NEW held
      PROVE  WillHavePassed(b, held)
  <2> DEFINE f == [upto |-> Reach(topUp[j]), next |-> 0]
  <2>1. f \in reads' /\ f.upto = Reach(topUp[j]) /\ f.next = 0 /\ f.upto \in Nat
    BY <1>2
  <2> HIDE DEF f
  <2>2. ASSUME NEW r \in Logins', r.msg.at < b PROVE Late(r)'
    <3>1. r.id \in Nat /\ r.msg.at \in Nat
      BY <1>1, <2>2, LogAssumption DEF Logins, SyslogInv, TableTyped, Row, Message
    <3> QED
      BY <1>4, <2>1, <2>2, <3>1 DEF Late
  <2> QED
    BY <1>4, <2>1, <2>2 DEF WillHavePassed
<1>5. ASSUME NEW j \in LoginJobs PROVE Fits(topUp[j])'
  <2> DEFINE s == topUp[j]
  <2>1. s \in Locals /\ Fits(s) /\ topUp'[j] = s /\ s.now <= today'
    BY <1>1, <1>2 DEF Fits
  <2>2. s.pc = "select" /\ s.since # Cold => WillHavePassed(s.since, cached')
    <3>1. s.pc = "select" /\ s.since # Cold => s.since \in Nat /\ s.since <= Reach(s)
      BY <2>1 DEF Reach, Locals
    <3> QED
      BY <1>4, <3>1
  <2>3. ASSUME s.pc \in {"add", "cursor"}, NEW x \in s.rows, NEW held
        PROVE  WillHavePassed(x.msg.at, held)
    <3>1. s.rows \subseteq Row /\ IsFiniteSet(s.rows) /\ s.rows # {}
      BY <2>1, <2>3 DEF Fits, Locals
    <3>2. x.msg.at <= Newest(s.rows)
      BY <2>3, <3>1, NewestOf
    <3>3. Reach(s) = Newest(s.rows) /\ x.msg.at \in Nat
      BY <2>3, <3>1, LogAssumption DEF Reach, Row, Message
    <3> QED
      BY <1>4, <3>2, <3>3
  <2>4. s.pc \in {"add", "cursor"} => s.rows # {} /\ IsFiniteSet(s.rows)
    BY <2>1 DEF Fits
  <2> QED
    BY <2>1, <2>2, <2>3, <2>4 DEF Fits, Passed, Reached, WillHavePassed
<1> QED
  BY <1>1, <1>3, <1>5 DEF CacheInv

LEMMA CacheInvStep ==
    SyslogInv /\ RollupInv /\ SyslogInv' /\ CacheInv /\ [IngestNext]_ingestVars
      => CacheInv'
<1>1. SUFFICES ASSUME SyslogInv, RollupInv, SyslogInv', CacheInv, [IngestNext]_ingestVars
               PROVE  CacheInv'
  OBVIOUS
<1>2. /\ today \in Nat /\ today' \in Nat /\ nextId \in Nat /\ nextId' \in Nat
      /\ logs \subseteq Row /\ logs' \subseteq Row
  BY <1>1 DEF SyslogInv, TableTyped
<1>3. CASE SyslogStep(Messages) /\ UNCHANGED loginVars
  <2>1. /\ nextId <= nextId' /\ today' = today
        /\ \A q \in logs' : q \in logs \/ q.id >= nextId
    BY <1>1, <1>3, SyslogAddsNewRows
  <2>2. \A q \in logs' : q \in logs \/ nextId <= q.id
    BY <1>2, <2>1 DEF Row
  <2>3. Onward
    BY <1>2, <1>3, <2>1, <2>2 DEF Onward, loginVars
  <2> QED
    BY <1>1, <1>3, <2>3, CacheStands
<1>4. CASE (RollupStep(Refreshers) \/ PurgeStep \/ NextDay) /\ UNCHANGED loginVars
  <2>1. logs' \subseteq logs /\ nextId' = nextId /\ today' \in {today, today + 1}
    <3>1. CASE RollupStep(Refreshers)
      BY <3>1 DEF RollupStep, RefreshStep, RefreshFailed, RefreshSkip, RefreshLock,
         RefreshRange, RefreshEmpty, RefreshFold, RefreshCommit, RefreshCheck, tableVars
    <3>2. CASE PurgeStep
      BY <3>2 DEF PurgeStep, PurgeStart, PurgeRows, PurgeDays, tableVars
    <3>3. CASE NextDay
      BY <3>3 DEF NextDay, tableVars
    <3> QED
      BY <1>4, <3>1, <3>2, <3>3
  <2>2. Onward
    BY <1>2, <1>4, <2>1 DEF Onward, loginVars
  <2> QED
    BY <1>1, <1>4, <2>2, CacheStands
<1>5. CASE LoginStep
  BY <1>1, <1>5, TopUpBeginKeeps, TopUpReadKeeps, TopUpAddKeeps, TopUpCursorKeeps,
     TopUpEndsKeeps, RedisFlushKeeps DEF LoginStep, TopUpStep
<1>6. CASE UNCHANGED ingestVars
  <2>1. UNCHANGED <<logs, nextId, today>> /\ UNCHANGED loginVars
    BY <1>6 DEF ingestVars, tableVars
  <2>2. Onward
    BY <1>1, <2>1, NothingStored DEF loginVars
  <2> QED
    BY <1>1, <2>1, <2>2, CacheStands
<1> QED
  BY <1>1, <1>3, <1>4, <1>5, <1>6 DEF IngestNext

----------------------------------------------------------------------------
(* The cache and the retention                                             *)

(* The retention keeps rows at least as long as the cache does: the code   *)
(* keeps an attempt for 24 hours and takes no retention below one day      *)
(* (firewall_retention.py, max(1, ...)).                                   *)
KeptLongEnough == CacheWindow <= ConnDays /\ CacheWindow <= KeepDays

\* What the retention deletes is outside of the window.
LEMMA PurgedAreOld ==
    ASSUME KeptLongEnough, SyslogInv, RollupInv, PurgeRows, NEW q \in logs
    PROVE  q \in logs' \/ ~(today <= q.msg.at + CacheWindow)
<1>1. \/ q \in logs'
      \/ q.msg.at + ConnDays < purge.day
      \/ q.msg.at + KeepDays < purge.day
  BY DEF PurgeRows, Purgeable, Aged
<1>2. q.msg.at \in Nat /\ purge.day \in Nat /\ today \in Nat /\ purge.day <= today
  BY LogAssumption DEF SyslogInv, TableTyped, RollupInv, FoldTyped, Row, Message
<1> QED
  BY <1>1, <1>2, RollupAssumption, LoginCacheAssumption DEF KeptLongEnough

----------------------------------------------------------------------------
(* The types of the rollup                                                 *)

\* What FoldTyped leaves open: the job has a number of rounds left that it
\* may have, and only rows expire.
RoundsBounded ==
    /\ \A r \in Refreshers : refresh[r].left \in 0 .. Rounds
    /\ expired \subseteq Row

LEMMA RoundsBoundedInit == IngestInit => RoundsBounded
<1>1. Rounds \in Nat \ {0}
  BY RollupAssumption
<1> QED
  BY <1>1 DEF IngestInit, RollupInit, NoRefresh, RoundsBounded

\* A refresh that goes on with a number of rounds it may have.
LEMMA RoundsOfOne ==
    ASSUME FoldTyped, RoundsBounded, NEW r \in Refreshers,
           NEW t, t.left \in 0 .. Rounds, Continue(r, t), expired' = expired
    PROVE  RoundsBounded'
BY OneRefresh DEF RoundsBounded, FoldTyped, Continue

LEMMA RefreshKeepsRounds ==
    ASSUME RollupInv, RoundsBounded, NEW r \in Refreshers,
           RefreshStep(r) \/ RefreshFailed(r)
    PROVE  RoundsBounded'
<1> DEFINE s == refresh[r]
<1>1. FoldTyped /\ s.left \in 0 .. Rounds /\ Rounds \in Nat \ {0}
  BY RollupAssumption DEF RollupInv, RoundsBounded
<1>2. s \in [pc : {"idle", "again", "range", "fold", "commit", "check"},
             lo : Nat, top : Nat, rows : SUBSET Row, left : Nat]
  BY <1>1 DEF FoldTyped
<1>3. NoRefresh.left \in 0 .. Rounds
  BY <1>1 DEF NoRefresh
<1>4. expired' = expired
  BY DEF RefreshStep, RefreshSkip, RefreshLock, RefreshRange, RefreshEmpty, RefreshFold,
     RefreshCommit, RefreshCheck, RefreshFailed, foldHistory
<1>5. CASE RefreshLock(r)
  <2>1. RoundsLeft(r) \in 0 .. Rounds
    BY <1>1 DEF RoundsLeft
  <2>2. Locked(r).left = RoundsLeft(r)
    BY DEF Locked, NoRefresh
  <2> QED
    BY <1>1, <1>4, <1>5, <2>1, <2>2, RoundsOfOne DEF RefreshLock
<1>6. CASE RefreshRange(r)
  <2>1. PICK t : t = Max(Ids(InRange(s.lo, s.lo + IdChunk)))
    OBVIOUS
  <2>2. Continue(r, [s EXCEPT !.pc = "fold", !.top = t])
    BY <1>6, <2>1 DEF RefreshRange
  <2>3. [s EXCEPT !.pc = "fold", !.top = t].left \in 0 .. Rounds
    BY <1>1, <1>2
  <2> QED
    BY <1>1, <1>4, <2>2, <2>3, RoundsOfOne
<1>7. CASE RefreshFold(r)
  <2>1. PICK rs : rs = {q \in InRange(s.lo, s.top) : Mappable(q)}
    OBVIOUS
  <2>2. Continue(r, [s EXCEPT !.pc = "commit", !.rows = rs])
    BY <1>7, <2>1 DEF RefreshFold
  <2>3. [s EXCEPT !.pc = "commit", !.rows = rs].left \in 0 .. Rounds
    BY <1>1, <1>2
  <2> QED
    BY <1>1, <1>4, <2>2, <2>3, RoundsOfOne
<1>8. CASE RefreshCommit(r)
  <2>1. Continue(r, [s EXCEPT !.pc = "check"])
    BY <1>8 DEF RefreshCommit
  <2>2. [s EXCEPT !.pc = "check"].left \in 0 .. Rounds
    BY <1>1, <1>2
  <2> QED
    BY <1>1, <1>4, <2>1, <2>2, RoundsOfOne
<1>9. CASE RefreshCheck(r)
  <2> DEFINE more == [NoRefresh EXCEPT !.pc = "again", !.left = s.left - 1]
  <2>1. \/ Continue(r, NoRefresh)
        \/ s.left > 1 /\ Continue(r, more)
    BY <1>9 DEF RefreshCheck
  <2>2. s.left > 1 => more.left \in 0 .. Rounds
    BY <1>1 DEF NoRefresh
  <2> HIDE DEF more
  <2> QED
    BY <1>1, <1>3, <1>4, <2>1, <2>2, RoundsOfOne
<1>10. CASE RefreshSkip(r) \/ RefreshEmpty(r) \/ RefreshFailed(r)
  <2>1. Continue(r, NoRefresh)
    BY <1>10 DEF RefreshSkip, RefreshEmpty, RefreshFailed, End
  <2> QED
    BY <1>1, <1>3, <1>4, <2>1, RoundsOfOne
<1> QED
  BY <1>5, <1>6, <1>7, <1>8, <1>9, <1>10 DEF RefreshStep

LEMMA RoundsBoundedStep ==
    RollupInv /\ RoundsBounded /\ [IngestNext]_ingestVars => RoundsBounded'
<1>1. SUFFICES ASSUME RollupInv, RoundsBounded, [IngestNext]_ingestVars
               PROVE  RoundsBounded'
  OBVIOUS
<1>2. CASE RollupStep(Refreshers)
  BY <1>1, <1>2, RefreshKeepsRounds DEF RollupStep
<1>3. CASE PurgeStep \/ NextDay
  <2>1. refresh' = refresh
    BY <1>3 DEF PurgeStep, PurgeStart, PurgeRows, PurgeDays, NextDay, rollupVars
  <2>2. expired' = expired \/ expired' \subseteq expired \cup counted
    BY <1>3 DEF PurgeStep, PurgeStart, PurgeRows, PurgeDays, NextDay, rollupVars,
       foldHistory
  <2> QED
    BY <1>1, <2>1, <2>2 DEF RoundsBounded, RollupInv, Counted
<1>4. CASE UNCHANGED rollupVars
  BY <1>1, <1>4 DEF RoundsBounded, rollupVars
<1> QED
  BY <1>1, <1>2, <1>3, <1>4 DEF IngestNext, ingestVars

----------------------------------------------------------------------------
(* The theorems                                                            *)

(* The inductive invariant of the receiver and the rollup.                 *)
THEOREM IngestInvariant == IngestSpec => []IngestInv
<1>1. IngestInit => IngestInv
  BY SyslogInvInit, RollupInvInit DEF IngestInv
<1>2. IngestInv /\ [IngestNext]_ingestVars => IngestInv'
  BY SyslogInvStep, RollupInvStep DEF IngestInv
<1> QED
  BY <1>1, <1>2, PTL DEF IngestSpec

(* The state of the rollup keeps its types beside any receiver, retention  *)
(* and top-up: no refresh runs more rounds than the job has, and what the  *)
(* retention takes off the map are rows.                                   *)
THEOREM RollupStaysTyped == IngestSpec => []RollupTypeOK
<1>1. IngestInit => RoundsBounded
  BY RoundsBoundedInit
<1>2. IngestInv /\ RoundsBounded /\ [IngestNext]_ingestVars => RoundsBounded'
  BY RoundsBoundedStep DEF IngestInv
<1>3. ASSUME IngestInv, RoundsBounded PROVE RollupTypeOK
  <2>1. FoldTyped /\ Counted
    BY <1>3 DEF IngestInv, RollupInv
  <2>2. \A r \in Refreshers :
          refresh[r] \in [pc : {"idle", "again", "range", "fold", "commit", "check"},
                          lo : Nat, top : Nat, rows : SUBSET Row, left : 0 .. Rounds]
    BY <1>3, <2>1 DEF FoldTyped, RoundsBounded
  <2>3. refresh \in [Refreshers ->
          [pc : {"idle", "again", "range", "fold", "commit", "check"},
           lo : Nat, top : Nat, rows : SUBSET Row, left : 0 .. Rounds]]
    BY <2>1, <2>2 DEF FoldTyped
  <2> QED
    BY <1>3, <2>1, <2>3 DEF FoldTyped, Counted, RoundsBounded, RollupTypeOK
<1> QED
  BY <1>1, <1>2, <1>3, IngestInvariant, PTL DEF IngestSpec

(* Every behaviour that the runs explore is one of IngestSpec: one reader  *)
(* of the table and some of the messages.                                  *)
LEMMA RunsAreIngest == Spec => IngestSpec
<1>1. Init => IngestInit
  BY RollupAssumption DEF Init, IngestInit
<1>2. [Next]_vars => [IngestNext]_ingestVars
  <2>1. SUFFICES ASSUME [Next]_vars PROVE [IngestNext]_ingestVars
    OBVIOUS
  <2>2. CASE Receiving(SyslogStep(Relevant))
    <3>1. Relevant \subseteq Messages
      BY DEF Relevant
    <3> QED
      BY <2>2, <3>1 DEF Receiving, SyslogStep, IngestNext
  <2>3. CASE Reading(RollupStep(Callers))
    <3>1. Callers \subseteq Refreshers
      BY RollupAssumption DEF Callers
    <3> QED
      BY <2>3, <3>1 DEF Reading, RollupStep, IngestNext
  <2>4. CASE Reading(PurgeStep) \/ Reading(NextDay)
    BY <2>4 DEF Reading, IngestNext
  <2>5. CASE ToppingUp(LoginStep)
    BY <2>5 DEF ToppingUp, IngestNext
  <2>6. CASE UNCHANGED vars
    BY <2>6 DEF vars, ingestVars
  <2> QED
    BY <2>1, <2>2, <2>3, <2>4, <2>5, <2>6 DEF Next
<1> QED
  BY <1>1, <1>2, PTL DEF Spec, IngestSpec

(* Rows stand in the table in the order in which their messages arrived,   *)
(* whatever the queue drops, fails to insert or loses with the process, so *)
(* that an id watermark is a position in time.                             *)
THEOREM RowsArriveInOrder == IngestSpec => []ArrivalOrder
<1>1. IngestInv => ArrivalOrder
  BY DEF IngestInv, SyslogInv
<1> QED
  BY <1>1, IngestInvariant, PTL

(* "Each row is processed exactly once", first half: the counts of the map *)
(* are the numbers of the rows folded, for any number of refreshes that    *)
(* run, fail and are retried beside the receiver and the retention.        *)
THEOREM EachCountedOnce == IngestSpec => []CountedOnce
<1>1. IngestInv => CountedOnce
  BY DEF IngestInv, RollupInv
<1> QED
  BY <1>1, IngestInvariant, PTL

(* Second half: no located row that the watermark has passed was left out, *)
(* although rows are inserted and purged between the statements of a       *)
(* refresh.                                                                *)
THEOREM NoRowSkipped == IngestSpec => []NoneSkipped
<1>1. IngestInv => NoneSkipped
  BY DEF IngestInv, RollupInv
<1> QED
  BY <1>1, IngestInvariant, PTL

(* The end the rollup names is the end the receiver located, unless it is  *)
(* neither private nor public.                                             *)
LEMMA ThreatIsAttacker ==
    ASSUME NEW m \in Message, AttackerOf(m) # NoIp
    PROVE  ThreatOf(m) = AttackerOf(m) \/ ThreatOf(m) \in Special
BY LogAssumption DEF Message, Addresses, AttackerOf, ThreatOf

(* A pin of the map shows the attacker: the address the rollup names is    *)
(* the one the receiver looked up, for any messages.                       *)
THEOREM PinsShowAttackers == IngestSpec => []PinIsAttacker
<1>1. ASSUME IngestInv PROVE PinIsAttacker
  <2>1. SUFFICES ASSUME NEW k \in RollupKeys, daily[k] > 0
                 PROVE  k[2] = k[3] \/ k[2] \in Special
    BY DEF PinIsAttacker
  <2>2. {q \in counted : KeyOf(q) = k} # {}
    <3>1. daily[k] = Cardinality({q \in counted : KeyOf(q) = k})
      BY <1>1 DEF IngestInv, RollupInv, CountedOnce
    <3>2. Cardinality({}) = 0
      BY FS_EmptySet
    <3> QED
      BY <2>1, <3>1, <3>2
  <2>3. PICK q \in counted : KeyOf(q) = k
    BY <2>2
  <2>4. q.msg \in Message /\ AttackerOf(q.msg) # NoIp
    BY <1>1, <2>3, LogAssumption DEF IngestInv, RollupInv, Counted, Row
  <2>5. k[2] = ThreatOf(q.msg) /\ k[3] = AttackerOf(q.msg)
    BY <2>3 DEF KeyOf
  <2> QED
    BY <2>4, <2>5, ThreatIsAttacker
<1> QED
  BY <1>1, IngestInvariant, PTL

(* The cursor of the login cache skips nothing but what came late, for any *)
(* window and limit, any number of overlapping top-ups and any             *)
(* interleaving with the receiver, the retention and losses of Redis.      *)
THEOREM LoginsNotSkipped == IngestSpec => []CursorSkipsNothing
<1>1. IngestInit => CacheInv
  BY CacheInvInit
<1>2. IngestInv /\ IngestInv' /\ CacheInv /\ [IngestNext]_ingestVars => CacheInv'
  BY CacheInvStep DEF IngestInv
<1>3. CacheInv => CursorSkipsNothing
  BY DEF CacheInv, Passed, CursorSkipsNothing
<1> QED
  BY <1>1, <1>2, <1>3, IngestInvariant, PTL DEF IngestSpec

(* Nor does the retention take a row away that the cache is still to read: *)
(* whatever leaves the table is older than the window.                     *)
THEOREM WindowOutlived ==
    ASSUME KeptLongEnough
    PROVE  IngestSpec => [][\A q \in logs : q \in logs' \/ ~InWindow(q)]_ingestVars
<1>1. ASSUME IngestInv, IngestNext, NEW q \in logs
      PROVE  q \in logs' \/ ~InWindow(q)
  <2>1. CASE PurgeRows
    BY <1>1, <2>1, PurgedAreOld DEF IngestInv, InWindow
  <2>2. CASE ~PurgeRows
    <3>1. logs \subseteq logs'
      BY <1>1, <2>2 DEF IngestNext, SyslogStep, Receive, Worker, TakeBatch, InsertBatch,
         InsertFailed, Stop, Restart, RollupStep, RefreshStep, RefreshFailed, RefreshSkip,
         RefreshLock, RefreshRange, RefreshEmpty, RefreshFold, RefreshCommit,
         RefreshCheck, PurgeStep, PurgeStart, PurgeDays, NextDay, LoginStep, TopUpStep,
         TopUpStart, TopUpBlind, TopUpRead, TopUpAdd, TopUpCursor, TopUpTrim,
         TopUpFailed, RedisFlush, tableVars
    <3> QED
      BY <1>1, <3>1
  <2> QED
    BY <2>1, <2>2
<1>2. IngestInv /\ [IngestNext]_ingestVars
        => [\A q \in logs : q \in logs' \/ ~InWindow(q)]_ingestVars
  BY <1>1
<1> QED
  BY <1>2, IngestInvariant, PTL DEF IngestSpec

(* What is proved of everything at once holds of the runs' specification.  *)
THEOREM RunsAreSafe ==
    Spec => [](ArrivalOrder /\ CountedOnce /\ NoneSkipped /\ PinIsAttacker)
BY RunsAreIngest, RowsArriveInOrder, EachCountedOnce, NoRowSkipped, PinsShowAttackers, PTL

(* And so does the cursor of the login cache.                              *)
THEOREM RunsSkipNoLogin == Spec => []CursorSkipsNothing
BY RunsAreIngest, LoginsNotSkipped, PTL
=============================================================================
