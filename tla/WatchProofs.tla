---------------------------- MODULE WatchProofs ----------------------------
(***************************************************************************)
(* Proofs about what watches on its own, for any sets of hosts, keys,      *)
(* calls, updates and passes: the names of internal hosts, the poll of     *)
(* Telegram, the client of Sophos Central, the watch over sign-ins, the    *)
(* honeypots and the identities of hosts.  Each is proved of a             *)
(* specification of its own component; what the runs explore is each of    *)
(* these, with the others at rest.                                         *)
(***************************************************************************)
EXTENDS MCWatch, TLAPS, FiniteSetTheorems, SequenceTheorems

----------------------------------------------------------------------------
(* Names of hosts                                                          *)

NameSpec == NamesInit /\ [][NameStep]_nameVars

NameRow == [source : {"absent", "manual", "found", "miss"}, name : Label, mac : Mac]

NameTask ==
    {NoTask} \cup [pc : {"resolve"}]
      \cup [pc : {"store"}, name : Label, mac : Mac, row : NameRow]

NamesTyped ==
    /\ names \in [Hosts -> NameRow]
    /\ resolve \in [Resolvers -> [Hosts -> NameTask]]
    /\ editor \in {NoTask} \cup [pc : {"store"}, host : Hosts, name : Label, row : NameRow]
    /\ given \in [Hosts -> Label] /\ raced \in BOOLEAN

\* As long as no edit met a resolver: who holds the row of a host that the
\* operator has named knows that it is his, and the row of an edit is the
\* one that is stored.
NamesHeld ==
    ~raced =>
      /\ \A r \in Resolvers, h \in Hosts :
           resolve[r][h].pc = "store" /\ given[h] # None
             => resolve[r][h].row.source = "manual"
      /\ editor.pc = "store" => names[editor.host] = editor.row

NamesInv == NamesTyped /\ NamesHeld /\ OperatorNameStands

----------------------------------------------------------------------------
(* The poll of Telegram                                                    *)

PollSpec == PollInit /\ [][PollStep]_pollVars

PollTyped ==
    /\ bot \in Bots /\ offset \in Nat /\ lives \in Nat /\ switched \in BOOLEAN
    /\ nextId \in [Bots -> Nat]
    /\ backlog \in [Bots -> SUBSET Nat] /\ \A b \in Bots : IsFiniteSet(backlog[b])
    /\ poll \in {Waiting} \cup [pc : {"next", "handle"}, rest : (SUBSET Nat) \ {{}}, of : Bots]
    /\ handled \in [PollIds -> Nat]

Done(u) == handled[u] > 0 \/ u \in dropped

\* What Telegram keeps, and the answer at hand: the oldest of what is open.
PollKeeps ==
    /\ \A b \in Bots \ {bot} : nextId[b] = FirstId[b]
    /\ offset <= nextId[bot]
    /\ \A id \in backlog[bot] : id < nextId[bot]
    /\ \A u \in Given : u[2] \in backlog[u[1]] \/ Done(u)
    /\ poll # Waiting =>
         /\ poll.of = bot /\ poll.rest \subseteq backlog[bot]
         /\ \A u \in Given, x \in poll.rest :
              u[2] >= offset /\ u[2] <= x => u[2] \in poll.rest \/ Done(u)

\* The offset, and what of the updates below it is done.
PollDone ==
    /\ poll = Waiting => \A u \in Given : u[2] < offset => Done(u)
    /\ poll # Waiting => \A u \in Given : u[2] < Upcoming => Done(u)
    /\ poll.pc = "next" => Upcoming >= offset
    /\ poll.pc = "handle" => offset = Upcoming + 1

\* How often: once in each life of the process.
PollCounts ==
    \A u \in PollIds :
      /\ u \notin Given => handled[u] = 0
      /\ handled[u] <= 1 + lives
      /\ u[1] = bot /\ (u[2] >= offset \/ (poll.pc = "handle" /\ u[2] = Upcoming))
           => handled[u] <= lives

PollInv == PollTyped /\ (~switched => PollKeeps /\ PollDone /\ PollCounts)

----------------------------------------------------------------------------
(* The client of Sophos Central                                            *)

SophosSpec == SophosInit /\ [][SophosStep]_sophosVars

SophosCall ==
    {NoCall} \cup [pc : {"login", "whoami"}, of : Accounts]
      \cup [pc : {"sent"}, of : Accounts, first : BOOLEAN,
            token : Known, tenant : Known, region : Known]

SophosTyped ==
    /\ credentials \in Accounts /\ preset \in BOOLEAN /\ crossed \in BOOLEAN
    /\ session \in [token : Known, tenant : Known, region : Known,
                    fresh : BOOLEAN, resolved : BOOLEAN]
    /\ calls \in [SophosCalls -> SophosCall]

\* As long as no save met a login: the session and every login belong to the
\* account of the settings, every request to one account.
OneSession ==
    ~crossed =>
      /\ {session.token, session.tenant, session.region} \subseteq {credentials, NoAccount}
      /\ \A c \in SophosCalls :
           /\ calls[c].pc \in {"login", "whoami"} => calls[c].of = credentials
           /\ calls[c].pc = "whoami" => session.token = credentials
           /\ calls[c].pc = "sent" =>
                /\ \E a \in Accounts :
                     {calls[c].token, calls[c].tenant, calls[c].region} \subseteq {a, NoAccount}
                /\ calls[c].first => calls[c].token = calls[c].of

SophosInv == SophosTyped /\ OneSession

----------------------------------------------------------------------------
(* The watch over sign-ins                                                 *)

SignInSpec == SignInsInit /\ [][SignInStep]_signInVars

SignIn == [shows : SUBSET Keys, at : Int]

LookTask ==
    {NoLook} \cup [pc : {"load"}, seeded : BOOLEAN, rows : SUBSET Nat]
      \cup [pc : {"learn"}, seeded : BOOLEAN, news : Seq(SUBSET Keys)]
      \cup [pc : {"ask"}, news : Seq(SUBSET Keys)]

SignInsTyped ==
    /\ logins \in Seq(SignIn) /\ today \in Int
    /\ seeds \subseteq profiles /\ profiles \subseteq Keys
    /\ asks \in Seq(SUBSET Keys)
    /\ look \in [Looks -> LookTask]
    /\ \A p \in Looks : look[p].pc = "load" => look[p].rows \subseteq DOMAIN logins

Apart(news) == \A i, j \in DOMAIN news : i # j => news[i] \cap news[j] = {}

\* What a pass will still ask about it has learned itself: nobody else asks
\* about it or has learned it silently.
News2Ask ==
    /\ \A i \in DOMAIN asks : asks[i] \subseteq profiles /\ asks[i] \cap seeds = {}
    /\ \A p \in Looks :
         /\ look[p].pc \in {"learn", "ask"} => Apart(look[p].news)
         /\ look[p].pc = "ask" => \A i \in DOMAIN look[p].news :
              /\ look[p].news[i] \subseteq profiles \ seeds
              /\ \A k \in DOMAIN asks : look[p].news[i] \cap asks[k] = {}
              /\ \A q \in Looks \ {p} : look[q].pc = "ask" =>
                   \A j \in DOMAIN look[q].news : look[p].news[i] \cap look[q].news[j] = {}

SignInsInv == SignInsTyped /\ News2Ask /\ RevokeAskedOnce

----------------------------------------------------------------------------
(* The honeypots                                                           *)

HoneypotSpec == HoneypotInit /\ [][HoneypotStep]_honeypotVars

PodRow == [hit : Hit, muted : BOOLEAN, at : Nat]
PodAlert == [ident : Idents, at : Nat]

IngestTask ==
    {Quiet} \cup [pc : {"load"}, batch : Seq(Hit)]
      \cup [pc : {"read"}, batch : Seq(Hit), spared : BOOLEAN, rows : Seq(PodRow),
            due : Seq(PodAlert)]
      \cup [pc : {"send"}, due : Seq(PodAlert), sent : Nat]

HoneypotTyped ==
    /\ queue \in Seq(Hit)
    /\ report \in {Quiet, [pc |-> "waiting"]} \cup [pc : {"posted"}, batch : Seq(Hit)]
    /\ stored \in Seq(PodRow) /\ keys \in [Idents -> Nat] /\ alerted \in Seq(PodAlert)
    /\ ingest \in [Ingests -> IngestTask]
    /\ \A w \in Ingests : ingest[w].pc = "send" => ingest[w].due # <<>>
    /\ failed \in BOOLEAN /\ cleared \in BOOLEAN /\ listed \in BOOLEAN /\ time \in Nat

\* The alerts a report in progress will send.
DueOf(w) == IF ingest[w].pc \in {"read", "send"} THEN ingest[w].due ELSE <<>>

Spaced(a, b) == a.ident = b.ident => a.at - b.at \notin (1 - MuteFor)..(MuteFor - 1)

\* As long as Redis keeps its keys, each key outlasts every alert it was taken
\* for, and the alerts are spaced, the sent ones and those under way.
KeysMute ==
    ~cleared =>
      /\ \A a \in Announced : a.at + MuteFor <= keys[a.ident]
      /\ \A i, j \in DOMAIN alerted : i # j => Spaced(alerted[i], alerted[j])
      /\ \A w \in Ingests :
           /\ \A i, j \in DOMAIN DueOf(w) : i # j => Spaced(DueOf(w)[i], DueOf(w)[j])
           /\ \A i \in DOMAIN DueOf(w), j \in DOMAIN alerted :
                Spaced(DueOf(w)[i], alerted[j]) /\ Spaced(alerted[j], DueOf(w)[i])
           /\ \A v \in Ingests \ {w} : \A i \in DOMAIN DueOf(w), j \in DOMAIN DueOf(v) :
                Spaced(DueOf(w)[i], DueOf(v)[j])

RowsOf(w) == IF ingest[w].pc = "read" THEN ingest[w].rows ELSE <<>>

Covered(rows, alerts) ==
    \A i \in DOMAIN rows : ~rows[i].muted =>
      \E a \in alerts : a.ident = rows[i].hit.ident
                     /\ a.at <= rows[i].at /\ rows[i].at < a.at + MuteFor

Backed(ks, now, alerts) ==
    \A x \in Idents : ks[x] > now =>
      \E a \in alerts : a.ident = x /\ a.at <= now /\ ks[x] <= a.at + MuteFor

\* As long as no alert got lost, a key that is still taken was taken for one
\* of them, and every row that alarms is covered, stored or not.
RowsCovered ==
    ~failed =>
      /\ Backed(keys, time, Announced)
      /\ Covered(stored, Announced)
      /\ \A w \in Ingests : Covered(RowsOf(w), Announced)

HoneypotInv == HoneypotTyped /\ KeysMute /\ RowsCovered

----------------------------------------------------------------------------
(* The hardware of hosts                                                   *)

IdentitySpec == IdentityInit /\ [][IdentityStep]_identVars

OneCard(rows) == \A c, d \in rows : c[1] = d[1] => c = d

HostBinding == [card : Cards \cup {Unknown}, title : Titles \cup {Unknown}]

IdentTyped ==
    /\ bindings \in [Inventory -> HostBinding]
    /\ DOMAIN idents \subseteq Combos /\ seeded \subseteq DOMAIN idents
    /\ \A e \in DOMAIN identEvents : identEvents[e] \in Nat \ {0}
    /\ scan = [s \in Scans |-> scan[s]] /\ overlapped \in BOOLEAN
    /\ \A s \in Scans : scan[s].pc \in {"known", "commit"} =>
         scan[s].rows \subseteq Combos /\ OneCard(scan[s].rows)

\* What is not stored was not reported, and the rest as promised.
FirstsCounted ==
    /\ \A c \in DOMAIN idents : FirstsOf(c) = IF c \in seeded THEN 0 ELSE 1
    /\ \A c \in Combos \ DOMAIN idents : FirstsOf(c) = 0

\* As long as no two scans overlapped, the one in progress knows all there is.
ScanAlone ==
    ~overlapped =>
      /\ \A s, t \in Scans : s # t => scan[s] = NoScan \/ scan[t] = NoScan
      /\ \A s \in Scans : scan[s].pc = "commit" => scan[s].known = idents
      /\ \A c, d \in DOMAIN idents :
           c[1] = d[1] /\ c # d
             => \E x \in {c, d} : BagIn([type |-> "ip_mac_change", of |-> x], identEvents)

IdentityInv == IdentTyped /\ FirstsCounted /\ ScanAlone

----------------------------------------------------------------------------
(* Proofs: names of hosts                                                  *)

USE DEF NoTask, Unnamed

LEMMA NamesStart == NamesInit => NamesInv
  <1> SUFFICES ASSUME NamesInit PROVE NamesInv
    OBVIOUS
  <1>1. Unnamed \in NameRow /\ None \in Label /\ NoTask \in NameTask
    BY DEF NameRow, NameTask, Label, Mac
  <1>2. NamesTyped
    BY <1>1 DEF NamesInit, NamesTyped
  <1>3. NamesHeld /\ OperatorNameStands
    BY DEF NamesInit, NamesHeld, OperatorNameStands
  <1> QED BY <1>2, <1>3 DEF NamesInv

\* What the upsert leaves is a row, and a manual row keeps its name.
LEMMA UpsertKeeps ==
  ASSUME NEW row \in NameRow, NEW now \in NameRow, NEW name \in Label, NEW mac \in Mac,
         NEW task, task.name = name, task.mac = mac, NEW moved \in BOOLEAN
  PROVE  /\ Upsert(row, now, task, moved) \in NameRow
         /\ row.source = "manual" => /\ Upsert(row, now, task, moved).source = now.source
                                     /\ Upsert(row, now, task, moved).name = now.name
  <1>1. CASE row.source = "manual"
    BY <1>1 DEF Upsert, NameRow
  <1>2. CASE row.source # "manual"
    BY <1>2 DEF Upsert, NameRow
  <1> QED BY <1>1, <1>2

\* A step of a run at one of its hosts leaves the other tasks alone.
LEMMA TaskMoves ==
  ASSUME NamesTyped, NEW r \in Resolvers, NEW h \in Hosts, NEW task \in NameTask,
         resolve' = [resolve EXCEPT ![r][h] = task]
  PROVE  /\ resolve' \in [Resolvers -> [Hosts -> NameTask]]
         /\ resolve'[r][h] = task
         /\ \A q \in Resolvers, g \in Hosts : q # r \/ g # h => resolve'[q][g] = resolve[q][g]
  BY DEF NamesTyped

\* A run that begins holds no row yet.
LEMMA RunBegins ==
  ASSUME NamesInv, NEW r \in Resolvers, NEW hosts, Begin(r, hosts),
         UNCHANGED <<names, editor, given, raced>>
  PROVE  NamesInv'
  <1>1. /\ resolve' \in [Resolvers -> [Hosts -> NameTask]]
        /\ \A q \in Resolvers, h \in Hosts :
             resolve'[q][h] = resolve[q][h] \/ resolve'[q][h].pc # "store"
    BY DEF Begin, NamesInv, NamesTyped, NameTask
  <1> QED BY <1>1 DEF NamesInv, NamesTyped, NamesHeld, OperatorNameStands

LEMMA ResolvedKeeps ==
  ASSUME NamesInv, NEW r \in Resolvers, NEW h \in Hosts, Resolved(r, h)
  PROVE  NamesInv'
  <1>1. PICK name \in Label, mac \in Mac :
          resolve' = [resolve EXCEPT ![r][h] =
            [pc |-> "store", name |-> name, mac |-> mac, row |-> names[h]]]
    BY DEF Resolved
  <1> DEFINE task == [pc |-> "store", name |-> name, mac |-> mac, row |-> names[h]]
  <1>2. task \in NameTask BY DEF NamesInv, NamesTyped, NameTask
  <1>3. task.row = names[h] OBVIOUS
  <1>4. resolve' = [resolve EXCEPT ![r][h] = task] BY <1>1
  <1> HIDE DEF task
  <1>5. /\ resolve' \in [Resolvers -> [Hosts -> NameTask]]
        /\ resolve'[r][h] = task
        /\ \A q \in Resolvers, g \in Hosts : q # r \/ g # h => resolve'[q][g] = resolve[q][g]
    <2>1. NamesTyped BY DEF NamesInv
    <2> QED BY <1>2, <1>4, <2>1, TaskMoves, Zenon
  <1>6. UNCHANGED <<names, editor, given, raced>> BY DEF Resolved
  <1>7. NamesTyped' /\ OperatorNameStands'
    BY <1>5, <1>6 DEF NamesInv, NamesTyped, OperatorNameStands
  <1>8. NamesHeld'
    BY <1>3, <1>5, <1>6 DEF NamesInv, NamesHeld, OperatorNameStands
  <1> QED BY <1>7, <1>8 DEF NamesInv

LEMMA StoredKeeps ==
  ASSUME NamesInv, NEW r \in Resolvers, NEW h \in Hosts, Stored(r, h)
  PROVE  NamesInv'
  <1> DEFINE task == resolve[r][h]
  <1>1. /\ task.pc = "store" /\ UNCHANGED <<editor, given>>
        /\ resolve' = [resolve EXCEPT ![r][h] = NoTask]
        /\ raced' = (raced \/ (editor.pc = "store" /\ editor.host = h))
    BY DEF Stored
  <1>2. PICK moved \in BOOLEAN :
          names' = [names EXCEPT ![h] = Upsert(task.row, names[h], task, moved)]
    BY DEF Stored
  <1>3. NamesTyped BY DEF NamesInv
  <1>4. task \in [pc : {"store"}, name : Label, mac : Mac, row : NameRow]
    BY <1>1, <1>3 DEF NamesTyped, NameTask
  <1>5. names[h] \in NameRow BY <1>3 DEF NamesTyped
  <1> DEFINE new == Upsert(task.row, names[h], task, moved)
  <1>6. /\ new \in NameRow
        /\ task.row.source = "manual" => new.source = names[h].source /\ new.name = names[h].name
    BY <1>4, <1>5, UpsertKeeps
  <1> HIDE DEF new
  <1>7. /\ names' \in [Hosts -> NameRow] /\ names'[h] = new
        /\ \A g \in Hosts \ {h} : names'[g] = names[g]
    BY <1>2, <1>3, <1>6 DEF NamesTyped, new
  <1>8. NoTask \in NameTask BY DEF NameTask
  <1>9. /\ resolve' \in [Resolvers -> [Hosts -> NameTask]]
        /\ resolve'[r][h] = NoTask
        /\ \A q \in Resolvers, g \in Hosts : q # r \/ g # h => resolve'[q][g] = resolve[q][g]
    <2>1. PICK t \in NameTask : t = NoTask
      BY <1>8
    <2>2. resolve' = [resolve EXCEPT ![r][h] = t]
      BY <1>1, <2>1
    <2>3. /\ resolve' \in [Resolvers -> [Hosts -> NameTask]]
          /\ resolve'[r][h] = t
          /\ \A q \in Resolvers, g \in Hosts : q # r \/ g # h => resolve'[q][g] = resolve[q][g]
      BY <1>3, <2>2, TaskMoves, Zenon
    <2> QED BY <2>1, <2>3
  <1>10. NamesTyped' BY <1>1, <1>3, <1>7, <1>9 DEF NamesTyped
  <1>11. given[h] # None /\ ~raced' => task.row.source = "manual"
    BY <1>1 DEF NamesInv, NamesHeld
  <1>12. OperatorNameStands'
    BY <1>1, <1>6, <1>7, <1>11 DEF NamesInv, OperatorNameStands
  <1>13. ASSUME ~raced' PROVE editor'.pc = "store" => names'[editor'.host] = editor'.row
    <2>1. SUFFICES ASSUME editor.pc = "store" PROVE names'[editor.host] = editor.row
      BY <1>1
    <2>2. ~raced /\ editor.host # h
      BY <1>1, <1>13, <2>1, Zenon
    <2>3. editor.host \in Hosts
      BY <1>3, <2>1 DEF NamesTyped
    <2> QED BY <1>7, <2>1, <2>2, <2>3 DEF NamesInv, NamesHeld
  <1>14. ASSUME ~raced', NEW q \in Resolvers, NEW g \in Hosts,
                resolve'[q][g].pc = "store", given'[g] # None
         PROVE  resolve'[q][g].row.source = "manual"
    BY <1>1, <1>9, <1>14 DEF NamesInv, NamesHeld
  <1>15. NamesHeld' BY <1>13, <1>14 DEF NamesHeld
  <1> QED BY <1>10, <1>12, <1>15 DEF NamesInv

LEMMA StoreFailsKeeps ==
  ASSUME NamesInv, NEW r \in Resolvers, NEW h \in Hosts, StoreFails(r, h)
  PROVE  NamesInv'
  <1>1. NoTask \in NameTask BY DEF NameTask
  <1>2. /\ resolve' \in [Resolvers -> [Hosts -> NameTask]]
        /\ resolve'[r][h] = NoTask
        /\ \A q \in Resolvers, g \in Hosts : q # r \/ g # h => resolve'[q][g] = resolve[q][g]
    <2>1. PICK t \in NameTask : t = NoTask
      BY <1>1
    <2>2. NamesTyped /\ resolve' = [resolve EXCEPT ![r][h] = t]
      BY <2>1 DEF NamesInv, StoreFails
    <2>3. /\ resolve' \in [Resolvers -> [Hosts -> NameTask]]
          /\ resolve'[r][h] = t
          /\ \A q \in Resolvers, g \in Hosts : q # r \/ g # h => resolve'[q][g] = resolve[q][g]
      BY <2>2, TaskMoves, Zenon
    <2> QED BY <2>1, <2>3
  <1>3. UNCHANGED <<names, editor, given, raced>> BY DEF StoreFails
  <1> QED BY <1>2, <1>3 DEF NamesInv, NamesTyped, NamesHeld, OperatorNameStands

LEMMA EditBeginsKeeps == NamesInv /\ EditBegins => NamesInv'
  BY DEF EditBegins, NamesInv, NamesTyped, NamesHeld, OperatorNameStands

LEMMA EditStoredKeeps == NamesInv /\ EditStored => NamesInv'
  <1> SUFFICES ASSUME NamesInv, EditStored PROVE NamesInv'
    OBVIOUS
  <1> DEFINE h == editor.host
             deletes == editor.name = None
             fits == StillFits(editor.row, h)
             amends == IF deletes THEN editor.row.source # "absent" ELSE fits
             kept == Marked(names[h])
  <1>1. NamesTyped BY DEF NamesInv
  <1>2. /\ editor \in [pc : {"store"}, host : Hosts, name : Label, row : NameRow]
        /\ h \in Hosts /\ names[h] \in NameRow /\ editor.name \in Label
    BY <1>1 DEF EditStored, NamesTyped
  <1>3. /\ names' = [names EXCEPT ![h] =
               IF ~amends THEN @ ELSE IF deletes THEN Unnamed ELSE kept]
        /\ given' = [given EXCEPT ![h] = IF deletes \/ fits THEN editor.name ELSE @]
        /\ raced' = (raced \/ \E r \in Resolvers : resolve[r][h].pc = "store")
        /\ editor' = NoTask /\ resolve' = resolve
    BY DEF EditStored
  <1>4. /\ kept \in NameRow /\ kept.source = "manual"
        /\ names[h] = editor.row => kept.name = editor.name
    BY <1>2 DEF Marked, NameRow
  <1>5. Unnamed \in NameRow BY DEF NameRow, Label, Mac
  <1>6. NamesTyped'
    <2>1. names' \in [Hosts -> NameRow]
      BY <1>1, <1>2, <1>3, <1>4, <1>5 DEF NamesTyped
    <2>2. given' \in [Hosts -> Label]
      BY <1>1, <1>2, <1>3 DEF NamesTyped
    <2> QED BY <1>1, <1>3, <2>1, <2>2 DEF NamesTyped
  <1>7. ASSUME ~raced', NEW g \in Hosts, given'[g] # None
        PROVE  names'[g].source = "manual" /\ names'[g].name = given'[g]
    <2>1. CASE g # h
      BY <1>1, <1>2, <1>3, <1>7, <2>1 DEF NamesInv, OperatorNameStands, NamesTyped
    <2>2. CASE g = h /\ ~deletes /\ fits
      <3>1. names'[h] = kept /\ given'[h] = editor.name
        BY <1>1, <1>2, <1>3, <2>2 DEF NamesTyped
      <3>2. names[h] = editor.row
        BY <1>2, <1>3, <1>7 DEF NamesInv, NamesHeld
      <3> QED BY <1>4, <2>2, <3>1, <3>2
    <2>3. CASE g = h /\ deletes
      BY <1>1, <1>2, <1>3, <1>7, <2>3 DEF NamesTyped
    <2>4. CASE g = h /\ ~deletes /\ ~fits
      BY <1>1, <1>2, <1>3, <1>7, <2>4 DEF NamesInv, OperatorNameStands, NamesTyped
    <2> QED BY <2>1, <2>2, <2>3, <2>4
  <1>8. ASSUME ~raced', NEW q \in Resolvers, NEW g \in Hosts,
               resolve'[q][g].pc = "store", given'[g] # None
        PROVE  resolve'[q][g].row.source = "manual"
    <2>1. g # h BY <1>3, <1>8
    <2>2. given'[g] = given[g] BY <1>1, <1>2, <1>3, <2>1 DEF NamesTyped
    <2> QED BY <1>3, <1>8, <2>2 DEF NamesInv, NamesHeld
  <1>9. editor'.pc # "store" BY <1>3
  <1> HIDE DEF h, deletes, fits, amends, kept
  <1>10. NamesHeld' BY <1>8, <1>9 DEF NamesHeld
  <1>11. OperatorNameStands' BY <1>7 DEF OperatorNameStands
  <1> QED BY <1>6, <1>10, <1>11 DEF NamesInv

LEMMA ResolversDieKeeps == NamesInv /\ ResolversDie => NamesInv'
  BY DEF ResolversDie, NamesInv, NamesTyped, NamesHeld, OperatorNameStands, NameTask

LEMMA NamesNext == NamesInv /\ [NameStep]_nameVars => NamesInv'
  <1> SUFFICES ASSUME NamesInv, [NameStep]_nameVars PROVE NamesInv'
    OBVIOUS
  <1>1. CASE UNCHANGED nameVars
    BY <1>1 DEF nameVars, NamesInv, NamesTyped, NamesHeld, OperatorNameStands
  <1>2. ASSUME NEW r \in Resolvers, WorkerTakes(r) PROVE NamesInv'
    BY <1>2, RunBegins DEF WorkerTakes
  <1>3. ASSUME NEW r \in Resolvers, ReconcilePressed(r) PROVE NamesInv'
    BY <1>3, RunBegins DEF ReconcilePressed
  <1>4. ASSUME Queue PROVE NamesInv'
    BY <1>4 DEF Queue, NamesInv, NamesTyped, NamesHeld, OperatorNameStands
  <1> QED
    BY <1>1, <1>2, <1>3, <1>4, ResolvedKeeps, StoredKeeps, StoreFailsKeeps, EditBeginsKeeps,
       EditStoredKeeps, ResolversDieKeeps DEF NameStep, ResolveStep

(* "Manual names are never overwritten by the auto-resolver", for any      *)
(* hosts, names and number of resolvers: hostname_service.py.              *)
THEOREM OperatorNamesStand == NameSpec => []OperatorNameStands
  <1>1. NamesInv => OperatorNameStands BY DEF NamesInv
  <1> QED BY <1>1, NamesStart, NamesNext, PTL DEF NameSpec

----------------------------------------------------------------------------
(* Proofs: the poll of Telegram                                            *)

\* The least number of a set.
LEMMA LeastOf ==
  ASSUME NEW T, T \subseteq Nat, T # {}
  PROVE  /\ Min(T) \in T
         /\ \A k \in T : Min(T) <= k
  <1>1. PICK m \in T : \A k \in T : ~(<<k, m>> \in OpToRel(<, Nat))
    BY NatLessThanWellFounded, WFMin, Zenon
  <1>2. \A k \in T : k \in Nat /\ m \in Nat
    OBVIOUS
  <1>3. \A k \in T : ~(k < m)
    BY <1>1, <1>2, Zenon DEF OpToRel
  <1>4. \A k \in T : m <= k
    BY <1>2, <1>3
  <1> QED BY <1>4 DEF Min

USE DEF Waiting, Given, PollIds, Done

\* While an answer is at hand: its oldest update.
LEMMA OldestAtHand ==
  ASSUME PollTyped, poll # Waiting
  PROVE  /\ poll \in [pc : {"next", "handle"}, rest : (SUBSET Nat) \ {{}}, of : Bots]
         /\ Current = <<poll.of, Upcoming>>
         /\ Upcoming \in Nat /\ Upcoming \in poll.rest
         /\ \A k \in poll.rest : Upcoming <= k
  <1>1. poll.rest \subseteq Nat /\ poll.rest # {} BY DEF PollTyped
  <1> QED BY <1>1, LeastOf DEF PollTyped, Upcoming, Current

LEMMA PollStart == PollInit => PollInv
  <1> SUFFICES ASSUME PollInit PROVE PollInv
    OBVIOUS
  <1>1. /\ FirstId \in [Bots -> Nat \ {0}]
        /\ \E b \in Bots : \A c \in Bots : FirstId[c] <= FirstId[b]
    BY TelegramPollAssumption DEF Bots
  <1>2. bot \in Bots
    BY <1>1 DEF PollInit
  <1>3. PollTyped
    <2>1. nextId \in [Bots -> Nat] BY <1>1 DEF PollInit
    <2>2. handled \in [PollIds -> Nat] BY DEF PollInit
    <2>3. backlog \in [Bots -> SUBSET Nat] /\ \A b \in Bots : IsFiniteSet(backlog[b])
      BY FS_EmptySet DEF PollInit
    <2> QED BY <1>2, <2>1, <2>2, <2>3 DEF PollInit, PollTyped
  <1>4. Given = {}
    <2>1. SUFFICES ASSUME NEW u \in Given PROVE FALSE
      OBVIOUS
    <2>2. PICK b \in Bots : u \in {<<b, id>> : id \in FirstId[b] .. FirstId[b] + MaxUpdates}
      OBVIOUS
    <2>3. PICK id \in FirstId[b] .. FirstId[b] + MaxUpdates : u = <<b, id>>
      BY <2>2
    <2>4. nextId[b] = FirstId[b] /\ FirstId[b] \in Nat /\ id < nextId[b]
      BY <1>1, <2>3 DEF PollInit
    <2> QED BY <2>3, <2>4
  <1>5. PollKeeps
    BY <1>1, <1>2, <1>4 DEF PollInit, PollKeeps
  <1>6. PollDone
    BY <1>4 DEF PollInit, PollDone
  <1>7. PollCounts
    BY DEF PollInit, PollCounts
  <1> QED BY <1>3, <1>5, <1>6, <1>7 DEF PollInv

\* An update is a pair of its bot and its id, and the only bot that has given
\* any is the one in use.
LEMMA GivenByBot ==
  ASSUME PollTyped, PollKeeps, NEW u \in Given
  PROVE  u[1] = bot /\ u[2] \in Int /\ u = <<bot, u[2]>> /\ u \in PollIds
  <1>0. PICK b \in Bots : \E id \in FirstId[b] .. FirstId[b] + MaxUpdates : u = <<b, id>>
    OBVIOUS
  <1>1. PICK id \in FirstId[b] .. FirstId[b] + MaxUpdates : u = <<b, id>>
    BY <1>0
  <1>2. CASE b # bot
    <2>1. nextId[b] = FirstId[b] /\ id < nextId[b] /\ id \in Int
      BY <1>1, <1>2 DEF PollKeeps
    <2>2. FirstId[b] \in Nat BY TelegramPollAssumption DEF Bots
    <2> QED BY <1>1, <2>1, <2>2
  <1> QED BY <1>1, <1>2

LEMMA UpdateKeeps == PollInv /\ Update => PollInv'
  <1> SUFFICES ASSUME PollInv, Update PROVE PollInv'
    OBVIOUS
  <1> DEFINE new == nextId[bot]
  <1>1. /\ PollTyped /\ new \in Nat /\ bot \in Bots
        /\ UNCHANGED <<bot, offset, poll, handled, dropped, lives, switched>>
        /\ backlog' = [backlog EXCEPT ![bot] = @ \cup {new}]
        /\ nextId' = [nextId EXCEPT ![bot] = new + 1]
    BY DEF PollInv, PollTyped, Update
  <1> HIDE DEF new
  <1>2. /\ backlog' \in [Bots -> SUBSET Nat] /\ nextId' \in [Bots -> Nat]
        /\ backlog'[bot] = backlog[bot] \cup {new} /\ nextId'[bot] = new + 1
        /\ \A b \in Bots \ {bot} : backlog'[b] = backlog[b] /\ nextId'[b] = nextId[b]
    BY <1>1 DEF PollTyped
  <1>3. \A b \in Bots : IsFiniteSet(backlog'[b])
    BY <1>1, <1>2, FS_AddElement DEF PollTyped
  <1>4. PollTyped'
    BY <1>1, <1>2, <1>3 DEF PollTyped
  <1>5. ASSUME ~switched PROVE PollKeeps' /\ PollDone' /\ PollCounts'
    <2>1. PollKeeps /\ PollDone /\ PollCounts BY <1>5 DEF PollInv
    <2>2. ASSUME NEW u \in Given'
          PROVE  u \in Given \/ (u = <<bot, new>> /\ u[2] = new /\ u[1] = bot)
      <3>0. PICK b \in Bots : \E id \in FirstId[b] .. FirstId[b] + MaxUpdates : u = <<b, id>>
        BY <2>2
      <3>1. PICK id \in FirstId[b] .. FirstId[b] + MaxUpdates : u = <<b, id>>
        BY <3>0
      <3>2. FirstId[b] \in Nat BY TelegramPollAssumption DEF Bots
      <3>3. id < nextId'[b] /\ id \in Int BY <2>2, <3>1
      <3>4. CASE b # bot BY <1>2, <3>1, <3>3, <3>4
      <3>5. CASE b = bot
        <4>1. id < new \/ id = new BY <1>1, <1>2, <3>3, <3>5
        <4> QED BY <3>1, <3>5, <4>1 DEF new
      <3> QED BY <3>4, <3>5
    <2>3. \A id \in backlog[bot] : id < new BY <2>1 DEF PollKeeps, new
    <2>4. offset <= new /\ offset \in Nat BY <1>1, <2>1 DEF PollKeeps, PollTyped, new
    <2>5. ASSUME NEW u \in PollIds, u \in Given PROVE u \in Given'
      <3>1. u[1] = bot /\ u[2] \in Int /\ u[2] < new
        BY <1>1, <2>1, <2>5, GivenByBot DEF new
      <3> QED BY <1>1, <1>2, <2>5, <3>1
    <2>6. PollKeeps'
      <3>1. \A b \in Bots \ {bot'} : nextId'[b] = FirstId[b]
        BY <1>1, <1>2, <2>1 DEF PollKeeps
      <3>2. offset' <= nextId'[bot'] BY <1>1, <1>2, <2>4
      <3>3. \A id \in backlog'[bot'] : id < nextId'[bot']
        <4>1. ASSUME NEW id \in backlog'[bot] PROVE id < new + 1
          <5>1. id \in Nat BY <1>1, <1>2, <4>1
          <5>2. id < new \/ id = new BY <1>2, <2>3, <4>1
          <5> QED BY <1>1, <5>1, <5>2
        <4> QED BY <1>1, <1>2, <4>1
      <3>4. ASSUME NEW u \in Given' PROVE u[2] \in backlog'[u[1]] \/ Done(u)'
        <4>1. CASE u \in Given
          BY <1>1, <1>2, <2>1, <4>1, GivenByBot DEF PollKeeps
        <4>2. CASE u[2] = new /\ u[1] = bot
          BY <1>2, <4>2
        <4> QED BY <2>2, <3>4, <4>1, <4>2
      <3>5. ASSUME poll # Waiting
            PROVE  /\ poll.of = bot /\ poll.rest \subseteq backlog'[bot]
                   /\ \A u \in Given', x \in poll.rest :
                        u[2] >= offset /\ u[2] <= x => u[2] \in poll.rest \/ Done(u)
        <4>1. /\ poll.of = bot /\ poll.rest \subseteq backlog[bot]
              /\ \A u \in Given, x \in poll.rest :
                   u[2] >= offset /\ u[2] <= x => u[2] \in poll.rest \/ Done(u)
          BY <2>1, <3>5 DEF PollKeeps
        <4>2. ASSUME NEW u \in Given', NEW x \in poll.rest, u[2] >= offset, u[2] <= x
              PROVE  u[2] \in poll.rest \/ Done(u)
          <5>1. CASE u \in Given BY <4>1, <4>2, <5>1
          <5>2. CASE u[2] = new
            <6>1. x \in Nat /\ x < new BY <1>1, <2>3, <4>1, <4>2 DEF PollTyped
            <6> QED BY <1>1, <4>2, <5>2, <6>1
          <5> QED BY <2>2, <4>2, <5>1, <5>2
        <4> QED BY <1>2, <4>1, <4>2
      <3> QED BY <1>1, <3>1, <3>2, <3>3, <3>4, <3>5 DEF PollKeeps
    <2>7. PollDone'
      <3>1. ASSUME poll # Waiting PROVE Upcoming \in Nat /\ Upcoming < new
        BY <1>1, <2>1, <2>3, <3>1, OldestAtHand DEF PollKeeps
      <3>2. ASSUME NEW u \in Given', poll = Waiting, u[2] < offset PROVE Done(u)
        BY <1>1, <2>1, <2>2, <2>4, <3>2 DEF PollDone
      <3>3. ASSUME NEW u \in Given', poll # Waiting, u[2] < Upcoming PROVE Done(u)
        BY <1>1, <2>1, <2>2, <3>1, <3>3 DEF PollDone
      <3>4. /\ poll.pc = "next" => Upcoming >= offset
            /\ poll.pc = "handle" => offset = Upcoming + 1
        BY <2>1 DEF PollDone
      <3> QED BY <1>1, <3>2, <3>3, <3>4 DEF PollDone, Upcoming
    <2>8. PollCounts'
      <3>1. ASSUME NEW u \in PollIds
            PROVE  /\ u \notin Given' => handled[u] = 0
                   /\ handled[u] <= 1 + lives
                   /\ u[1] = bot /\ (u[2] >= offset \/ (poll.pc = "handle" /\ u[2] = Upcoming))
                        => handled[u] <= lives
        BY <2>1, <2>5 DEF PollCounts
      <3> QED BY <1>1, <3>1 DEF PollCounts, Upcoming
    <2> QED BY <2>6, <2>7, <2>8
  <1> QED BY <1>1, <1>4, <1>5 DEF PollInv

\* The oldest ids of what is open are an initial part of it.
LEMMA OldestFirst ==
  ASSUME NEW open, open \subseteq Nat, IsFiniteSet(open), NEW x \in open, NEW y \in open, y <= x,
         Cardinality({k \in open : k < x}) < PollLimit
  PROVE  Cardinality({k \in open : k < y}) < PollLimit
  <1> DEFINE before(z) == {k \in open : k < z}
  <1>1. before(y) \subseteq before(x) /\ IsFiniteSet(before(x))
    <2>1. before(y) \subseteq before(x)
      <3>1. ASSUME NEW k \in open, k < y PROVE k < x
        <4>1. k \in Nat /\ x \in Nat /\ y \in Nat OBVIOUS
        <4> QED BY <3>1, <4>1
      <3> QED BY <3>1
    <2>2. before(x) \subseteq open OBVIOUS
    <2> HIDE DEF before
    <2> QED BY <2>1, <2>2, FS_Subset
  <1>2. /\ Cardinality(before(x)) \in Nat /\ Cardinality(before(y)) \in Nat
        /\ Cardinality(before(y)) <= Cardinality(before(x))
    BY <1>1, FS_Subset, FS_CardinalityType
  <1>3. Cardinality(before(x)) < PollLimit OBVIOUS
  <1>4. PollLimit \in Nat BY TelegramPollAssumption
  <1> HIDE DEF before
  <1>5. Cardinality(before(y)) < PollLimit BY <1>2, <1>3, <1>4
  <1> QED BY <1>5 DEF before

LEMMA PollFetchesKeeps == PollInv /\ PollFetches => PollInv'
  <1> SUFFICES ASSUME PollInv, PollFetches PROVE PollInv'
    OBVIOUS
  <1> DEFINE open == {id \in backlog[bot] : id >= offset}
             answer == {id \in open : Cardinality({k \in open : k < id}) < PollLimit}
             answered == [pc |-> "next", rest |-> answer, of |-> bot]
  <1>1. /\ PollTyped /\ bot \in Bots /\ poll = Waiting
        /\ UNCHANGED <<bot, nextId, offset, handled, dropped, lives, switched>>
        /\ backlog' = [backlog EXCEPT ![bot] = open]
        /\ poll' = Waiting \/ (answer # {} /\ poll' = answered)
    BY DEF PollInv, PollTyped, PollFetches
  <1>2. open \subseteq backlog[bot] /\ open \subseteq Nat /\ IsFiniteSet(open)
    BY <1>1, FS_Subset DEF PollTyped
  <1>3. /\ answer \subseteq open
        /\ answer # {} =>
             answered \in [pc : {"next", "handle"}, rest : (SUBSET Nat) \ {{}}, of : Bots]
    BY <1>1, <1>2
  <1>4. /\ answered.rest = answer /\ answered.of = bot /\ answered.pc = "next"
        /\ answered # Waiting
    BY DEF Waiting
  <1>5. \A id \in backlog[bot] : id \in open \/ id < offset
    BY <1>1 DEF PollTyped
  <1>6. ASSUME NEW x \in answer, NEW y \in open, y <= x PROVE y \in answer
    BY <1>2, <1>6, OldestFirst
  <1>7. \A id \in open : id >= offset OBVIOUS
  <1> HIDE DEF open, answer, answered
  <1>8. /\ backlog' \in [Bots -> SUBSET Nat]
        /\ backlog'[bot] = open /\ \A b \in Bots \ {bot} : backlog'[b] = backlog[b]
    BY <1>1, <1>2 DEF PollTyped
  <1>9. PollTyped'
    <2>1. \A b \in Bots : IsFiniteSet(backlog'[b]) BY <1>1, <1>2, <1>8 DEF PollTyped
    <2> QED BY <1>1, <1>3, <1>8, <2>1 DEF PollTyped
  <1>10. ASSUME ~switched PROVE PollKeeps' /\ PollDone' /\ PollCounts'
    <2>1. PollKeeps /\ PollDone /\ PollCounts BY <1>10 DEF PollInv
    <2>2. Given' = Given BY <1>1
    <2>3. \A u \in Given : u[2] < offset => Done(u) BY <1>1, <2>1 DEF PollDone
    <2>4. ASSUME NEW u \in Given PROVE u[1] = bot /\ u[2] \in Int /\ (u[2] \in open \/ Done(u))
      <3>1. u[1] = bot /\ u[2] \in Int BY <1>1, <2>1, GivenByBot
      <3>2. u[2] \in backlog[bot] \/ Done(u) BY <2>1, <3>1 DEF PollKeeps
      <3> QED BY <1>5, <2>3, <3>1, <3>2
    <2>5. ASSUME poll' # Waiting
          PROVE  /\ poll'.pc = "next" /\ poll'.rest = answer /\ poll'.of = bot
                 /\ Upcoming' \in answer /\ \A k \in answer : Upcoming' <= k
      <3>1. poll' = answered /\ answer # {} BY <1>1, <2>5
      <3>2. answer \subseteq Nat BY <1>2, <1>3
      <3>3. Min(answer) \in answer /\ \A k \in answer : Min(answer) <= k
        BY <3>1, <3>2, LeastOf
      <3> QED BY <1>4, <3>1, <3>3 DEF Upcoming
    <2>6. PollKeeps'
      <3>1. \A id \in open : id < nextId[bot] BY <1>2, <2>1 DEF PollKeeps
      <3>2. \A u \in Given : u[2] \in backlog'[u[1]] \/ Done(u)
        BY <1>8, <2>4
      <3>3. ASSUME poll' # Waiting, NEW u \in Given, NEW x \in answer, u[2] >= offset, u[2] <= x
            PROVE  u[2] \in answer \/ Done(u)
        BY <1>6, <2>4, <3>3
      <3>4. poll' # Waiting =>
              /\ poll'.of = bot /\ poll'.rest \subseteq backlog'[bot]
              /\ \A u \in Given, x \in poll'.rest :
                   u[2] >= offset /\ u[2] <= x => u[2] \in poll'.rest \/ Done(u)
        BY <1>3, <1>8, <2>5, <3>3
      <3>5. /\ \A b \in Bots \ {bot} : nextId[b] = FirstId[b]
            /\ offset <= nextId[bot]
        BY <2>1 DEF PollKeeps
      <3> QED BY <1>1, <1>8, <2>2, <3>1, <3>2, <3>4, <3>5 DEF PollKeeps
    <2>7. PollDone'
      <3>1. ASSUME poll' # Waiting, NEW u \in Given, u[2] < Upcoming' PROVE Done(u)
        <4>1. Upcoming' \in answer /\ \A k \in answer : Upcoming' <= k
          BY <2>5, <3>1
        <4>2. Upcoming' \in Nat /\ u[2] \in Int BY <1>2, <1>3, <2>4, <4>1
        <4>3. CASE u[2] \in open
          <5>1. u[2] \in answer BY <1>6, <3>1, <4>1, <4>2, <4>3
          <5> QED BY <3>1, <4>1, <4>2, <5>1
        <4> QED BY <2>4, <4>3
      <3>2. ASSUME poll' # Waiting PROVE Upcoming' >= offset /\ poll'.pc = "next"
        BY <1>3, <1>7, <2>5, <3>2
      <3>3. Waiting.pc = "idle" BY DEF Waiting
      <3> QED BY <1>1, <2>2, <2>3, <3>1, <3>2, <3>3 DEF PollDone
    <2>8. PollCounts'
      <3>1. poll'.pc # "handle" BY <1>1, <1>4 DEF Waiting
      <3> QED BY <1>1, <2>1, <2>2, <3>1 DEF PollCounts
    <2> QED BY <2>6, <2>7, <2>8
  <1> QED BY <1>1, <1>9, <1>10 DEF PollInv

LEMMA PollMovesKeeps == PollInv /\ PollMoves => PollInv'
  <1> SUFFICES ASSUME PollInv, PollMoves PROVE PollInv'
    OBVIOUS
  <1>1. /\ PollTyped /\ poll.pc = "next" /\ poll # Waiting
        /\ UNCHANGED <<bot, nextId, backlog, handled, dropped, lives, switched>>
        /\ offset' = Upcoming + 1 /\ poll' = [poll EXCEPT !.pc = "handle"]
    BY DEF PollInv, PollMoves
  <1>2. /\ poll \in [pc : {"next", "handle"}, rest : (SUBSET Nat) \ {{}}, of : Bots]
        /\ Upcoming \in Nat /\ Upcoming \in poll.rest /\ \A k \in poll.rest : Upcoming <= k
    BY <1>1, OldestAtHand
  <1>3. /\ poll' \in [pc : {"next", "handle"}, rest : (SUBSET Nat) \ {{}}, of : Bots]
        /\ poll'.pc = "handle" /\ poll'.rest = poll.rest /\ poll'.of = poll.of /\ poll' # Waiting
    BY <1>1, <1>2
  <1>4. Upcoming' = Upcoming /\ Given' = Given BY <1>1, <1>3 DEF Upcoming
  <1>5. PollTyped' BY <1>1, <1>2, <1>3 DEF PollTyped
  <1>6. ASSUME ~switched PROVE PollKeeps' /\ PollDone' /\ PollCounts'
    <2>1. /\ PollKeeps /\ PollDone /\ PollCounts /\ Upcoming >= offset /\ offset \in Nat
      BY <1>1, <1>6 DEF PollInv, PollDone, PollTyped
    <2>2. PollKeeps'
      <3>1. Upcoming + 1 <= nextId[bot]
        <4>1. Upcoming < nextId[bot] /\ nextId[bot] \in Nat
          BY <1>1, <1>2, <2>1 DEF PollKeeps, PollTyped
        <4> QED BY <1>2, <4>1
      <3>2. ASSUME NEW u \in Given, NEW x \in poll.rest, u[2] >= Upcoming + 1, u[2] <= x
            PROVE  u[2] \in poll.rest \/ Done(u)
        <4>1. u[2] \in Int BY <1>1, <2>1, GivenByBot
        <4>2. u[2] >= offset BY <1>2, <2>1, <3>2, <4>1
        <4> QED BY <1>1, <2>1, <3>2, <4>2 DEF PollKeeps
      <3> QED BY <1>1, <1>3, <1>4, <2>1, <3>1, <3>2 DEF PollKeeps
    <2>3. PollDone'
      BY <1>1, <1>3, <1>4, <2>1 DEF PollDone
    <2>4. PollCounts'
      <3>1. ASSUME NEW u \in PollIds, u[1] = bot, u[2] >= Upcoming + 1 \/ u[2] = Upcoming
            PROVE  handled[u] <= lives
        <4>1. u[2] \in Int
          <5>1. PICK b \in Bots : \E id \in FirstId[b] .. FirstId[b] + MaxUpdates : u = <<b, id>>
            OBVIOUS
          <5> QED BY <5>1
        <4>2. u[2] >= offset BY <1>2, <2>1, <3>1, <4>1
        <4> QED BY <2>1, <3>1, <4>2 DEF PollCounts
      <3> QED BY <1>1, <1>3, <1>4, <2>1, <3>1 DEF PollCounts
    <2> QED BY <2>2, <2>3, <2>4
  <1> QED BY <1>1, <1>5, <1>6 DEF PollInv

\* An update that was at hand is done with, one way or the other.
LEMMA OntoKeeps ==
  ASSUME PollInv, poll.pc = "handle", Onto, handled' \in [PollIds -> Nat],
         UNCHANGED <<bot, nextId, backlog, offset, lives, switched>>,
         \A u \in PollIds : Done(u) \/ u = Current => Done(u)'
  PROVE  /\ PollTyped' /\ (~switched => PollKeeps' /\ PollDone')
         /\ poll'.pc # "handle"
  <1>1. /\ PollTyped /\ poll # Waiting BY DEF PollInv
  <1>2. /\ poll \in [pc : {"next", "handle"}, rest : (SUBSET Nat) \ {{}}, of : Bots]
        /\ Upcoming \in Nat /\ Upcoming \in poll.rest /\ \A k \in poll.rest : Upcoming <= k
        /\ Current = <<poll.of, Upcoming>>
    BY <1>1, OldestAtHand
  <1> DEFINE rest == poll.rest \ {Upcoming}
  <1>3. \/ poll' = Waiting /\ poll.rest = {Upcoming}
        \/ /\ poll' \in [pc : {"next", "handle"}, rest : (SUBSET Nat) \ {{}}, of : Bots]
           /\ poll'.pc = "next" /\ poll'.rest = rest /\ poll'.of = poll.of /\ poll' # Waiting
    BY <1>2 DEF Onto
  <1>4. PollTyped' BY <1>1, <1>3 DEF PollTyped
  <1>5. poll' # Waiting => Upcoming' \in rest /\ Upcoming' \in Nat /\ \A k \in rest : Upcoming' <= k
    BY <1>3, <1>4, OldestAtHand, LeastOf DEF Upcoming
  <1>6. ASSUME ~switched PROVE PollKeeps' /\ PollDone'
    <2>1. PollKeeps /\ PollDone /\ poll.of = bot /\ offset = Upcoming + 1 /\ Given' = Given
      BY <1>1, <1>6 DEF PollInv, PollKeeps, PollDone
    <2>2. \A u \in Given : u[2] < Upcoming \/ u[2] = Upcoming => Done(u)'
      BY <1>1, <1>2, <2>1, GivenByBot DEF PollDone
    <2>3. ASSUME poll' # Waiting, NEW u \in Given, NEW x \in rest, u[2] >= offset, u[2] <= x
          PROVE  u[2] \in rest \/ Done(u)'
      <3>1. u[2] \in Int BY <1>1, <2>1, GivenByBot
      <3>2. u[2] # Upcoming BY <1>2, <2>1, <2>3, <3>1
      <3> QED BY <2>1, <2>3, <3>2 DEF PollKeeps
    <2>4. PollKeeps'
      BY <1>3, <2>1, <2>3 DEF PollKeeps
    <2>5. ASSUME poll' = Waiting, NEW u \in Given, u[2] < offset PROVE Done(u)'
      <3>1. u[2] \in Int BY <1>1, <2>1, GivenByBot
      <3> QED BY <1>2, <2>1, <2>2, <2>5, <3>1
    <2>6. ASSUME poll' # Waiting, NEW u \in Given, u[2] < Upcoming' PROVE Done(u)'
      <3>1. u[2] \in Int BY <1>1, <2>1, GivenByBot
      <3>2. CASE u[2] >= offset
        <4>1. u[2] \notin rest BY <1>5, <2>6, <3>1
        <4>2. u[2] <= Upcoming' BY <1>5, <2>6, <3>1
        <4> QED BY <1>5, <2>3, <2>6, <3>2, <4>1, <4>2
      <3>3. CASE ~(u[2] >= offset)
        BY <1>2, <2>1, <2>2, <3>1, <3>3
      <3> QED BY <3>2, <3>3
    <2>7. poll' # Waiting => Upcoming' >= offset
      <3>1. ASSUME poll' # Waiting PROVE Upcoming' >= offset
        <4>1. Upcoming' \in poll.rest /\ Upcoming' # Upcoming /\ Upcoming' \in Nat
          BY <1>5, <3>1
        <4>2. Upcoming <= Upcoming' BY <1>2, <4>1
        <4>3. offset = Upcoming + 1 /\ Upcoming \in Nat BY <1>2, <2>1
        <4> DEFINE a == Upcoming
                   b == Upcoming'
        <4>4. a \in Nat /\ b \in Nat /\ a # b /\ a <= b /\ offset = a + 1
          BY <4>1, <4>2, <4>3
        <4> HIDE DEF a, b
        <4>5. b >= offset BY <4>4
        <4> QED BY <4>5 DEF b
      <3> QED BY <3>1
    <2>8. PollDone'
      <3>1. Given' = Given /\ offset' = offset BY <2>1
      <3>2. poll' = Waiting => \A u \in Given' : u[2] < offset' => Done(u)'
        BY <2>5, <3>1
      <3>3. poll' # Waiting => \A u \in Given' : u[2] < Upcoming' => Done(u)'
        BY <2>6, <3>1
      <3>4. poll'.pc # "handle" /\ (poll'.pc = "next" => poll' # Waiting)
        BY <1>3 DEF Waiting
      <3> QED BY <2>7, <3>1, <3>2, <3>3, <3>4 DEF PollDone
    <2> QED BY <2>4, <2>8
  <1> QED BY <1>3, <1>4, <1>6

LEMMA HandlesKeeps == PollInv /\ Handles => PollInv'
  <1> SUFFICES ASSUME PollInv, Handles PROVE PollInv'
    OBVIOUS
  <1>1. /\ PollTyped /\ poll.pc = "handle" /\ poll # Waiting /\ Onto
        /\ UNCHANGED <<bot, nextId, backlog, offset, dropped, lives, switched>>
        /\ handled' = [handled EXCEPT ![Current] = handled[Current] + 1]
    BY DEF PollInv, Handles
  <1>2. /\ handled' \in [PollIds -> Nat]
        /\ \A u \in PollIds : handled'[u] = IF u = Current THEN handled[u] + 1 ELSE handled[u]
    <2>1. handled \in [PollIds -> Nat] BY <1>1 DEF PollTyped
    <2> HIDE DEF PollIds
    <2>2. Current \in PollIds => handled[Current] + 1 \in Nat BY <2>1
    <2>3. handled' = [u \in PollIds |-> IF u = Current THEN handled[Current] + 1 ELSE handled[u]]
      BY <1>1, <2>1
    <2>4. \A u \in PollIds :
            handled'[u] = IF u = Current THEN handled[Current] + 1 ELSE handled[u]
      BY <2>3
    <2>5. \A u \in PollIds : handled'[u] \in Nat BY <2>1, <2>2, <2>4
    <2>6. handled' \in [PollIds -> Nat] BY <2>3, <2>5
    <2> QED BY <2>4, <2>6 DEF PollIds
  <1>3. \A u \in PollIds : handled[u] \in Nat BY <1>1 DEF PollTyped
  <1>4. \A u \in PollIds : Done(u) \/ u = Current => Done(u)'
    BY <1>1, <1>2, <1>3
  <1>5. /\ PollTyped' /\ (~switched => PollKeeps' /\ PollDone') /\ poll'.pc # "handle"
    BY <1>1, <1>2, <1>4, OntoKeeps
  <1>6. ASSUME ~switched PROVE PollCounts'
    <2>1. PollKeeps /\ PollDone /\ PollCounts /\ Given' = Given /\ offset = Upcoming + 1
      BY <1>1, <1>6 DEF PollInv, PollDone
    <2>2. /\ Current = <<bot, Upcoming>> /\ Upcoming \in Nat /\ Upcoming \in backlog[bot]
      BY <1>1, <2>1, OldestAtHand DEF PollKeeps
    <2>3. ASSUME NEW u \in PollIds
          PROVE  /\ u \notin Given => handled'[u] = 0
                 /\ handled'[u] <= 1 + lives
                 /\ u[1] = bot /\ u[2] >= offset => handled'[u] <= lives
      <3>1. CASE u = Current
        <4>1. u[1] = bot /\ u[2] = Upcoming /\ handled[u] <= lives
          BY <1>1, <2>1, <2>2, <3>1 DEF PollCounts
        <4>2. u \in Given
          BY <2>1, <2>2, <4>1 DEF PollKeeps
        <4>3. ~(u[2] >= offset) BY <2>1, <2>2, <4>1
        <4> QED BY <1>1, <1>2, <1>3, <3>1, <4>1, <4>2, <4>3 DEF PollTyped
      <3>2. CASE u # Current
        BY <1>2, <2>1, <3>2 DEF PollCounts
      <3> QED BY <3>1, <3>2
    <2> QED BY <1>1, <1>5, <2>1, <2>3 DEF PollCounts
  <1> QED BY <1>1, <1>5, <1>6 DEF PollInv

LEMMA HandlingFailsKeeps == PollInv /\ HandlingFails => PollInv'
  <1> SUFFICES ASSUME PollInv, HandlingFails PROVE PollInv'
    OBVIOUS
  <1>1. /\ poll.pc = "handle" /\ Onto /\ dropped' = dropped \cup {Current}
        /\ UNCHANGED <<bot, nextId, backlog, offset, handled, lives, switched>>
    BY DEF HandlingFails
  <1>2. handled' \in [PollIds -> Nat] BY <1>1 DEF PollInv, PollTyped
  <1>3. \A u \in PollIds : Done(u) \/ u = Current => Done(u)'
    BY <1>1
  <1>4. /\ PollTyped' /\ (~switched => PollKeeps' /\ PollDone') /\ poll'.pc # "handle"
    BY <1>1, <1>2, <1>3, OntoKeeps
  <1>5. ~switched => PollCounts'
    BY <1>1, <1>4 DEF PollInv, PollCounts
  <1> QED BY <1>1, <1>4, <1>5 DEF PollInv

LEMMA PollerRestartsKeeps == PollInv /\ PollerRestarts => PollInv'
  <1> SUFFICES ASSUME PollInv, PollerRestarts PROVE PollInv'
    OBVIOUS
  <1>1. /\ PollTyped /\ lives' = lives + 1 /\ poll' = Waiting /\ offset' = 0
        /\ UNCHANGED <<bot, nextId, backlog, dropped, switched>>
        /\ \/ handled' = handled
           \/ /\ poll.pc = "handle"
              /\ handled' = [handled EXCEPT ![Current] = handled[Current] + 1]
    BY DEF PollInv, PollerRestarts, CutOff
  <1>2. /\ handled' \in [PollIds -> Nat] /\ handled \in [PollIds -> Nat] /\ lives \in Nat
        /\ \A u \in PollIds : handled'[u] = handled[u]
             \/ (u = Current /\ poll.pc = "handle" /\ handled'[u] = handled[u] + 1)
    BY <1>1 DEF PollTyped
  <1>3. PollTyped' BY <1>1, <1>2 DEF PollTyped
  <1>4. ASSUME ~switched PROVE PollKeeps' /\ PollDone' /\ PollCounts'
    <2>1. PollKeeps /\ PollDone /\ PollCounts /\ Given' = Given
      BY <1>1, <1>4 DEF PollInv
    <2>2. \A u \in PollIds : Done(u) => Done(u)' BY <1>1, <1>2
    <2>3. nextId[bot] \in Nat BY <1>1 DEF PollTyped
    <2>4. PollKeeps'
      BY <1>1, <2>1, <2>2, <2>3 DEF PollKeeps
    <2>5. \A u \in Given : ~(u[2] < 0)
      <3>1. ASSUME NEW u \in Given PROVE ~(u[2] < 0)
        <4>1. PICK b \in Bots : \E id \in FirstId[b] .. FirstId[b] + MaxUpdates : u = <<b, id>>
          OBVIOUS
        <4>2. FirstId[b] \in Nat BY TelegramPollAssumption DEF Bots
        <4> QED BY <4>1, <4>2
      <3> QED BY <3>1
    <2>6. PollDone' BY <1>1, <2>1, <2>5 DEF PollDone
    <2>7. ASSUME NEW u \in PollIds
          PROVE  handled'[u] <= lives + 1 /\ (u \notin Given => handled'[u] = 0)
      <3>1. CASE handled'[u] = handled[u] BY <1>2, <2>1, <3>1 DEF PollCounts
      <3>2. CASE u = Current /\ poll.pc = "handle" /\ handled'[u] = handled[u] + 1
        <4>1. /\ u = <<bot, Upcoming>> /\ Upcoming \in backlog[bot]
          BY <1>1, <2>1, <3>2, OldestAtHand DEF PollKeeps
        <4>2. handled[u] <= lives /\ u \in Given
          BY <2>1, <3>2, <4>1 DEF PollCounts, PollKeeps
        <4> QED BY <1>2, <3>2, <4>2
      <3> QED BY <1>2, <3>1, <3>2
    <2>8. PollCounts'
      <3>1. \A u \in PollIds : handled'[u] <= 1 + (lives + 1) BY <1>2, <2>7
      <3> QED BY <1>1, <2>1, <2>7, <3>1 DEF PollCounts
    <2> QED BY <2>4, <2>6, <2>8
  <1> QED BY <1>1, <1>3, <1>4 DEF PollInv

LEMMA PollNext == PollInv /\ [PollStep]_pollVars => PollInv'
  <1> SUFFICES ASSUME PollInv, [PollStep]_pollVars PROVE PollInv'
    OBVIOUS
  <1>1. CASE UNCHANGED pollVars
    <2>1. Upcoming' = Upcoming BY <1>1 DEF pollVars, Upcoming
    <2> QED BY <1>1, <2>1 DEF pollVars, PollInv, PollTyped, PollKeeps, PollDone, PollCounts
  <1>2. CASE BotSaved
    BY <1>2 DEF BotSaved, PollInv, PollTyped
  <1> QED
    BY <1>1, <1>2, UpdateKeeps, PollFetchesKeeps, PollMovesKeeps, HandlesKeeps,
       HandlingFailsKeeps, PollerRestartsKeeps DEF PollStep

(* The offset is "only kept in memory; on restart we resume from           *)
(* Telegram's own backlog": no update is lost, and none handled more often *)
(* than there were lives, for any limit of an answer and any number of     *)
(* restarts, as long as the bot stays: telegram_client.py.                 *)
THEOREM AllUpdatesHandled == PollSpec => []UpdatesHandled
  <1>1. PollInv => UpdatesHandled
    <2> SUFFICES ASSUME PollInv, ~switched, NEW u \in Given
                 PROVE  /\ handled[u] > 0 \/ u \in dropped \/ u[2] \in backlog[u[1]]
                        /\ handled[u] <= 1 + lives
      BY DEF UpdatesHandled
    <2> QED BY DEF PollInv, PollKeeps, PollCounts
  <1> QED BY <1>1, PollStart, PollNext, PTL DEF PollSpec

----------------------------------------------------------------------------
(* Proofs: the client of Sophos Central                                    *)

USE DEF NoCall, Known

Session == [token : Known, tenant : Known, region : Known, fresh : BOOLEAN, resolved : BOOLEAN]

\* What a call can carry under an account while no save has met a login.
Proper(call, s, account) ==
    /\ call.pc \in {"login", "whoami"} => call.of = account
    /\ call.pc = "whoami" => s.token = account
    /\ call.pc = "sent" =>
         /\ \E a \in Accounts : {call.token, call.tenant, call.region} \subseteq {a, NoAccount}
         /\ call.first => call.token = call.of

Belongs(s, account) == {s.token, s.tenant, s.region} \subseteq {account, NoAccount}

LEMMA OneSessionIs ==
  OneSession <=> (~crossed => /\ Belongs(session, credentials)
                              /\ \A c \in SophosCalls : Proper(calls[c], session, credentials))
  BY DEF OneSession, Belongs, Proper

LEMMA BlankBelongs ==
  ASSUME preset \in BOOLEAN, NEW a \in Accounts
  PROVE  Blank(a) \in Session /\ Belongs(Blank(a), a)
  BY DEF Blank, Session, Belongs

\* A request under a session that belongs to an account.
LEMMA SentProper ==
  ASSUME NEW s \in Session, NEW account \in Accounts, NEW of \in Accounts
  PROVE  /\ Sent(of, s) \in SophosCall
         /\ [Sent(of, s) EXCEPT !.first = FALSE] \in SophosCall
         /\ Belongs(s, account) =>
              /\ s.token = of => Proper(Sent(of, s), s, account)
              /\ Proper([Sent(of, s) EXCEPT !.first = FALSE], s, account)
  BY DEF Session, Sent, SophosCall, Proper, Belongs

\* A step of one call, which may leave another session of the same account:
\* one that keeps the token that a call waits to identify.
LEMMA CallMoves ==
  ASSUME SophosInv, NEW c \in SophosCalls, NEW call \in SophosCall,
         calls' = [calls EXCEPT ![c] = call], session' \in Session,
         UNCHANGED <<credentials, preset, crossed>>,
         ~crossed => /\ Belongs(session', credentials)
                     /\ Proper(call, session', credentials)
                     /\ session'.token = session.token \/ session'.token = credentials
  PROVE  SophosInv'
  <1>1. SophosTyped BY DEF SophosInv
  <1>2. /\ calls' \in [SophosCalls -> SophosCall] /\ calls'[c] = call
        /\ \A d \in SophosCalls \ {c} : calls'[d] = calls[d]
    BY <1>1 DEF SophosTyped
  <1>3. SophosTyped' BY <1>1, <1>2 DEF SophosTyped, Session
  <1>4. ASSUME ~crossed, NEW d \in SophosCalls
        PROVE  Proper(calls'[d], session', credentials)
    <2>1. CASE d = c BY <1>2, <1>4, <2>1
    <2>2. CASE d # c
      <3>1. Proper(calls[d], session, credentials)
        BY <1>4, OneSessionIs DEF SophosInv
      <3> QED BY <1>2, <1>4, <2>2, <3>1 DEF Proper
    <2> QED BY <2>1, <2>2
  <1>5. OneSession' BY <1>4 DEF OneSession, Belongs, Proper
  <1> QED BY <1>3, <1>5 DEF SophosInv

LEMMA CallStepKeeps ==
  ASSUME SophosInv, NEW c \in SophosCalls, CallStep(c)
  PROVE  SophosInv'
  <1>1. /\ credentials \in Accounts /\ session \in Session /\ calls[c] \in SophosCall
        /\ preset \in BOOLEAN
    BY DEF SophosInv, SophosTyped, Session
  <1>2. ~crossed => Belongs(session, credentials) /\ Proper(calls[c], session, credentials)
    BY OneSessionIs DEF SophosInv
  <1>3. NoCall \in SophosCall /\ \A a, s : Proper(NoCall, s, a)
    BY DEF SophosCall, Proper
  <1>4. \A a \in Accounts : \A s :
          LoggingIn(a) \in SophosCall /\ Proper(LoggingIn(a), s, a)
    BY DEF LoggingIn, SophosCall, Proper
  <1>5. CASE CallStart(c)
    <2>1. UNCHANGED <<credentials, preset, session, crossed>> BY <1>5 DEF CallStart
    <2>2. CASE NeedsLogin
      BY <1>1, <1>2, <1>4, <1>5, <2>1, <2>2, CallMoves DEF CallStart
    <2>3. CASE ~NeedsLogin
      <3>1. calls' = [calls EXCEPT ![c] = Sent(credentials, session)]
        BY <1>5, <2>3 DEF CallStart
      <3>2. ~crossed => session.token = credentials
        BY <1>2, <2>3 DEF Belongs, NeedsLogin
      <3> QED BY <1>1, <1>2, <2>1, <3>1, <3>2, SentProper, CallMoves
    <2> QED BY <2>2, <2>3
  <1>6. CASE LoggedIn(c)
    <2>1. /\ UNCHANGED <<credentials, preset, crossed>> /\ calls[c].pc = "login"
          /\ session' = [session EXCEPT !.token = calls[c].of, !.fresh = TRUE]
          /\ calls' = [calls EXCEPT ![c] =
               IF session.resolved THEN Sent(calls[c].of, session')
               ELSE [calls[c] EXCEPT !.pc = "whoami"]]
      BY <1>6 DEF LoggedIn
    <2>2. calls[c].of \in Accounts BY <1>1, <2>1 DEF SophosCall
    <2>3. session' \in Session /\ session'.token = calls[c].of
      BY <1>1, <2>1, <2>2 DEF Session
    <2>4. ~crossed => calls[c].of = credentials /\ Belongs(session', credentials)
      BY <1>1, <1>2, <2>1 DEF Proper, Belongs, Session
    <2>5. CASE session.resolved
      <3>1. calls' = [calls EXCEPT ![c] = Sent(calls[c].of, session')] BY <2>1, <2>5
      <3> QED BY <1>1, <2>1, <2>2, <2>3, <2>4, <3>1, SentProper, CallMoves
    <2>6. CASE ~session.resolved
      <3> DEFINE call == [calls[c] EXCEPT !.pc = "whoami"]
      <3>1. calls' = [calls EXCEPT ![c] = call] BY <2>1, <2>6
      <3>2. call \in SophosCall /\ call.pc = "whoami" /\ call.of = calls[c].of
        BY <1>1, <2>1 DEF SophosCall
      <3> HIDE DEF call
      <3>3. ~crossed => Proper(call, session', credentials)
        BY <2>3, <2>4, <3>2 DEF Proper
      <3> QED BY <2>1, <2>3, <2>4, <3>1, <3>2, <3>3, CallMoves
    <2> QED BY <2>5, <2>6
  <1>7. CASE Identified(c)
    <2>1. /\ UNCHANGED <<credentials, preset, crossed>> /\ calls[c].pc = "whoami"
          /\ session' = [session EXCEPT
               !.tenant = IF session.tenant = NoAccount THEN calls[c].of ELSE session.tenant,
               !.region = calls[c].of, !.resolved = TRUE]
          /\ calls' = [calls EXCEPT ![c] = Sent(calls[c].of, session')]
      BY <1>7 DEF Identified
    <2>2. calls[c].of \in Accounts BY <1>1, <2>1 DEF SophosCall
    <2>3. session' \in Session /\ session'.token = session.token
      BY <1>1, <2>1, <2>2 DEF Session
    <2>4. ~crossed => /\ calls[c].of = credentials /\ session.token = credentials
                      /\ Belongs(session', credentials)
      BY <1>1, <1>2, <2>1 DEF Proper, Belongs, Session
    <2> QED BY <1>1, <2>1, <2>2, <2>3, <2>4, SentProper, CallMoves
  <1>8. CASE LoginFails(c) \/ ResourceAnswered(c)
    <2>1. UNCHANGED <<credentials, preset, session, crossed>>
          /\ calls' = [calls EXCEPT ![c] = NoCall]
      BY <1>8 DEF LoginFails, ResourceAnswered
    <2> QED BY <1>1, <1>2, <1>3, <2>1, CallMoves
  <1>9. CASE NextSearchPage(c)
    <2>1. /\ UNCHANGED <<credentials, preset, session, crossed>> /\ calls[c].pc = "sent"
          /\ calls' = [calls EXCEPT ![c] = [Sent(calls[c].of, session) EXCEPT !.first = FALSE]]
      BY <1>9 DEF NextSearchPage
    <2>2. calls[c].of \in Accounts BY <1>1, <2>1 DEF SophosCall
    <2> QED BY <1>1, <1>2, <2>1, <2>2, SentProper, CallMoves
  <1>10. CASE TestConnection(c)
    <2>1. /\ UNCHANGED <<credentials, preset>> /\ session' = Blank(credentials)
          /\ crossed' = (crossed \/ Crosses) /\ calls[c] = NoCall
          /\ calls' = [calls EXCEPT ![c] = LoggingIn(credentials)]
      BY <1>10 DEF TestConnection, Forgotten
    <2>2. /\ calls' \in [SophosCalls -> SophosCall] /\ calls'[c] = LoggingIn(credentials)
          /\ \A d \in SophosCalls \ {c} : calls'[d] = calls[d]
      BY <1>1, <1>4, <2>1 DEF SophosInv, SophosTyped
    <2>3. session' \in Session /\ Belongs(session', credentials)
      BY <1>1, <2>1, BlankBelongs
    <2>4. SophosTyped' BY <1>1, <2>1, <2>2, <2>3 DEF SophosInv, SophosTyped, Session
    <2>5. ASSUME ~crossed', NEW d \in SophosCalls
          PROVE  Proper(calls'[d], session', credentials)
      <3>1. ~crossed /\ ~Crosses BY <2>1, <2>5
      <3>2. CASE d = c BY <1>1, <1>4, <2>2, <3>2
      <3>3. CASE d # c
        <4>1. Proper(calls[d], session, credentials)
          BY <3>1, OneSessionIs DEF SophosInv
        <4> QED BY <2>2, <3>1, <3>3, <4>1 DEF Proper, Crosses
      <3> QED BY <3>2, <3>3
    <2>6. OneSession' BY <2>1, <2>3, <2>5 DEF OneSession, Belongs, Proper
    <2> QED BY <2>4, <2>6 DEF SophosInv
  <1> QED BY <1>5, <1>6, <1>7, <1>8, <1>9, <1>10 DEF CallStep

LEMMA SophosStart == SophosInit => SophosInv
  <1> SUFFICES ASSUME SophosInit PROVE SophosInv
    OBVIOUS
  <1>1. session \in Session /\ Belongs(session, credentials)
    BY BlankBelongs DEF SophosInit
  <1>2. SophosTyped BY <1>1 DEF SophosInit, SophosTyped, Session, SophosCall
  <1>3. OneSession BY <1>1 DEF SophosInit, OneSession, Belongs
  <1> QED BY <1>2, <1>3 DEF SophosInv

LEMMA SophosNext == SophosInv /\ [SophosStep]_sophosVars => SophosInv'
  <1> SUFFICES ASSUME SophosInv, [SophosStep]_sophosVars PROVE SophosInv'
    OBVIOUS
  <1>1. CASE UNCHANGED sophosVars
    BY <1>1 DEF sophosVars, SophosInv, SophosTyped, OneSession
  <1>2. CASE SettingsSaved
    <2>1. /\ credentials' \in Accounts /\ session' = Blank(credentials') /\ preset' = preset
          /\ crossed' = (crossed \/ Crosses) /\ calls' = calls /\ SophosTyped
      BY <1>2 DEF SettingsSaved, Forgotten, SophosInv
    <2>2. session' \in Session /\ Belongs(session', credentials')
      BY <2>1, BlankBelongs DEF SophosTyped
    <2>3. SophosTyped' BY <2>1, <2>2 DEF SophosTyped, Session
    <2>4. ASSUME ~crossed', NEW c \in SophosCalls
          PROVE  Proper(calls[c], session', credentials')
      <3>1. ~crossed /\ ~Crosses BY <2>1, <2>4
      <3>2. Proper(calls[c], session, credentials)
        BY <3>1, OneSessionIs DEF SophosInv
      <3> QED BY <3>1, <3>2 DEF Proper, Crosses
    <2>5. OneSession' BY <2>1, <2>2, <2>4 DEF OneSession, Belongs, Proper
    <2> QED BY <2>3, <2>5 DEF SophosInv
  <1>3. CASE TokenExpires
    <2>1. /\ UNCHANGED <<credentials, preset, calls, crossed>> /\ SophosTyped
          /\ session' = [session EXCEPT !.fresh = FALSE]
      BY <1>3 DEF TokenExpires, SophosInv
    <2>2. /\ session' \in Session /\ session'.token = session.token
          /\ session'.tenant = session.tenant /\ session'.region = session.region
      BY <2>1 DEF SophosTyped, Session
    <2>3. SophosTyped' BY <2>1, <2>2 DEF SophosTyped, Session
    <2>4. OneSession' BY <2>1, <2>2 DEF SophosInv, OneSession
    <2> QED BY <2>3, <2>4 DEF SophosInv
  <1> QED BY <1>1, <1>2, <1>3, CallStepKeeps DEF SophosStep

(* The token, the tenant and the region a request carries belong to one    *)
(* account, for any accounts, any number of calls at a time and any number *)
(* of saves that meet no login: sophos_client.py.                          *)
THEOREM RequestsOfOneAccount == SophosSpec => []OneAccount
  <1>1. SophosInv => OneAccount
    <2> SUFFICES ASSUME SophosInv, ~crossed, NEW c \in SophosCalls, calls[c].pc = "sent"
                 PROVE  LET named == {calls[c].token, calls[c].tenant, calls[c].region}
                                       \ {NoAccount}
                        IN Cardinality(named) <= 1 /\ (calls[c].first => calls[c].token = calls[c].of)
      BY DEF OneAccount
    <2> DEFINE named == {calls[c].token, calls[c].tenant, calls[c].region} \ {NoAccount}
    <2>1. PICK a \in Accounts :
            {calls[c].token, calls[c].tenant, calls[c].region} \subseteq {a, NoAccount}
      BY DEF SophosInv, OneSession
    <2>2. named \in SUBSET {a} BY <2>1
    <2> HIDE DEF named
    <2>3. Cardinality(named) <= Cardinality({a}) BY <2>2, FS_Singleton, FS_Subset
    <2>4. Cardinality(named) <= 1 BY <2>3, FS_Singleton
    <2>5. calls[c].first => calls[c].token = calls[c].of
      BY DEF SophosInv, OneSession
    <2> QED BY <2>4, <2>5 DEF named
  <1> QED BY <1>1, SophosStart, SophosNext, PTL DEF SophosSpec

----------------------------------------------------------------------------
(* Proofs: the watch over sign-ins                                         *)

USE DEF NoLook

LEMMA SignInsStart == SignInsInit => SignInsInv
  <1> SUFFICES ASSUME SignInsInit PROVE SignInsInv
    OBVIOUS
  <1>1. SignInsTyped BY DEF SignInsInit, SignInsTyped, LookTask
  <1>2. News2Ask /\ RevokeAskedOnce BY DEF SignInsInit, News2Ask, RevokeAskedOnce
  <1> QED BY <1>1, <1>2 DEF SignInsInv

\* What is new about each of several sign-ins does not overlap.
LEMMA NewsApart ==
  ASSUME SignInsTyped, NEW rows \in SUBSET DOMAIN logins, NEW order \in SetToSeqs(rows)
  PROVE  News(order, profiles) \in Seq(SUBSET Keys) /\ Apart(News(order, profiles))
  <1> DEFINE n == Cardinality(rows)
             shows(i) == logins[order[i]].shows
             new(i) == (shows(i) \ profiles) \ UNION {shows(j) : j \in 1 .. i - 1}
  <1>1. n \in Nat
    <2>1. DOMAIN logins = 1 .. Len(logins) /\ Len(logins) \in Nat
      BY DEF SignInsTyped
    <2>2. IsFiniteSet(1 .. Len(logins)) BY <2>1, FS_Interval
    <2> QED BY <2>1, <2>2, FS_Subset, FS_CardinalityType
  <1>2. order \in [1 .. n -> rows] /\ DOMAIN order = 1 .. n
    BY DEF SetToSeqs
  <1>3. News(order, profiles) = [i \in 1 .. n |-> new(i)]
    BY <1>2 DEF News
  <1>4. \A i \in 1 .. n : shows(i) \in SUBSET Keys
    <2>1. ASSUME NEW i \in 1 .. n PROVE shows(i) \in SUBSET Keys
      <3>1. order[i] \in DOMAIN logins BY <1>2
      <3>2. logins[order[i]] \in SignIn BY <3>1 DEF SignInsTyped
      <3> QED BY <3>2 DEF SignIn
    <2> QED BY <2>1
  <1>5. \A i \in 1 .. n : new(i) \in SUBSET Keys BY <1>4
  <1>6. ASSUME NEW i \in 1 .. n, NEW j \in 1 .. n, j < i PROVE new(i) \cap new(j) = {}
    <2>1. j \in 1 .. i - 1 BY <1>1, <1>6
    <2> HIDE DEF shows
    <2> QED BY <2>1
  <1> HIDE DEF new, n
  <1>7. News(order, profiles) \in Seq(SUBSET Keys)
    BY <1>1, <1>3, <1>5, SeqDef
  <1>8. ASSUME NEW i \in 1 .. n, NEW j \in 1 .. n, i # j PROVE new(i) \cap new(j) = {}
    <2>1. i < j \/ j < i BY <1>1, <1>8
    <2>2. CASE i < j
      <3>1. new(j) \cap new(i) = {} BY <1>6, <2>2
      <3> QED BY <3>1
    <2> QED BY <1>6, <2>1, <2>2
  <1>9. Apart(News(order, profiles))
    BY <1>3, <1>8 DEF Apart
  <1> QED BY <1>7, <1>9

\* A step of one pass changes its task only.
LEMMA LookMoves ==
  ASSUME SignInsTyped, NEW p \in Looks, NEW task \in LookTask,
         look' = [look EXCEPT ![p] = task]
  PROVE  /\ look' \in [Looks -> LookTask] /\ look'[p] = task
         /\ \A q \in Looks \ {p} : look'[q] = look[q]
  BY DEF SignInsTyped

\* A pass that does not come to ask, and does not learn, harms nothing.
LEMMA LookHarmless ==
  ASSUME SignInsInv, NEW p \in Looks, NEW task \in LookTask,
         look' = [look EXCEPT ![p] = task], task.pc # "ask",
         task.pc = "load" => task.rows \subseteq DOMAIN logins,
         task.pc = "learn" => Apart(task.news),
         UNCHANGED <<logins, profiles, seeds, asks, today>>
  PROVE  SignInsInv'
  <1>1. /\ look' \in [Looks -> LookTask] /\ look'[p] = task
        /\ \A q \in Looks \ {p} : look'[q] = look[q]
    BY LookMoves DEF SignInsInv
  <1>2. SignInsTyped' BY <1>1 DEF SignInsInv, SignInsTyped
  <1>3. News2Ask'
    <2>1. \A i \in DOMAIN asks : asks[i] \subseteq profiles /\ asks[i] \cap seeds = {}
      BY DEF SignInsInv, News2Ask
    <2>2. ASSUME NEW q \in Looks, look'[q].pc \in {"learn", "ask"} PROVE Apart(look'[q].news)
      BY <1>1, <2>2 DEF SignInsInv, News2Ask
    <2>3. ASSUME NEW q \in Looks, look'[q].pc = "ask"
          PROVE  q # p /\ look'[q] = look[q] /\ look[q].pc = "ask"
      BY <1>1, <2>3
    <2> QED BY <2>1, <2>2, <2>3 DEF SignInsInv, News2Ask
  <1>4. RevokeAskedOnce' BY DEF SignInsInv, RevokeAskedOnce
  <1> QED BY <1>2, <1>3, <1>4 DEF SignInsInv

LEMMA LookStartKeeps ==
  ASSUME SignInsInv, NEW p \in Looks, LookStart(p)
  PROVE  SignInsInv'
  <1> DEFINE rows == {i \in DOMAIN logins : profiles = {} \/ logins[i].at >= today - WatchBack}
             task == [pc |-> "load", seeded |-> profiles # {}, rows |-> rows]
  <1>1. look' = [look EXCEPT ![p] = task] /\ UNCHANGED <<logins, profiles, seeds, asks, today>>
    BY DEF LookStart
  <1>2. rows \subseteq DOMAIN logins /\ DOMAIN logins \subseteq Nat
    BY DEF SignInsInv, SignInsTyped
  <1> HIDE DEF rows
  <1>3. task \in LookTask /\ task.pc = "load" /\ task.rows = rows
    BY <1>2 DEF LookTask
  <1> HIDE DEF task
  <1> QED BY <1>1, <1>2, <1>3, LookHarmless

LEMMA LookLoadKeeps ==
  ASSUME SignInsInv, NEW p \in Looks, LookLoad(p)
  PROVE  SignInsInv'
  <1>1. look[p].pc = "load" /\ UNCHANGED <<logins, profiles, seeds, asks, today>>
    BY DEF LookLoad
  <1>2. PICK order \in SetToSeqs(look[p].rows) :
          look' = [look EXCEPT ![p] =
            [pc |-> "learn", seeded |-> look[p].seeded, news |-> News(order, profiles)]]
    BY DEF LookLoad
  <1> DEFINE news == News(order, profiles)
             task == [pc |-> "learn", seeded |-> look[p].seeded, news |-> news]
  <1>3. look[p] \in LookTask /\ look[p].rows \in SUBSET DOMAIN logins /\ SignInsTyped
    BY <1>1 DEF SignInsInv, SignInsTyped
  <1>4. news \in Seq(SUBSET Keys) /\ Apart(news)
    BY <1>2, <1>3, NewsApart
  <1> HIDE DEF news
  <1>5. task \in LookTask /\ task.pc = "learn" /\ task.news = news
    BY <1>1, <1>3, <1>4 DEF LookTask
  <1>6. look' = [look EXCEPT ![p] = task] BY <1>2 DEF news
  <1> HIDE DEF task
  <1> QED BY <1>1, <1>4, <1>5, <1>6, LookHarmless

LEMMA LearnKeeps ==
  ASSUME SignInsInv, NEW p \in Looks, Learn(p)
  PROVE  SignInsInv'
  <1> DEFINE news == look[p].news
             asking == look[p].seeded /\ Learned(p) # {}
             task == IF asking THEN [pc |-> "ask", news |-> news] ELSE NoLook
  <1>1. /\ look[p].pc = "learn" /\ Learned(p) \cap profiles = {}
        /\ profiles' = profiles \cup Learned(p)
        /\ seeds' = IF look[p].seeded THEN seeds ELSE seeds \cup Learned(p)
        /\ look' = [look EXCEPT ![p] = task]
        /\ UNCHANGED <<logins, asks, today>>
    BY DEF Learn
  <1>2. SignInsTyped /\ News2Ask /\ RevokeAskedOnce BY DEF SignInsInv
  <1>3. look[p] \in [pc : {"learn"}, seeded : BOOLEAN, news : Seq(SUBSET Keys)]
    BY <1>1, <1>2 DEF SignInsTyped, LookTask
  <1>4. news \in Seq(SUBSET Keys) /\ Apart(news) BY <1>1, <1>2, <1>3 DEF News2Ask
  <1>5. /\ \A i \in DOMAIN news : news[i] \subseteq Learned(p) /\ news[i] \subseteq Keys
        /\ Learned(p) \subseteq Keys
    BY <1>4 DEF Learned, Range
  <1>6. task \in LookTask BY <1>4 DEF LookTask
  <1>7. /\ task.pc = "ask" => task.news = news /\ look[p].seeded
        /\ task.pc \in {"ask", "idle"}
    OBVIOUS
  <1> HIDE DEF task, asking, news
  <1>8. /\ look' \in [Looks -> LookTask] /\ look'[p] = task
        /\ \A q \in Looks \ {p} : look'[q] = look[q]
    BY <1>1, <1>2, <1>6, LookMoves
  <1>9. /\ \A i \in DOMAIN asks : asks[i] \subseteq profiles /\ asks[i] \cap seeds = {}
        /\ \A q \in Looks : look[q].pc = "ask" => \A i \in DOMAIN look[q].news :
             look[q].news[i] \subseteq profiles \ seeds
        /\ seeds \subseteq profiles
    BY <1>2 DEF News2Ask, SignInsTyped
  <1>10. SignInsTyped'
    BY <1>1, <1>2, <1>5, <1>7, <1>8 DEF SignInsTyped
  <1>11. \A i \in DOMAIN asks : asks[i] \subseteq profiles' /\ asks[i] \cap seeds' = {}
    BY <1>1, <1>9
  <1>12. ASSUME NEW q \in Looks, look'[q].pc \in {"learn", "ask"} PROVE Apart(look'[q].news)
    BY <1>2, <1>4, <1>7, <1>8, <1>12 DEF News2Ask
  <1>13. ASSUME NEW q \in Looks \ {p}, look'[q].pc = "ask", NEW i \in DOMAIN look'[q].news
         PROVE  /\ look[q].pc = "ask" /\ look'[q] = look[q]
                /\ look[q].news[i] \subseteq profiles \ seeds
                /\ look[q].news[i] \subseteq profiles' \ seeds'
                /\ look[q].news[i] \cap Learned(p) = {}
                /\ \A k \in DOMAIN asks : look[q].news[i] \cap asks[k] = {}
    BY <1>1, <1>2, <1>8, <1>9, <1>13 DEF News2Ask
  <1>14. ASSUME task.pc = "ask", NEW i \in DOMAIN news
         PROVE  /\ news[i] \subseteq profiles' \ seeds'
                /\ \A k \in DOMAIN asks : news[i] \cap asks[k] = {}
    BY <1>1, <1>5, <1>7, <1>9, <1>14
  <1>15. ASSUME NEW q \in Looks, look'[q].pc = "ask", NEW i \in DOMAIN look'[q].news
         PROVE  /\ look'[q].news[i] \subseteq profiles' \ seeds'
                /\ \A k \in DOMAIN asks : look'[q].news[i] \cap asks[k] = {}
    BY <1>7, <1>8, <1>13, <1>14, <1>15
  <1>16. ASSUME NEW q \in Looks, look'[q].pc = "ask", NEW i \in DOMAIN look'[q].news,
                NEW r \in Looks \ {q}, look'[r].pc = "ask", NEW j \in DOMAIN look'[r].news
         PROVE  look'[q].news[i] \cap look'[r].news[j] = {}
    <2>1. CASE q = p
      <3>1. look[r].news[j] \cap Learned(p) = {} /\ look'[r] = look[r]
        BY <1>13, <1>16, <2>1
      <3>2. look'[q].news[i] \subseteq Learned(p) BY <1>5, <1>7, <1>8, <1>16, <2>1
      <3> QED BY <3>1, <3>2
    <2>2. CASE r = p
      <3>1. look[q].news[i] \cap Learned(p) = {} /\ look'[q] = look[q]
        BY <1>13, <1>16, <2>2
      <3>2. look'[r].news[j] \subseteq Learned(p) BY <1>5, <1>7, <1>8, <1>16, <2>2
      <3> QED BY <3>1, <3>2
    <2>3. CASE q # p /\ r # p
      BY <1>2, <1>8, <1>16, <2>3 DEF News2Ask
    <2> QED BY <2>1, <2>2, <2>3
  <1>17. News2Ask'
    BY <1>1, <1>11, <1>12, <1>15, <1>16 DEF News2Ask
  <1>18. RevokeAskedOnce'
    BY <1>1, <1>2, <1>11 DEF RevokeAskedOnce
  <1> QED BY <1>10, <1>17, <1>18 DEF SignInsInv

LEMMA AskKeeps ==
  ASSUME SignInsInv, NEW p \in Looks, Ask(p)
  PROVE  SignInsInv'
  <1>1. look[p].pc = "ask" /\ UNCHANGED <<logins, profiles, seeds, today>>
    BY DEF Ask, Asking
  <1>2. PICK n \in Unasked(p) :
          /\ asks' \in {Append(asks, look[p].news[n]), asks}
          /\ look' = [look EXCEPT ![p] =
               IF Unasked(p) = {n} THEN NoLook ELSE [look[p] EXCEPT !.news[n] = {}]]
    BY DEF Ask
  <1> DEFINE news == look[p].news
             rest == [news EXCEPT ![n] = {}]
             asked == [look[p] EXCEPT !.news[n] = {}]
             task == IF Unasked(p) = {n} THEN NoLook ELSE asked
  <1>3. SignInsTyped /\ News2Ask /\ RevokeAskedOnce BY DEF SignInsInv
  <1>4. look[p] \in [pc : {"ask"}, news : Seq(SUBSET Keys)]
    BY <1>1, <1>3 DEF SignInsTyped, LookTask
  <1>5. n \in DOMAIN news /\ news \in Seq(SUBSET Keys) /\ Apart(news)
    BY <1>1, <1>2, <1>3, <1>4 DEF Unasked, News2Ask
  <1>6. /\ rest \in Seq(SUBSET Keys) /\ DOMAIN rest = DOMAIN news
        /\ rest[n] = {} /\ \A i \in DOMAIN news \ {n} : rest[i] = news[i]
    BY <1>5
  <1>7. look' = [look EXCEPT ![p] = task]
    BY <1>2
  <1>8. asked \in [pc : {"ask"}, news : Seq(SUBSET Keys)] /\ asked.news = rest
    BY <1>4, <1>6
  <1>9. task \in LookTask /\ task.pc \in {"idle", "ask"} /\ (task.pc = "ask" => task.news = rest)
    <2> HIDE DEF asked
    <2> QED BY <1>8 DEF LookTask
  <1> DEFINE new == news[n]
  <1>10. \A i \in DOMAIN rest : rest[i] \subseteq news[i] /\ rest[i] \cap new = {}
    BY <1>5, <1>6 DEF Apart
  <1>11. Apart(rest) BY <1>5, <1>10, <1>6 DEF Apart
  <1>12. /\ new \in SUBSET Keys /\ new \subseteq profiles /\ new \cap seeds = {}
         /\ \A k \in DOMAIN asks : new \cap asks[k] = {}
         /\ \A q \in Looks \ {p} : look[q].pc = "ask" =>
              \A j \in DOMAIN look[q].news : new \cap look[q].news[j] = {}
    BY <1>1, <1>3, <1>5 DEF News2Ask
  <1> HIDE DEF task, rest
  <1>13. /\ look' \in [Looks -> LookTask] /\ look'[p] = task
         /\ \A q \in Looks \ {p} : look'[q] = look[q]
    BY <1>3, <1>7, <1>9, LookMoves
  <1>14. /\ asks' \in Seq(SUBSET Keys)
         /\ \A k \in DOMAIN asks' : \/ k \in DOMAIN asks /\ asks'[k] = asks[k]
                                    \/ asks'[k] = new /\ DOMAIN asks = 1 .. k - 1
         /\ \A k \in DOMAIN asks' : \A l \in 1 .. k - 1 : l \in DOMAIN asks /\ asks'[l] = asks[l]
    <2>1. CASE asks' = asks
      BY <1>3, <2>1 DEF SignInsTyped
    <2>2. CASE asks' = Append(asks, new)
      BY <1>3, <1>12, <2>2 DEF SignInsTyped
    <2> QED BY <1>2, <2>1, <2>2
  <1> HIDE DEF new, news
  <1>15. SignInsTyped'
    BY <1>1, <1>3, <1>9, <1>13, <1>14 DEF SignInsTyped
  <1>16. \A k \in DOMAIN asks' : asks'[k] \subseteq profiles /\ asks'[k] \cap seeds = {}
    BY <1>3, <1>12, <1>14 DEF News2Ask
  <1>17. ASSUME NEW q \in Looks, look'[q].pc = "ask", NEW i \in DOMAIN look'[q].news
         PROVE  /\ look[q].pc = "ask" /\ i \in DOMAIN look[q].news
                /\ look'[q].news[i] \subseteq look[q].news[i]
                /\ look'[q].news[i] \cap new = {}
    <2>1. CASE q = p
      BY <1>1, <1>6, <1>9, <1>10, <1>13, <1>17, <2>1 DEF news
    <2>2. CASE q # p
      BY <1>12, <1>13, <1>17, <2>2
    <2> QED BY <2>1, <2>2
  <1>18. ASSUME NEW q \in Looks, look'[q].pc \in {"learn", "ask"} PROVE Apart(look'[q].news)
    BY <1>3, <1>9, <1>11, <1>13, <1>18 DEF News2Ask
  <1>19. ASSUME NEW q \in Looks, look'[q].pc = "ask", NEW i \in DOMAIN look'[q].news
         PROVE  /\ look'[q].news[i] \subseteq profiles \ seeds
                /\ \A k \in DOMAIN asks' : look'[q].news[i] \cap asks'[k] = {}
    <2>1. look[q].news[i] \subseteq profiles \ seeds BY <1>3, <1>17, <1>19 DEF News2Ask
    <2>2. \A k \in DOMAIN asks : look[q].news[i] \cap asks[k] = {}
      BY <1>3, <1>17, <1>19 DEF News2Ask
    <2> QED BY <1>14, <1>17, <1>19, <2>1, <2>2
  <1>20. ASSUME NEW q \in Looks, look'[q].pc = "ask", NEW i \in DOMAIN look'[q].news,
                NEW r \in Looks \ {q}, look'[r].pc = "ask", NEW j \in DOMAIN look'[r].news
         PROVE  look'[q].news[i] \cap look'[r].news[j] = {}
    <2>1. look[q].news[i] \cap look[r].news[j] = {}
      BY <1>3, <1>17, <1>20 DEF News2Ask
    <2> QED BY <1>17, <1>20, <2>1
  <1>21. News2Ask'
    BY <1>1, <1>16, <1>18, <1>19, <1>20 DEF News2Ask
  <1>22. RevokeAskedOnce'
    <2>1. ASSUME NEW k \in DOMAIN asks', NEW l \in 1 .. k - 1 PROVE asks'[k] \cap asks'[l] = {}
      <3>1. l \in DOMAIN asks /\ asks'[l] = asks[l] BY <1>14, <2>1
      <3>2. CASE asks'[k] = new BY <1>12, <3>1, <3>2
      <3>3. CASE k \in DOMAIN asks /\ asks'[k] = asks[k]
        BY <1>3, <2>1, <3>1, <3>3 DEF RevokeAskedOnce
      <3> QED BY <1>14, <2>1, <3>2, <3>3
    <2> QED BY <1>1, <1>16, <2>1 DEF RevokeAskedOnce
  <1> QED BY <1>15, <1>21, <1>22 DEF SignInsInv

LEMMA SignInsNext == SignInsInv /\ [SignInStep]_signInVars => SignInsInv'
  <1> SUFFICES ASSUME SignInsInv, [SignInStep]_signInVars PROVE SignInsInv'
    OBVIOUS
  <1>1. CASE UNCHANGED signInVars
    BY <1>1 DEF signInVars, SignInsInv, SignInsTyped, News2Ask, RevokeAskedOnce
  <1>2. NoLook \in LookTask BY DEF LookTask
  <1>3. ASSUME NEW p \in Looks, LearnConflict(p) PROVE SignInsInv'
    BY <1>2, <1>3, LookHarmless DEF LearnConflict
  <1>4. CASE SignedIn
    <2>1. PICK shows \in (SUBSET Keys) \ {{}} :
            logins' = Append(logins, [shows |-> shows, at |-> today])
      BY <1>4 DEF SignedIn
    <2>2. UNCHANGED <<profiles, seeds, asks, look, looks, today>> BY <1>4 DEF SignedIn
    <2>3. logins' \in Seq(SignIn) /\ DOMAIN logins \subseteq DOMAIN logins'
      BY <2>1 DEF SignInsInv, SignInsTyped, SignIn
    <2>4. SignInsTyped' BY <2>2, <2>3 DEF SignInsInv, SignInsTyped
    <2> QED BY <2>2, <2>4 DEF SignInsInv, News2Ask, RevokeAskedOnce
  <1>5. CASE LooksDie
    <2>1. /\ look' = [p \in Looks |-> NoLook] /\ UNCHANGED <<logins, profiles, seeds, asks, today>>
      BY <1>5 DEF LooksDie
    <2>2. \A p \in Looks : look'[p].pc = "idle" BY <2>1
    <2>3. SignInsTyped' BY <1>2, <2>1, <2>2 DEF SignInsInv, SignInsTyped
    <2> QED BY <2>1, <2>2, <2>3 DEF SignInsInv, News2Ask, RevokeAskedOnce
  <1>6. CASE SignInTick
    BY <1>6 DEF SignInTick, SignInsInv, SignInsTyped, News2Ask, RevokeAskedOnce
  <1> QED
    BY <1>1, <1>3, <1>4, <1>5, <1>6, LookStartKeeps, LookLoadKeeps, LearnKeeps, AskKeeps
    DEF SignInStep, LookStep

(* "Known pairs never re-alert": no device and no location is in two       *)
(* decisions to revoke, and none learned silently in any, for any sign-ins *)
(* and any number of overlapping passes and restarts: m365_watch.py.       *)
THEOREM RevokesAskedOnce == SignInSpec => []RevokeAskedOnce
  <1>1. SignInsInv => RevokeAskedOnce BY DEF SignInsInv
  <1> QED BY <1>1, SignInsStart, SignInsNext, PTL DEF SignInSpec

----------------------------------------------------------------------------
(* Proofs: the honeypots                                                   *)

USE DEF Quiet

(* A report that is not read or sent announces nothing, and one that is    *)
(* not read holds no rows.                                                 *)
LEMMA TaskParts ==
    ASSUME HoneypotTyped, NEW w \in Ingests
    PROVE  /\ DueOf(w) \in Seq(PodAlert)
           /\ RowsOf(w) \in Seq(PodRow)
           /\ ingest[w].pc = "load" => ingest[w].batch \in Seq(Hit)
           /\ ingest[w].pc = "read" =>
                /\ ingest[w].batch \in Seq(Hit) /\ ingest[w].spared \in BOOLEAN
                /\ DueOf(w) = ingest[w].due /\ RowsOf(w) = ingest[w].rows
           /\ ingest[w].pc = "send" =>
                DueOf(w) = ingest[w].due /\ ingest[w].due # <<>> /\ ingest[w].sent \in Nat
           /\ ingest[w].pc \in {"idle", "load", "read", "send"}
  <1>1. ingest[w] \in IngestTask
    BY DEF HoneypotTyped
  <1>2. CASE ingest[w] \in {Quiet} \cup [pc : {"load"}, batch : Seq(Hit)]
    BY <1>2 DEF DueOf, RowsOf
  <1>3. CASE ingest[w] \in [pc : {"read"}, batch : Seq(Hit), spared : BOOLEAN,
                            rows : Seq(PodRow), due : Seq(PodAlert)]
    BY <1>3 DEF DueOf, RowsOf
  <1>4. CASE ingest[w] \in [pc : {"send"}, due : Seq(PodAlert), sent : Nat]
    <2>1. ingest[w].pc = "send" => ingest[w].due # <<>>
      BY DEF HoneypotTyped
    <2> QED
      BY <1>4, <2>1 DEF DueOf, RowsOf
  <1> QED
    BY <1>1, <1>2, <1>3, <1>4 DEF IngestTask

AnnouncedOf ==
    \A a : a \in Announced <=>
             \/ \E i \in DOMAIN alerted : a = alerted[i]
             \/ \E w \in Ingests : \E i \in DOMAIN DueOf(w) : a = DueOf(w)[i]

LEMMA AnnouncedNow == AnnouncedOf
  <1> SUFFICES ASSUME NEW a
      PROVE  a \in Announced <=>
               \/ \E i \in DOMAIN alerted : a = alerted[i]
               \/ \E w \in Ingests : \E i \in DOMAIN DueOf(w) : a = DueOf(w)[i]
    BY DEF AnnouncedOf
  <1> DEFINE under(w) == IF ingest[w].pc \in {"read", "send"}
                         THEN {ingest[w].due[i] : i \in DOMAIN ingest[w].due} ELSE {}
  <1>1. ASSUME NEW w \in Ingests
        PROVE  a \in under(w) <=> \E i \in DOMAIN DueOf(w) : a = DueOf(w)[i]
    <2>1. CASE ingest[w].pc \in {"read", "send"}
      BY <2>1 DEF DueOf
    <2>2. CASE ingest[w].pc \notin {"read", "send"}
      BY <2>2 DEF DueOf
    <2> QED
      BY <2>1, <2>2
  <1>2. a \in Announced <=>
          (\E i \in DOMAIN alerted : a = alerted[i]) \/ \E w \in Ingests : a \in under(w)
    BY DEF Announced
  <1> QED
    BY <1>1, <1>2

LEMMA AnnouncedIs == AnnouncedOf /\ AnnouncedOf'
  BY AnnouncedNow, PTL

LEMMA AnnouncedTyped == HoneypotTyped => Announced \subseteq PodAlert
  <1> SUFFICES ASSUME HoneypotTyped, NEW a \in Announced
               PROVE  a \in PodAlert
    OBVIOUS
  <1>1. CASE \E i \in DOMAIN alerted : a = alerted[i]
    BY <1>1 DEF HoneypotTyped
  <1>2. CASE \E w \in Ingests : \E i \in DOMAIN DueOf(w) : a = DueOf(w)[i]
    BY <1>2, TaskParts
  <1> QED
    BY <1>1, <1>2, AnnouncedIs DEF AnnouncedOf

LEMMA HoneypotStart == HoneypotInit => HoneypotInv
  <1> SUFFICES ASSUME HoneypotInit
               PROVE  HoneypotInv
    OBVIOUS
  <1> USE DEF HoneypotInit, PodInit
  <1>1. HoneypotTyped
    <2>1. [x \in Idents |-> 0] \in [Idents -> Nat] /\ ingest \in [Ingests -> IngestTask]
      BY DEF IngestTask
    <2>2. \A w \in Ingests : ingest[w].pc = "idle"
      OBVIOUS
    <2>3. queue \in Seq(Hit) /\ stored \in Seq(PodRow) /\ alerted \in Seq(PodAlert)
      OBVIOUS
    <2>4. report = Quiet /\ keys \in [Idents -> Nat] /\ time \in Nat
      BY <2>1
    <2>5. failed \in BOOLEAN /\ cleared \in BOOLEAN /\ listed \in BOOLEAN
      OBVIOUS
    <2> QED
      BY <2>1, <2>2, <2>3, <2>4, <2>5 DEF HoneypotTyped
  <1>2. \A w \in Ingests : DueOf(w) = <<>> /\ RowsOf(w) = <<>>
    BY DEF DueOf, RowsOf
  <1>3. Announced = {}
    BY <1>2, AnnouncedIs DEF AnnouncedOf
  <1>4. KeysMute
    BY <1>2, <1>3 DEF KeysMute
  <1>5. RowsCovered
    BY <1>2, <1>3 DEF RowsCovered, Backed, Covered
  <1> QED
    BY <1>1, <1>4, <1>5 DEF HoneypotInv

(* Whatever is covered stays covered when more is announced.               *)
LEMMA CoveredStays ==
    ASSUME NEW A, NEW B, A \subseteq B, NEW rows, NEW ks, NEW now
    PROVE  /\ Covered(rows, A) => Covered(rows, B)
           /\ Backed(ks, now, A) => Backed(ks, now, B)
  BY DEF Covered, Backed

(* What one report goes on to is all that changes of the reports.          *)
LEMMA IngestMoves ==
    ASSUME HoneypotTyped, NEW w \in Ingests, NEW task \in IngestTask,
           task.pc = "send" => task.due # <<>>, ingest' = [ingest EXCEPT ![w] = task]
    PROVE  /\ ingest' \in [Ingests -> IngestTask]
           /\ \A v \in Ingests : ingest'[v].pc = "send" => ingest'[v].due # <<>>
           /\ \A v \in Ingests \ {w} : DueOf(v)' = DueOf(v) /\ RowsOf(v)' = RowsOf(v)
           /\ DueOf(w)' = IF task.pc \in {"read", "send"} THEN task.due ELSE <<>>
           /\ RowsOf(w)' = IF task.pc = "read" THEN task.rows ELSE <<>>
  <1>1. ingest \in [Ingests -> IngestTask]
    BY DEF HoneypotTyped
  <1>2. ingest'[w] = task /\ \A v \in Ingests \ {w} : ingest'[v] = ingest[v]
    BY <1>1
  <1>3. \A v \in Ingests : ingest'[v].pc = "send" => ingest'[v].due # <<>>
    BY <1>2 DEF HoneypotTyped
  <1> QED
    BY <1>1, <1>2, <1>3 DEF DueOf, RowsOf

(* As long as what is announced stays, so does what it covers.             *)
LEMMA AnnouncedStays ==
    ASSUME alerted' = alerted, \A v \in Ingests : DueOf(v)' = DueOf(v)
    PROVE  Announced' = Announced
  <1> SUFFICES ASSUME NEW a
               PROVE  a \in Announced' <=> a \in Announced
    OBVIOUS
  <1> QED
    BY AnnouncedIs DEF AnnouncedOf

LEMMA LessIsMute ==
    ASSUME KeysMute, alerted' = alerted, keys' = keys, cleared' = cleared,
           \A v \in Ingests : DueOf(v)' = DueOf(v) \/ DueOf(v)' = <<>>
    PROVE  KeysMute'
  <1>1. Announced' \subseteq Announced
    <2> SUFFICES ASSUME NEW a, a \in Announced'
                 PROVE  a \in Announced
      OBVIOUS
    <2> QED
      BY AnnouncedIs DEF AnnouncedOf
  <1> SUFFICES ASSUME ~cleared
               PROVE  KeysMute'
    BY DEF KeysMute
  <1>2. \A w \in Ingests : \A i, j \in DOMAIN DueOf(w)' :
          i # j => Spaced(DueOf(w)'[i], DueOf(w)'[j])
    BY DEF KeysMute
  <1>3. \A w \in Ingests : \A i \in DOMAIN DueOf(w)', j \in DOMAIN alerted :
          Spaced(DueOf(w)'[i], alerted[j]) /\ Spaced(alerted[j], DueOf(w)'[i])
    BY DEF KeysMute
  <1>4. \A w \in Ingests : \A v \in Ingests \ {w} :
          \A i \in DOMAIN DueOf(w)', j \in DOMAIN DueOf(v)' : Spaced(DueOf(w)'[i], DueOf(v)'[j])
    BY DEF KeysMute
  <1>5. \A a \in Announced' : a.at + MuteFor <= keys[a.ident]
    BY <1>1 DEF KeysMute
  <1>6. \A i, j \in DOMAIN alerted : i # j => Spaced(alerted[i], alerted[j])
    BY DEF KeysMute
  <1> QED
    BY <1>2, <1>3, <1>4, <1>5, <1>6 DEF KeysMute, Spaced

(* A step that announces and forgets nothing.                              *)
Calm ==
    /\ alerted' = alerted /\ keys' = keys /\ cleared' = cleared /\ failed' = failed
    /\ time' \in Nat /\ time' >= time
    /\ \A v \in Ingests : DueOf(v)' = DueOf(v)

LEMMA CalmKeeps ==
    ASSUME HoneypotInv, Calm
    PROVE  /\ KeysMute' /\ Announced' = Announced
           /\ ~failed => Backed(keys', time', Announced')
  <1>1. KeysMute' /\ Announced' = Announced
    BY LessIsMute, AnnouncedStays DEF Calm, HoneypotInv
  <1>2. ASSUME ~failed
        PROVE  Backed(keys', time', Announced')
    <2> SUFFICES ASSUME NEW x \in Idents, keys[x] > time'
                 PROVE  \E a \in Announced : a.ident = x /\ a.at <= time' /\ keys[x] <= a.at + MuteFor
      BY <1>1 DEF Backed, Calm
    <2>1. keys[x] \in Nat /\ time \in Nat /\ time' \in Nat /\ time' >= time
      BY DEF Calm, HoneypotInv, HoneypotTyped
    <2>2. Backed(keys, time, Announced)
      BY <1>2 DEF HoneypotInv, RowsCovered
    <2>3. PICK a \in Announced : a.ident = x /\ a.at <= time /\ keys[x] <= a.at + MuteFor
      BY <2>1, <2>2 DEF Backed
    <2>4. a.at \in Nat
      BY AnnouncedTyped DEF HoneypotInv, PodAlert
    <2> QED
      BY <2>1, <2>3, <2>4
  <1> QED
    BY <1>1, <1>2

LEMMA CalmCovers ==
    ASSUME HoneypotInv, Calm, HoneypotTyped',
           ~failed => Covered(stored', Announced),
           ~failed => \A v \in Ingests : Covered(RowsOf(v)', Announced)
    PROVE  HoneypotInv'
  <1>1. KeysMute' /\ Announced' = Announced /\ (~failed => Backed(keys', time', Announced'))
    BY CalmKeeps
  <1>2. RowsCovered'
    BY <1>1 DEF RowsCovered, Calm
  <1> QED
    BY <1>1, <1>2 DEF HoneypotInv

(* The pod itself, the whitelist, the removal of a pod and the clock.      *)
LEMMA PodStepKeeps == HoneypotInv /\ PodStep /\ UNCHANGED alertVars => HoneypotInv'
  <1> SUFFICES ASSUME HoneypotInv, PodStep, UNCHANGED alertVars
               PROVE  HoneypotInv'
    OBVIOUS
  <1>1. /\ stored' = stored /\ keys' = keys /\ alerted' = alerted /\ ingest' = ingest
        /\ failed' = failed /\ cleared' = cleared /\ listed' = listed /\ time' = time
        /\ HoneypotTyped
    BY DEF alertVars, HoneypotInv
  <1>2. queue' \in Seq(Hit) /\ report' \in {Quiet, [pc |-> "waiting"]} \cup [pc : {"posted"}, batch : Seq(Hit)]
    <2>0. /\ queue \in Seq(Hit)
          /\ report \in {Quiet, [pc |-> "waiting"]} \cup [pc : {"posted"}, batch : Seq(Hit)]
      BY <1>1 DEF HoneypotTyped
    <2>1. CASE ServiceTouched \/ FileTouched
      <3>1. PICK h \in Hit : Emitted(h)
        BY <2>1 DEF ServiceTouched, FileTouched, Hit, Decoys
      <3> QED
        BY <2>0, <3>1 DEF Emitted
    <2>2. CASE ReportPosted
      <3> DEFINE n == IF Len(queue) < BatchSize THEN Len(queue) ELSE BatchSize
      <3>1. n \in 0..Len(queue)
        BY <2>0, HoneypotPodAssumption
      <3>2. report' = [pc |-> "posted", batch |-> SubSeq(queue, 1, n)]
            /\ queue' = SubSeq(queue, n + 1, Len(queue))
        BY <2>2 DEF ReportPosted
      <3> HIDE DEF n
      <3>3. SubSeq(queue, 1, n) \in Seq(Hit) /\ SubSeq(queue, n + 1, Len(queue)) \in Seq(Hit)
        BY <2>0, <3>1
      <3> QED
        BY <3>2, <3>3
    <2>3. CASE AgentStarted
      BY <2>3 DEF AgentStarted
    <2>4. CASE ReportReturns
      BY <2>0, <2>4 DEF ReportReturns
    <2>5. CASE HeartbeatAnswered \/ Reconciled \/ PodUpdated \/ PodRedeployed
      BY <2>0, <2>5 DEF HeartbeatAnswered, Reconciled, PodUpdated, PodRedeployed
    <2> QED
      BY <2>1, <2>2, <2>3, <2>4, <2>5 DEF PodStep
  <1>3. HoneypotTyped'
    BY <1>1, <1>2 DEF HoneypotTyped
  <1>4. \A v \in Ingests : DueOf(v)' = DueOf(v) /\ RowsOf(v)' = RowsOf(v)
    BY <1>1 DEF DueOf, RowsOf
  <1>5. Calm
    BY <1>1, <1>4 DEF Calm, HoneypotTyped
  <1> QED
    BY <1>1, <1>3, <1>4, <1>5, CalmCovers DEF HoneypotInv, RowsCovered

LEMMA OperatorKeeps ==
    HoneypotInv /\ (ProcessListed \/ ProcessUnlisted \/ PodDeleted \/ PodTick) => HoneypotInv'
  <1> SUFFICES ASSUME HoneypotInv, ProcessListed \/ ProcessUnlisted \/ PodDeleted \/ PodTick
               PROVE  HoneypotInv'
    OBVIOUS
  <1>1. /\ keys' = keys /\ alerted' = alerted /\ ingest' = ingest
        /\ queue' = queue /\ report' = report
        /\ failed' = failed /\ cleared' = cleared /\ HoneypotTyped
        /\ (time' = time \/ PodTick) /\ listed' \in BOOLEAN
    BY DEF HoneypotTyped, ProcessListed, ProcessUnlisted, PodDeleted, PodTick, podVars, HoneypotInv
  <1>2. time' \in Nat /\ time' >= time
    BY <1>1 DEF PodTick, HoneypotTyped
  <1>3. \A v \in Ingests : DueOf(v)' = DueOf(v) /\ RowsOf(v)' = RowsOf(v)
    BY <1>1 DEF DueOf, RowsOf
  <1>4. Calm
    BY <1>1, <1>2, <1>3 DEF Calm
  <1>5. stored' \in Seq(PodRow) /\ (~failed => Covered(stored', Announced))
    <2>0. stored \in Seq(PodRow) /\ (~failed => Covered(stored, Announced))
      BY DEF HoneypotInv, HoneypotTyped, RowsCovered
    <2>1. CASE ProcessListed
      <3> DEFINE mutedBy(i) == stored[i].muted \/ (stored[i].hit.decoy = "file" /\ stored[i].hit.legit)
                 silent == [i \in DOMAIN stored |-> [stored[i] EXCEPT !.muted = mutedBy(i)]]
      <3>1. stored' = silent
        BY <2>1 DEF ProcessListed
      <3>2. ASSUME NEW i \in DOMAIN stored
            PROVE  /\ silent[i] \in PodRow /\ silent[i].hit = stored[i].hit
                   /\ silent[i].at = stored[i].at /\ (~silent[i].muted => ~stored[i].muted)
        <4>1. stored[i] \in PodRow
          BY <2>0
        <4>2. stored[i].hit \in Hit /\ stored[i].hit.legit \in BOOLEAN /\ stored[i].muted \in BOOLEAN
          BY <4>1 DEF PodRow, Hit
        <4>3. mutedBy(i) \in BOOLEAN /\ (stored[i].muted => mutedBy(i))
          BY <4>2
        <4> HIDE DEF mutedBy
        <4> QED
          BY <4>1, <4>3 DEF PodRow
      <3> HIDE DEF mutedBy
      <3>3. DOMAIN silent = DOMAIN stored /\ silent \in Seq(PodRow)
        <4>1. DOMAIN stored = 1..Len(stored) /\ Len(stored) \in Nat
          BY <2>0
        <4> DEFINE of(i) == [stored[i] EXCEPT !.muted = mutedBy(i)]
        <4>2. \A i \in DOMAIN stored : of(i) \in PodRow
          BY <3>2
        <4>3. silent = [i \in DOMAIN stored |-> of(i)]
          OBVIOUS
        <4> HIDE DEF silent, of
        <4>4. silent \in [1..Len(stored) -> PodRow]
          BY <4>1, <4>2, <4>3
        <4> QED
          BY <4>1, <4>3, <4>4
      <3> HIDE DEF silent
      <3> QED
        BY <2>0, <3>1, <3>2, <3>3 DEF Covered
    <2>2. CASE PodDeleted
      BY <2>2 DEF PodDeleted, Covered
    <2>3. CASE ProcessUnlisted \/ PodTick
      BY <2>0, <2>3 DEF ProcessUnlisted, PodTick
    <2> QED
      BY <2>1, <2>2, <2>3
  <1>6. HoneypotTyped'
    BY <1>1, <1>2, <1>5 DEF HoneypotTyped
  <1> QED
    BY <1>3, <1>4, <1>5, <1>6, CalmCovers DEF HoneypotInv, RowsCovered

(* A report is taken, loads the whitelist, or commits its rows.            *)
LEMMA IngestStartKeeps ==
    ASSUME HoneypotInv, NEW w \in Ingests, IngestStart(w)
    PROVE  HoneypotInv'
  <1> DEFINE task == [pc |-> "load", batch |-> report.batch]
  <1>1. /\ stored' = stored /\ keys' = keys /\ alerted' = alerted /\ ingest[w] = Quiet
        /\ queue' = queue /\ report' = [pc |-> "waiting"] /\ failed' = failed
        /\ cleared' = cleared /\ listed' = listed /\ time' = time /\ HoneypotTyped
        /\ ingest' = [ingest EXCEPT ![w] = task]
    BY DEF IngestStart, HoneypotInv
  <1>2. report \in [pc : {"posted"}, batch : Seq(Hit)]
    BY <1>1 DEF IngestStart, HoneypotTyped
  <1>3. task \in IngestTask /\ task.pc = "load"
    BY <1>2 DEF IngestTask
  <1> HIDE DEF task
  <1>4. /\ ingest' \in [Ingests -> IngestTask]
        /\ \A v \in Ingests : ingest'[v].pc = "send" => ingest'[v].due # <<>>
        /\ \A v \in Ingests \ {w} : DueOf(v)' = DueOf(v) /\ RowsOf(v)' = RowsOf(v)
        /\ DueOf(w)' = <<>> /\ RowsOf(w)' = <<>>
    BY <1>1, <1>3, IngestMoves
  <1>5. DueOf(w) = <<>> /\ RowsOf(w) = <<>>
    BY <1>1 DEF DueOf, RowsOf
  <1>6. Calm
    BY <1>1, <1>4, <1>5 DEF Calm, HoneypotTyped
  <1>7. HoneypotTyped'
    BY <1>1, <1>4 DEF HoneypotTyped
  <1> QED
    BY <1>1, <1>4, <1>5, <1>6, <1>7, CalmCovers DEF HoneypotInv, RowsCovered

LEMMA IngestLoadKeeps ==
    ASSUME HoneypotInv, NEW w \in Ingests, IngestLoad(w)
    PROVE  HoneypotInv'
  <1> DEFINE task == [pc |-> "read", batch |-> ingest[w].batch, spared |-> listed,
                      rows |-> <<>>, due |-> <<>>]
  <1>1. /\ stored' = stored /\ keys' = keys /\ alerted' = alerted /\ ingest[w].pc = "load"
        /\ queue' = queue /\ report' = report /\ failed' = failed
        /\ cleared' = cleared /\ listed' = listed /\ time' = time /\ HoneypotTyped
        /\ ingest' = [ingest EXCEPT ![w] = task]
    BY DEF IngestLoad, HoneypotInv, podVars, HoneypotTyped
  <1>2. ingest[w].batch \in Seq(Hit) /\ listed \in BOOLEAN
    BY <1>1, TaskParts DEF HoneypotInv, HoneypotTyped
  <1>3. task \in IngestTask /\ task.pc = "read" /\ task.rows = <<>> /\ task.due = <<>>
    BY <1>2 DEF IngestTask
  <1> HIDE DEF task
  <1>4. /\ ingest' \in [Ingests -> IngestTask]
        /\ \A v \in Ingests : ingest'[v].pc = "send" => ingest'[v].due # <<>>
        /\ \A v \in Ingests \ {w} : DueOf(v)' = DueOf(v) /\ RowsOf(v)' = RowsOf(v)
        /\ DueOf(w)' = <<>> /\ RowsOf(w)' = <<>>
    BY <1>1, <1>3, IngestMoves
  <1>5. DueOf(w) = <<>> /\ RowsOf(w) = <<>>
    BY <1>1 DEF DueOf, RowsOf
  <1>6. Calm
    BY <1>1, <1>4, <1>5 DEF Calm, HoneypotTyped
  <1>7. HoneypotTyped'
    BY <1>1, <1>4 DEF HoneypotTyped
  <1> QED
    BY <1>1, <1>4, <1>5, <1>6, <1>7, CalmCovers DEF HoneypotInv, RowsCovered

(* The rows of a report are committed, at its end or on the way: each was  *)
(* covered before it was stored, and what is to be sent stays announced.   *)
LEMMA RowsStored ==
    ASSUME HoneypotInv, NEW w \in Ingests, NEW task \in IngestTask,
           ingest[w].pc = "read", ingest' = [ingest EXCEPT ![w] = task],
           stored' = stored \o ingest[w].rows, keys' = keys, alerted' = alerted,
           queue' = queue, report' = report, failed' = failed,
           cleared' = cleared, listed' = listed, time' = time,
           task.pc = "send" => task.due # <<>>, task.pc = "read" => task.rows = <<>>,
           (IF task.pc \in {"read", "send"} THEN task.due ELSE <<>>) = DueOf(w)
    PROVE  HoneypotInv'
  <1>1. HoneypotTyped
    BY DEF HoneypotInv
  <1>2. RowsOf(w) = ingest[w].rows /\ RowsOf(w) \in Seq(PodRow)
    BY <1>1, TaskParts
  <1>4. /\ ingest' \in [Ingests -> IngestTask]
        /\ \A v \in Ingests : ingest'[v].pc = "send" => ingest'[v].due # <<>>
        /\ \A v \in Ingests \ {w} : DueOf(v)' = DueOf(v) /\ RowsOf(v)' = RowsOf(v)
        /\ DueOf(w)' = DueOf(w) /\ RowsOf(w)' = <<>>
    <2>1. /\ ingest' \in [Ingests -> IngestTask]
          /\ \A v \in Ingests : ingest'[v].pc = "send" => ingest'[v].due # <<>>
          /\ \A v \in Ingests \ {w} : DueOf(v)' = DueOf(v) /\ RowsOf(v)' = RowsOf(v)
          /\ DueOf(w)' = IF task.pc \in {"read", "send"} THEN task.due ELSE <<>>
          /\ RowsOf(w)' = IF task.pc = "read" THEN task.rows ELSE <<>>
      BY <1>1, IngestMoves
    <2> QED
      BY <2>1
  <1>5. Calm
    BY <1>1, <1>4 DEF Calm, HoneypotTyped
  <1>6. stored \in Seq(PodRow)
    BY <1>1 DEF HoneypotTyped
  <1>7. HoneypotTyped'
    <2>1. stored' \in Seq(PodRow)
      BY <1>1, <1>2, <1>6
    <2> QED
      BY <1>1, <1>4, <2>1 DEF HoneypotTyped
  <1>8. ASSUME ~failed
        PROVE  /\ Covered(stored', Announced)
               /\ \A v \in Ingests : Covered(RowsOf(v)', Announced)
    <2>1. Covered(stored, Announced) /\ \A v \in Ingests : Covered(RowsOf(v), Announced)
      BY <1>8 DEF HoneypotInv, RowsCovered
    <2>2. Covered(RowsOf(w)', Announced)
      BY <1>4 DEF Covered
    <2>3. \A v \in Ingests : Covered(RowsOf(v)', Announced)
      BY <1>4, <2>1, <2>2
    <2> DEFINE rows == RowsOf(w)
    <2>4. Covered(rows, Announced) /\ stored' = stored \o rows /\ rows \in Seq(PodRow)
      BY <1>2, <2>1
    <2> HIDE DEF rows
    <2>5. ASSUME NEW i \in DOMAIN stored'
          PROVE  \/ i \in DOMAIN stored /\ stored'[i] = stored[i]
                 \/ i - Len(stored) \in DOMAIN rows /\ stored'[i] = rows[i - Len(stored)]
      BY <1>6, <2>4
    <2>6. Covered(stored', Announced)
      <3> SUFFICES ASSUME NEW i \in DOMAIN stored', ~stored'[i].muted
                   PROVE  \E a \in Announced : a.ident = stored'[i].hit.ident
                            /\ a.at <= stored'[i].at /\ stored'[i].at < a.at + MuteFor
        BY DEF Covered
      <3>1. CASE i \in DOMAIN stored /\ stored'[i] = stored[i]
        BY <2>1, <3>1 DEF Covered
      <3>2. CASE i - Len(stored) \in DOMAIN rows /\ stored'[i] = rows[i - Len(stored)]
        BY <2>4, <3>2 DEF Covered
      <3> QED
        BY <2>5, <3>1, <3>2
    <2> QED
      BY <2>3, <2>6
  <1> QED
    BY <1>5, <1>7, <1>8, CalmCovers

LEMMA IngestLookupKeeps ==
    ASSUME HoneypotInv, NEW w \in Ingests, IngestLookup(w)
    PROVE  HoneypotInv'
  <1> DEFINE task == [pc |-> "read", batch |-> ingest[w].batch, spared |-> ingest[w].spared,
                      rows |-> <<>>, due |-> ingest[w].due]
  <1>1. /\ stored' = stored \o ingest[w].rows /\ keys' = keys /\ alerted' = alerted
        /\ ingest[w].pc = "read" /\ queue' = queue /\ report' = report /\ failed' = failed
        /\ cleared' = cleared /\ listed' = listed /\ time' = time /\ HoneypotTyped
        /\ ingest' = [ingest EXCEPT ![w] = task]
    BY DEF IngestLookup, HoneypotInv, podVars, HoneypotTyped
  <1>2. /\ DueOf(w) = ingest[w].due /\ DueOf(w) \in Seq(PodAlert)
        /\ ingest[w].batch \in Seq(Hit) /\ ingest[w].spared \in BOOLEAN
    BY <1>1, TaskParts
  <1>3. /\ task \in IngestTask /\ task.pc = "read" /\ task.rows = <<>>
        /\ task.due = DueOf(w)
    BY <1>2 DEF IngestTask
  <1> HIDE DEF task
  <1> QED
    BY <1>1, <1>3, RowsStored

LEMMA IngestCommitKeeps ==
    ASSUME HoneypotInv, NEW w \in Ingests, IngestCommit(w)
    PROVE  HoneypotInv'
  <1> DEFINE task == IF ingest[w].due = <<>> THEN Quiet
                     ELSE [pc |-> "send", due |-> ingest[w].due, sent |-> 0]
  <1>1. /\ stored' = stored \o ingest[w].rows /\ keys' = keys /\ alerted' = alerted
        /\ ingest[w].pc = "read" /\ queue' = queue /\ report' = report /\ failed' = failed
        /\ cleared' = cleared /\ listed' = listed /\ time' = time /\ HoneypotTyped
        /\ ingest' = [ingest EXCEPT ![w] = task]
    BY DEF IngestCommit, HoneypotInv, podVars, HoneypotTyped
  <1>2. DueOf(w) = ingest[w].due /\ DueOf(w) \in Seq(PodAlert)
    BY <1>1, TaskParts
  <1>3. /\ task \in IngestTask /\ task.pc # "read" /\ (task.pc = "send" => task.due # <<>>)
        /\ (IF task.pc \in {"read", "send"} THEN task.due ELSE <<>>) = DueOf(w)
    BY <1>2 DEF IngestTask
  <1> HIDE DEF task
  <1> QED
    BY <1>1, <1>3, RowsStored

(* What handling one event leaves in its report.                           *)
LEMMA HandledMoves ==
    ASSUME HoneypotTyped, NEW w \in Ingests, NEW taken \in BOOLEAN,
           ingest[w].pc = "read", ingest[w].batch # <<>>, Handled(w, taken)
    PROVE  LET h == Head(ingest[w].batch)
           IN /\ h \in Hit /\ h.ident \in Idents /\ Spared(w, h) \in BOOLEAN
              /\ ingest' \in [Ingests -> IngestTask]
              /\ \A v \in Ingests : ingest'[v].pc = "send" => ingest'[v].due # <<>>
              /\ \A v \in Ingests \ {w} : DueOf(v)' = DueOf(v) /\ RowsOf(v)' = RowsOf(v)
              /\ RowsOf(w)' = Append(RowsOf(w), [hit |-> h, muted |-> Spared(w, h), at |-> time])
              /\ DueOf(w)' = IF taken THEN Append(DueOf(w), [ident |-> h.ident, at |-> time])
                             ELSE DueOf(w)
              /\ DueOf(w) \in Seq(PodAlert) /\ RowsOf(w) \in Seq(PodRow)
  <1> DEFINE h == Head(ingest[w].batch)
             row == [hit |-> h, muted |-> Spared(w, h), at |-> time]
             d == [ident |-> h.ident, at |-> time]
             due == IF taken THEN Append(DueOf(w), d) ELSE DueOf(w)
             task == [pc |-> "read", batch |-> Tail(ingest[w].batch), spared |-> ingest[w].spared,
                      rows |-> Append(RowsOf(w), row), due |-> due]
  <1>1. /\ DueOf(w) = ingest[w].due /\ RowsOf(w) = ingest[w].rows
        /\ DueOf(w) \in Seq(PodAlert) /\ RowsOf(w) \in Seq(PodRow)
        /\ ingest[w].batch \in Seq(Hit) /\ ingest[w].spared \in BOOLEAN
    BY TaskParts
  <1>2. ingest' = [ingest EXCEPT ![w] = task]
    BY <1>1 DEF Handled
  <1>3. h \in Hit /\ Tail(ingest[w].batch) \in Seq(Hit)
    BY <1>1
  <1>4. h.ident \in Idents /\ h.legit \in BOOLEAN
    BY <1>3 DEF Hit, Idents
  <1>5. Spared(w, h) \in BOOLEAN
    BY <1>1, <1>4 DEF Spared
  <1>6. time \in Nat
    BY DEF HoneypotTyped
  <1> HIDE DEF h
  <1>7. row \in PodRow /\ d \in PodAlert
    BY <1>3, <1>4, <1>5, <1>6 DEF PodRow, PodAlert
  <1> HIDE DEF row, d
  <1>8. Append(RowsOf(w), row) \in Seq(PodRow) /\ due \in Seq(PodAlert)
    BY <1>1, <1>7
  <1> HIDE DEF due
  <1>9. task \in IngestTask /\ task.pc = "read" /\ task.rows = Append(RowsOf(w), row) /\ task.due = due
    BY <1>1, <1>3, <1>8 DEF IngestTask
  <1> HIDE DEF task
  <1>10. /\ ingest' \in [Ingests -> IngestTask]
         /\ \A v \in Ingests : ingest'[v].pc = "send" => ingest'[v].due # <<>>
         /\ \A v \in Ingests \ {w} : DueOf(v)' = DueOf(v) /\ RowsOf(v)' = RowsOf(v)
         /\ DueOf(w)' = due /\ RowsOf(w)' = Append(RowsOf(w), row)
    BY <1>2, <1>9, IngestMoves
  <1> QED
    BY <1>1, <1>3, <1>4, <1>5, <1>10 DEF due, d, row, h

LEMMA AnnouncedGrows ==
    ASSUME HoneypotTyped, NEW w \in Ingests, NEW d, alerted' = alerted,
           \A v \in Ingests \ {w} : DueOf(v)' = DueOf(v), DueOf(w)' = Append(DueOf(w), d)
    PROVE  Announced' = Announced \cup {d}
  <1>1. DueOf(w) \in Seq(PodAlert)
    BY TaskParts
  <1>2. ASSUME NEW a
        PROVE  (\E i \in DOMAIN DueOf(w)' : a = DueOf(w)'[i])
                 <=> a = d \/ \E i \in DOMAIN DueOf(w) : a = DueOf(w)[i]
    <2> DEFINE s == DueOf(w)  t == DueOf(w)'
    <2>1. s \in Seq(PodAlert) /\ t = Append(s, d)
      BY <1>1
    <2> HIDE DEF s, t
    <2>2. DOMAIN s = 1..Len(s) /\ DOMAIN t = 1..Len(s) + 1 /\ Len(s) \in Nat
          /\ t[Len(s) + 1] = d /\ \A i \in 1..Len(s) : t[i] = s[i]
      BY <2>1
    <2>3. (\E i \in DOMAIN t : a = t[i]) <=> a = d \/ \E i \in DOMAIN s : a = s[i]
      BY <2>2
    <2> QED
      BY <2>3 DEF s, t
  <1> QED
    BY <1>2, AnnouncedIs DEF AnnouncedOf

LEMMA RowAppended ==
    ASSUME NEW rows \in Seq(PodRow), NEW row, NEW A, Covered(rows, A),
           ~row.muted => \E a \in A : a.ident = row.hit.ident
                                   /\ a.at <= row.at /\ row.at < a.at + MuteFor
    PROVE  Covered(Append(rows, row), A)
  <1> DEFINE more == Append(rows, row)
  <1> SUFFICES ASSUME NEW i \in DOMAIN more, ~more[i].muted
               PROVE  \E a \in A : a.ident = more[i].hit.ident
                        /\ a.at <= more[i].at /\ more[i].at < a.at + MuteFor
    BY DEF Covered
  <1>1. \/ i \in DOMAIN rows /\ more[i] = rows[i]
        \/ more[i] = row
    OBVIOUS
  <1> HIDE DEF more
  <1> QED
    BY <1>1 DEF Covered

(* An alert for which a key is taken is spaced from all that is announced. *)
LEMMA NewAlertSpaced ==
    ASSUME HoneypotTyped, KeysMute, ~cleared, NEW d \in PodAlert, d.at = time,
           keys[d.ident] <= time, NEW a \in Announced
    PROVE  Spaced(d, a) /\ Spaced(a, d)
  <1> SUFFICES ASSUME a.ident = d.ident
               PROVE  /\ d.at - a.at \notin (1 - MuteFor)..(MuteFor - 1)
                      /\ a.at - d.at \notin (1 - MuteFor)..(MuteFor - 1)
    BY DEF Spaced
  <1>1. a.at + MuteFor <= keys[d.ident]
    BY DEF KeysMute
  <1>2. a.at \in Nat /\ d.at \in Nat /\ time \in Nat /\ keys[d.ident] \in Nat /\ MuteFor \in Nat
    BY AnnouncedTyped, HoneypotAlertsAssumption DEF PodAlert, HoneypotTyped
  <1> QED
    BY <1>1, <1>2

LEMMA MuteTaken ==
    ASSUME HoneypotInv, NEW w \in Ingests, NEW d \in PodAlert, d.at = time,
           keys[d.ident] <= time, keys' = [keys EXCEPT ![d.ident] = time + MuteFor],
           alerted' = alerted, cleared' = cleared,
           \A v \in Ingests \ {w} : DueOf(v)' = DueOf(v), DueOf(w)' = Append(DueOf(w), d)
    PROVE  KeysMute'
  <1> SUFFICES ASSUME ~cleared
               PROVE  KeysMute'
    BY DEF KeysMute
  <1>1. HoneypotTyped /\ KeysMute
    BY DEF HoneypotInv
  <1>2. d.ident \in Idents /\ time \in Nat /\ MuteFor \in Nat /\ keys \in [Idents -> Nat]
    BY <1>1, HoneypotAlertsAssumption DEF HoneypotTyped, PodAlert
  <1>3. ASSUME NEW a \in Announced'
        PROVE  a.at + MuteFor <= keys'[a.ident]
    <2>1. a \in Announced \/ a = d
      BY <1>1, AnnouncedGrows
    <2>2. CASE a = d
      BY <1>2, <2>2
    <2>3. CASE a \in Announced
      <3>1. a.at + MuteFor <= keys[a.ident] /\ a.ident \in Idents /\ a.at \in Nat
        BY <1>1, <2>3, AnnouncedTyped DEF KeysMute, PodAlert
      <3>2. keys[a.ident] <= keys'[a.ident]
        BY <1>2, <3>1
      <3>3. keys[a.ident] \in Nat /\ keys'[a.ident] \in Nat
        BY <1>2, <3>1
      <3> QED
        BY <1>2, <3>1, <3>2, <3>3
    <2> QED
      BY <2>1, <2>2, <2>3
  <1>4. \A a \in Announced : Spaced(d, a) /\ Spaced(a, d)
    BY <1>1, NewAlertSpaced
  <1>5. /\ \A i \in DOMAIN alerted : alerted[i] \in Announced
        /\ \A v \in Ingests : \A i \in DOMAIN DueOf(v) : DueOf(v)[i] \in Announced
    BY AnnouncedIs DEF AnnouncedOf
  <1>6. ASSUME NEW i \in DOMAIN DueOf(w)'
        PROVE  \/ i \in DOMAIN DueOf(w) /\ DueOf(w)'[i] = DueOf(w)[i]
               \/ i = Len(DueOf(w)) + 1 /\ DueOf(w)'[i] = d
    <2> DEFINE s == DueOf(w)  t == DueOf(w)'
    <2>1. s \in Seq(PodAlert) /\ t = Append(s, d)
      BY <1>1, TaskParts
    <2> HIDE DEF s, t
    <2>2. \A j \in DOMAIN t : (j \in DOMAIN s /\ t[j] = s[j]) \/ (j = Len(s) + 1 /\ t[j] = d)
      BY <2>1
    <2> QED
      BY <2>2 DEF s, t
  <1>7. \A i, j \in DOMAIN DueOf(w)' : i # j => Spaced(DueOf(w)'[i], DueOf(w)'[j])
    <2> SUFFICES ASSUME NEW i \in DOMAIN DueOf(w)', NEW j \in DOMAIN DueOf(w)', i # j
                 PROVE  Spaced(DueOf(w)'[i], DueOf(w)'[j])
      OBVIOUS
    <2>1. CASE i \in DOMAIN DueOf(w) /\ j \in DOMAIN DueOf(w) /\ DueOf(w)'[i] = DueOf(w)[i]
               /\ DueOf(w)'[j] = DueOf(w)[j]
      BY <1>1, <2>1 DEF KeysMute
    <2>2. CASE i \in DOMAIN DueOf(w) /\ DueOf(w)'[i] = DueOf(w)[i] /\ DueOf(w)'[j] = d
      BY <1>4, <1>5, <2>2
    <2>3. CASE j \in DOMAIN DueOf(w) /\ DueOf(w)'[j] = DueOf(w)[j] /\ DueOf(w)'[i] = d
      BY <1>4, <1>5, <2>3
    <2> QED
      BY <1>6, <2>1, <2>2, <2>3
  <1>8. \A v \in Ingests, i \in DOMAIN DueOf(w)' : v # w =>
          \A j \in DOMAIN DueOf(v) :
            Spaced(DueOf(w)'[i], DueOf(v)[j]) /\ Spaced(DueOf(v)[j], DueOf(w)'[i])
    <2> SUFFICES ASSUME NEW v \in Ingests \ {w}, NEW i \in DOMAIN DueOf(w)', NEW j \in DOMAIN DueOf(v)
                 PROVE  Spaced(DueOf(w)'[i], DueOf(v)[j]) /\ Spaced(DueOf(v)[j], DueOf(w)'[i])
      OBVIOUS
    <2>1. CASE i \in DOMAIN DueOf(w) /\ DueOf(w)'[i] = DueOf(w)[i]
      BY <1>1, <2>1 DEF KeysMute
    <2>2. CASE DueOf(w)'[i] = d
      BY <1>4, <1>5, <2>2
    <2> QED
      BY <1>6, <2>1, <2>2
  <1>9. \A i \in DOMAIN DueOf(w)', j \in DOMAIN alerted :
          Spaced(DueOf(w)'[i], alerted[j]) /\ Spaced(alerted[j], DueOf(w)'[i])
    <2> SUFFICES ASSUME NEW i \in DOMAIN DueOf(w)', NEW j \in DOMAIN alerted
                 PROVE  Spaced(DueOf(w)'[i], alerted[j]) /\ Spaced(alerted[j], DueOf(w)'[i])
      OBVIOUS
    <2>1. CASE i \in DOMAIN DueOf(w) /\ DueOf(w)'[i] = DueOf(w)[i]
      BY <1>1, <2>1 DEF KeysMute
    <2>2. CASE DueOf(w)'[i] = d
      BY <1>4, <1>5, <2>2
    <2> QED
      BY <1>6, <2>1, <2>2
  <1>10. \A i, j \in DOMAIN alerted : i # j => Spaced(alerted[i], alerted[j])
    BY <1>1 DEF KeysMute
  <1>11. ASSUME NEW u \in Ingests
         PROVE  /\ \A i, j \in DOMAIN DueOf(u)' : i # j => Spaced(DueOf(u)'[i], DueOf(u)'[j])
                /\ \A i \in DOMAIN DueOf(u)', j \in DOMAIN alerted :
                     Spaced(DueOf(u)'[i], alerted[j]) /\ Spaced(alerted[j], DueOf(u)'[i])
                /\ \A v \in Ingests \ {u} : \A i \in DOMAIN DueOf(u)', j \in DOMAIN DueOf(v)' :
                     Spaced(DueOf(u)'[i], DueOf(v)'[j])
    <2>1. CASE u = w
      BY <1>7, <1>8, <1>9, <2>1
    <2>2. CASE u # w
      BY <1>1, <1>8, <2>2 DEF KeysMute
    <2> QED
      BY <2>1, <2>2
  <1> QED
    BY <1>3, <1>10, <1>11 DEF KeysMute, Spaced

(* An event that is reported announces an alert, which covers its row.     *)
LEMMA ReportedCovers ==
    ASSUME HoneypotInv, NEW w \in Ingests, ingest[w].pc = "read", ingest[w].batch # <<>>,
           Handled(w, TRUE), alerted' = alerted, stored' = stored, failed' = failed, time' = time,
           ~failed => \A x \in Idents : keys'[x] > time =>
             \/ x = Head(ingest[w].batch).ident /\ keys'[x] = time + MuteFor
             \/ keys'[x] = keys[x]
    PROVE  RowsCovered'
  <1> DEFINE h == Head(ingest[w].batch)
             d == [ident |-> h.ident, at |-> time]
             row == [hit |-> h, muted |-> Spared(w, h), at |-> time]
  <1>1. HoneypotTyped /\ RowsCovered /\ time \in Nat /\ keys \in [Idents -> Nat]
    BY DEF HoneypotInv, HoneypotTyped
  <1>2. /\ h \in Hit /\ h.ident \in Idents
        /\ \A v \in Ingests \ {w} : DueOf(v)' = DueOf(v) /\ RowsOf(v)' = RowsOf(v)
        /\ RowsOf(w)' = Append(RowsOf(w), row) /\ DueOf(w)' = Append(DueOf(w), d)
        /\ RowsOf(w) \in Seq(PodRow)
    BY <1>1, HandledMoves
  <1>3. Announced' = Announced \cup {d}
    BY <1>1, <1>2, AnnouncedGrows
  <1>4. d.ident = h.ident /\ d.at = time /\ row.hit = h /\ row.at = time
    OBVIOUS
  <1> HIDE DEF h, d, row
  <1> SUFFICES ASSUME ~failed
               PROVE  RowsCovered'
    BY DEF RowsCovered
  <1>5. MuteFor \in Nat \ {0}
    BY HoneypotAlertsAssumption
  <1>6. Backed(keys', time', Announced')
    <2> SUFFICES ASSUME NEW x \in Idents, keys'[x] > time
                 PROVE  \E a \in Announced' : a.ident = x /\ a.at <= time /\ keys'[x] <= a.at + MuteFor
      BY DEF Backed
    <2>1. (x = h.ident /\ keys'[x] = time + MuteFor) \/ keys'[x] = keys[x]
      BY DEF h
    <2>2. CASE x = h.ident /\ keys'[x] = time + MuteFor
      BY <1>1, <1>3, <1>4, <1>5, <2>2
    <2>3. CASE keys'[x] = keys[x]
      BY <1>1, <1>3, <2>3 DEF RowsCovered, Backed
    <2> QED
      BY <2>1, <2>2, <2>3
  <1>7. Covered(stored', Announced')
    BY <1>1, <1>3, CoveredStays DEF RowsCovered
  <1>8. ASSUME NEW v \in Ingests \ {w}
        PROVE  Covered(RowsOf(v)', Announced')
    <2>1. Covered(RowsOf(v), Announced')
      BY <1>1, <1>3, CoveredStays DEF RowsCovered
    <2> QED
      BY <1>2, <2>1
  <1>9. Covered(RowsOf(w)', Announced')
    <2>1. Covered(RowsOf(w), Announced')
      BY <1>1, <1>3, CoveredStays DEF RowsCovered
    <2>2. d \in Announced' /\ d.ident = row.hit.ident /\ d.at <= row.at /\ row.at < d.at + MuteFor
      BY <1>1, <1>3, <1>4, <1>5
    <2> DEFINE A == Announced'  rows == RowsOf(w)
    <2>3. Covered(rows, A) /\ rows \in Seq(PodRow) /\ d \in A
      BY <1>2, <2>1, <2>2
    <2> HIDE DEF A, rows
    <2>4. Covered(Append(rows, row), A)
      BY <2>2, <2>3, RowAppended
    <2> QED
      BY <1>2, <2>4 DEF A, rows
  <1> QED
    BY <1>6, <1>7, <1>8, <1>9 DEF RowsCovered

LEMMA IngestEventKeeps ==
    ASSUME HoneypotInv, NEW w \in Ingests, IngestEvent(w)
    PROVE  HoneypotInv'
  <1> DEFINE h == Head(ingest[w].batch)
             d == [ident |-> h.ident, at |-> time]
             row == [hit |-> h, muted |-> Spared(w, h), at |-> time]
             taken == TakesKey(w, h) /\ ~Spared(w, h)
  <1>1. /\ ingest[w].pc = "read" /\ ingest[w].batch # <<>> /\ Handled(w, taken)
        /\ keys' = IF TakesKey(w, h) THEN [keys EXCEPT ![h.ident] = time + MuteFor] ELSE keys
        /\ stored' = stored /\ alerted' = alerted /\ queue' = queue /\ report' = report
        /\ failed' = failed /\ cleared' = cleared /\ listed' = listed /\ time' = time
        /\ HoneypotTyped
    BY DEF IngestEvent, HoneypotInv, podVars
  <1>2. taken \in BOOLEAN
    OBVIOUS
  <1> HIDE DEF taken
  <1>3. /\ h \in Hit /\ h.ident \in Idents /\ Spared(w, h) \in BOOLEAN
        /\ ingest' \in [Ingests -> IngestTask]
        /\ \A v \in Ingests : ingest'[v].pc = "send" => ingest'[v].due # <<>>
        /\ \A v \in Ingests \ {w} : DueOf(v)' = DueOf(v) /\ RowsOf(v)' = RowsOf(v)
        /\ RowsOf(w)' = Append(RowsOf(w), row)
        /\ DueOf(w)' = IF taken THEN Append(DueOf(w), d) ELSE DueOf(w)
        /\ DueOf(w) \in Seq(PodAlert) /\ RowsOf(w) \in Seq(PodRow)
    BY <1>1, <1>2, HandledMoves
  <1>4. d.ident = h.ident /\ d.at = time /\ row.hit = h /\ row.at = time /\ row.muted = Spared(w, h)
    OBVIOUS
  <1>5. time \in Nat /\ MuteFor \in Nat \ {0} /\ keys \in [Idents -> Nat]
    BY <1>1, HoneypotAlertsAssumption DEF HoneypotTyped
  <1>6. d \in PodAlert
    BY <1>3, <1>5 DEF PodAlert
  <1> HIDE DEF h, d, row
  <1>7. HoneypotTyped'
    <2>1. keys' \in [Idents -> Nat]
      BY <1>1, <1>3, <1>5
    <2> QED
      BY <1>1, <1>3, <2>1 DEF HoneypotTyped
  <1>8. CASE taken
    <2>1. keys[h.ident] <= time /\ keys' = [keys EXCEPT ![h.ident] = time + MuteFor]
      BY <1>1, <1>8 DEF TakesKey, taken
    <2>2. DueOf(w)' = Append(DueOf(w), d) /\ Handled(w, TRUE)
      BY <1>1, <1>3, <1>8
    <2>3. KeysMute'
      BY <1>1, <1>3, <1>4, <1>6, <2>1, <2>2, MuteTaken
    <2>4. \A x \in Idents : (x = h.ident /\ keys'[x] = time + MuteFor) \/ keys'[x] = keys[x]
      BY <1>5, <2>1
    <2>5. RowsCovered'
      BY <1>1, <2>2, <2>4, ReportedCovers DEF h
    <2> QED
      BY <1>7, <2>3, <2>5 DEF HoneypotInv
  <1>9. CASE ~taken
    <2>1. keys' = keys /\ DueOf(w)' = DueOf(w)
      BY <1>1, <1>3, <1>9 DEF TakesKey, taken
    <2>2. Calm
      BY <1>1, <1>3, <1>5, <2>1 DEF Calm
    <2>3. ASSUME ~failed
          PROVE  \A v \in Ingests : Covered(RowsOf(v)', Announced)
      <3>1. \A v \in Ingests \ {w} : Covered(RowsOf(v)', Announced)
        BY <1>3, <2>3 DEF HoneypotInv, RowsCovered
      <3>2. ASSUME ~row.muted
            PROVE  \E a \in Announced : a.ident = row.hit.ident /\ a.at <= row.at /\ row.at < a.at + MuteFor
        <4>1. keys[h.ident] > time
          BY <1>3, <1>4, <1>5, <1>9, <3>2 DEF TakesKey, taken
        <4>2. PICK a \in Announced : a.ident = h.ident /\ a.at <= time /\ keys[h.ident] <= a.at + MuteFor
          BY <1>3, <2>3, <4>1 DEF HoneypotInv, RowsCovered, Backed
        <4>3. a.at \in Nat /\ keys[h.ident] \in Nat
          BY <1>1, <1>3, <1>5, AnnouncedTyped DEF PodAlert
        <4> QED
          BY <1>4, <1>5, <4>1, <4>2, <4>3
      <3>3. Covered(RowsOf(w), Announced)
        BY <2>3 DEF HoneypotInv, RowsCovered
      <3>4. Covered(RowsOf(w)', Announced)
        BY <1>3, <3>2, <3>3, RowAppended
      <3> QED
        BY <3>1, <3>4
    <2> QED
      BY <1>1, <1>7, <2>2, <2>3, CalmCovers DEF HoneypotInv, RowsCovered
  <1> QED
    BY <1>8, <1>9

LEMMA IngestBlindlyKeeps ==
    ASSUME HoneypotInv, NEW w \in Ingests, IngestBlindly(w)
    PROVE  HoneypotInv'
  <1>1. /\ ingest[w].pc = "read" /\ ingest[w].batch # <<>> /\ Handled(w, TRUE)
        /\ keys' = keys /\ stored' = stored /\ alerted' = alerted
        /\ queue' = queue /\ report' = report
        /\ failed' = failed /\ cleared' = TRUE /\ listed' = listed /\ time' = time
        /\ HoneypotTyped
    BY DEF IngestBlindly, HoneypotInv
  <1>2. /\ ingest' \in [Ingests -> IngestTask]
        /\ \A v \in Ingests : ingest'[v].pc = "send" => ingest'[v].due # <<>>
    BY <1>1, HandledMoves
  <1>3. HoneypotTyped'
    BY <1>1, <1>2 DEF HoneypotTyped
  <1>4. RowsCovered'
    BY <1>1, ReportedCovers
  <1> QED
    BY <1>1, <1>3, <1>4 DEF HoneypotInv, KeysMute

LEMMA TailIs ==
    ASSUME NEW S, NEW s \in Seq(S), s # <<>>
    PROVE  /\ Tail(s) \in Seq(S) /\ DOMAIN Tail(s) = 1..Len(s) - 1 /\ Len(s) \in Nat \ {0}
           /\ DOMAIN s = 1..Len(s) /\ \A i \in 1..Len(s) - 1 : Tail(s)[i] = s[i + 1]
           /\ Tail(s) = <<>> <=> Len(s) = 1
  <1>1. Tail(s) \in Seq(S) /\ Len(Tail(s)) = Len(s) - 1
        /\ \A i \in 1..Len(Tail(s)) : Tail(s)[i] = s[i + 1]
    BY HeadTailProperties
  <1>2. DOMAIN s = 1..Len(s) /\ DOMAIN Tail(s) = 1..Len(Tail(s)) /\ Len(s) \in Nat \ {0}
    BY <1>1, EmptySeq, LenProperties
  <1>3. Tail(s) = <<>> <=> Len(Tail(s)) = 0
    BY <1>1, EmptySeq
  <1> DEFINE t == Tail(s)
  <1> HIDE DEF t
  <1> QED
    BY <1>1, <1>2, <1>3 DEF t

(* The head of what is due is sent or lost; the rest stays due.            *)
LEMMA IngestAlertKeeps ==
    ASSUME HoneypotInv, NEW w \in Ingests, IngestAlert(w)
    PROVE  HoneypotInv'
  <1> DEFINE due == DueOf(w)
             task == IF Len(due) = 1 THEN Quiet
                     ELSE [pc |-> "send", due |-> Tail(due), sent |-> ingest[w].sent + 1]
  <1>1. /\ ingest[w].pc = "send" /\ keys' = keys /\ stored' = stored
        /\ queue' = queue /\ report' = report
        /\ cleared' = cleared /\ listed' = listed /\ time' = time /\ HoneypotTyped
        /\ \/ alerted' = Append(alerted, Head(ingest[w].due)) /\ failed' = failed
           \/ failed' = TRUE /\ alerted' = alerted
        /\ ingest' = [ingest EXCEPT ![w] =
             IF Len(ingest[w].due) = 1 THEN Quiet
             ELSE [pc |-> "send", due |-> Tail(ingest[w].due), sent |-> ingest[w].sent + 1]]
    BY DEF IngestAlert, HoneypotInv, podVars, HoneypotTyped
  <1>2. due \in Seq(PodAlert) /\ due # <<>> /\ due = ingest[w].due /\ ingest[w].sent \in Nat
        /\ RowsOf(w) = <<>>
    BY <1>1, TaskParts DEF RowsOf
  <1>3. ingest' = [ingest EXCEPT ![w] = task]
    BY <1>1, <1>2
  <1> HIDE DEF due
  <1>4. /\ task \in IngestTask /\ task.pc # "read" /\ (task.pc = "send" => task.due # <<>>)
        /\ (IF task.pc \in {"read", "send"} THEN task.due ELSE <<>>) = Tail(due)
    <2>1. CASE Len(due) = 1
      <3>1. Tail(due) = <<>>
        BY <1>2, <2>1, TailIs
      <3> QED
        BY <2>1, <3>1 DEF IngestTask
    <2>2. CASE Len(due) # 1
      <3>1. Tail(due) \in Seq(PodAlert) /\ Tail(due) # <<>>
        BY <1>2, <2>2, TailIs
      <3> QED
        BY <1>2, <2>2, <3>1 DEF IngestTask
    <2> QED
      BY <2>1, <2>2
  <1> HIDE DEF task
  <1>5. /\ ingest' \in [Ingests -> IngestTask]
        /\ \A v \in Ingests : ingest'[v].pc = "send" => ingest'[v].due # <<>>
        /\ \A v \in Ingests \ {w} : DueOf(v)' = DueOf(v) /\ RowsOf(v)' = RowsOf(v)
        /\ DueOf(w)' = Tail(due) /\ RowsOf(w)' = <<>>
    <2>1. /\ ingest' \in [Ingests -> IngestTask]
          /\ \A v \in Ingests : ingest'[v].pc = "send" => ingest'[v].due # <<>>
          /\ \A v \in Ingests \ {w} : DueOf(v)' = DueOf(v) /\ RowsOf(v)' = RowsOf(v)
          /\ DueOf(w)' = IF task.pc \in {"read", "send"} THEN task.due ELSE <<>>
          /\ RowsOf(w)' = IF task.pc = "read" THEN task.rows ELSE <<>>
      BY <1>1, <1>3, <1>4, IngestMoves
    <2> QED
      BY <1>4, <2>1
  <1>6. 1 \in DOMAIN due /\ Head(due) = due[1] /\ Head(due) \in PodAlert
    BY <1>2
  <1>7. \A i \in DOMAIN Tail(due) : i + 1 \in DOMAIN due /\ i + 1 # 1 /\ Tail(due)[i] = due[i + 1]
    BY <1>2
  <1>8. ASSUME NEW i \in DOMAIN due, i # 1
        PROVE  i - 1 \in DOMAIN Tail(due) /\ Tail(due)[i - 1] = due[i]
    <2>1. /\ DOMAIN Tail(due) = 1..Len(due) - 1 /\ DOMAIN due = 1..Len(due) /\ Len(due) \in Nat
          /\ \A k \in 1..Len(due) - 1 : Tail(due)[k] = due[k + 1]
      BY <1>2, TailIs
    <2>2. i - 1 \in 1..Len(due) - 1 /\ (i - 1) + 1 = i
      BY <1>8, <2>1
    <2>3. Tail(due)[i - 1] = due[(i - 1) + 1]
      BY <2>1, <2>2
    <2> QED
      BY <2>1, <2>2, <2>3
  <1>9. alerted \in Seq(PodAlert) /\ due = DueOf(w)
    BY <1>1 DEF HoneypotTyped, due
  <1>10. /\ alerted' \in Seq(PodAlert)
         /\ \A j \in DOMAIN alerted' : \/ j \in DOMAIN alerted /\ alerted'[j] = alerted[j]
                                       \/ j = Len(alerted) + 1 /\ alerted'[j] = due[1]
    <2>1. CASE alerted' = alerted
      BY <1>9, <2>1
    <2>2. CASE alerted' = Append(alerted, due[1])
      BY <1>6, <1>9, <2>2
    <2> QED
      BY <1>1, <1>2, <1>6, <2>1, <2>2
  <1>11. HoneypotTyped'
    BY <1>1, <1>5, <1>10 DEF HoneypotTyped
  <1>12. ASSUME NEW v \in Ingests, NEW i \in DOMAIN DueOf(v)'
         PROVE  \E k \in DOMAIN DueOf(v) : DueOf(v)'[i] = DueOf(v)[k] /\ (v = w => k = i + 1)
                                        /\ (v # w => k = i)
    BY <1>5, <1>7, <1>9
  <1>13. KeysMute'
    <2> SUFFICES ASSUME ~cleared
                 PROVE  KeysMute'
      BY <1>1 DEF KeysMute
    <2>1. KeysMute
      BY DEF HoneypotInv
    <2>2. Announced' \subseteq Announced
      <3> SUFFICES ASSUME NEW a \in Announced'
                   PROVE  a \in Announced
        OBVIOUS
      <3>1. CASE \E j \in DOMAIN alerted' : a = alerted'[j]
        BY <1>6, <1>9, <1>10, <3>1, AnnouncedIs DEF AnnouncedOf
      <3>2. CASE \E v \in Ingests : \E i \in DOMAIN DueOf(v)' : a = DueOf(v)'[i]
        BY <1>12, <3>2, AnnouncedIs DEF AnnouncedOf
      <3> QED
        BY <3>1, <3>2, AnnouncedIs DEF AnnouncedOf
    <2>3. \A a \in Announced' : a.at + MuteFor <= keys'[a.ident]
      BY <1>1, <2>1, <2>2 DEF KeysMute
    <2>4. ASSUME NEW i \in DOMAIN alerted', NEW j \in DOMAIN alerted', i # j
          PROVE  Spaced(alerted'[i], alerted'[j])
      <3>1. CASE i \in DOMAIN alerted /\ j \in DOMAIN alerted
                   /\ alerted'[i] = alerted[i] /\ alerted'[j] = alerted[j]
        BY <2>1, <2>4, <3>1 DEF KeysMute
      <3>2. CASE i \in DOMAIN alerted /\ alerted'[i] = alerted[i] /\ alerted'[j] = due[1]
        BY <1>6, <1>9, <2>1, <3>2 DEF KeysMute
      <3>3. CASE j \in DOMAIN alerted /\ alerted'[j] = alerted[j] /\ alerted'[i] = due[1]
        BY <1>6, <1>9, <2>1, <3>3 DEF KeysMute
      <3> QED
        BY <1>10, <2>4, <3>1, <3>2, <3>3
    <2>5. ASSUME NEW v \in Ingests, NEW i \in DOMAIN DueOf(v)', NEW j \in DOMAIN alerted'
          PROVE  Spaced(DueOf(v)'[i], alerted'[j]) /\ Spaced(alerted'[j], DueOf(v)'[i])
      <3>1. PICK k \in DOMAIN DueOf(v) : DueOf(v)'[i] = DueOf(v)[k] /\ (v = w => k = i + 1)
        BY <1>12
      <3>2. CASE j \in DOMAIN alerted /\ alerted'[j] = alerted[j]
        BY <2>1, <3>1, <3>2 DEF KeysMute
      <3>3. CASE alerted'[j] = due[1] /\ v # w
        BY <1>6, <1>9, <2>1, <3>1, <3>3 DEF KeysMute
      <3>4. CASE alerted'[j] = due[1] /\ v = w
        <4>1. i \in DOMAIN Tail(due)
          BY <1>5, <3>4
        <4>2. k # 1
          BY <1>7, <3>1, <3>4, <4>1
        <4> QED
          BY <1>6, <1>9, <2>1, <3>1, <3>4, <4>2 DEF KeysMute
      <3> QED
        BY <1>10, <3>2, <3>3, <3>4
    <2>6. ASSUME NEW v \in Ingests, NEW i \in DOMAIN DueOf(v)', NEW j \in DOMAIN DueOf(v)', i # j
          PROVE  Spaced(DueOf(v)'[i], DueOf(v)'[j])
      <3>1. CASE v # w
        BY <1>5, <2>1, <2>6, <3>1 DEF KeysMute
      <3>2. CASE v = w
        <4>1. i \in DOMAIN Tail(due) /\ j \in DOMAIN Tail(due) /\ i # j
          BY <1>5, <2>6, <3>2
        <4>2. i + 1 # j + 1
          BY <1>2, <4>1
        <4> QED
          BY <1>5, <1>7, <1>9, <2>1, <3>2, <4>1, <4>2 DEF KeysMute
      <3> QED
        BY <3>1, <3>2
    <2>7. ASSUME NEW u \in Ingests, NEW v \in Ingests \ {u},
                 NEW i \in DOMAIN DueOf(u)', NEW j \in DOMAIN DueOf(v)'
          PROVE  Spaced(DueOf(u)'[i], DueOf(v)'[j])
      <3>1. PICK k \in DOMAIN DueOf(u) : DueOf(u)'[i] = DueOf(u)[k]
        BY <1>12
      <3>2. PICK m \in DOMAIN DueOf(v) : DueOf(v)'[j] = DueOf(v)[m]
        BY <1>12
      <3> QED
        BY <2>1, <3>1, <3>2 DEF KeysMute
    <2> QED
      BY <2>3, <2>4, <2>5, <2>6, <2>7 DEF KeysMute, Spaced
  <1>14. RowsCovered'
    <2> SUFFICES ASSUME ~failed'
                 PROVE  RowsCovered'
      BY DEF RowsCovered
    <2>1. ~failed /\ alerted' = Append(alerted, due[1]) /\ RowsCovered
      BY <1>1, <1>2, <1>6 DEF HoneypotInv
    <2>2. Announced \subseteq Announced'
      <3> SUFFICES ASSUME NEW a \in Announced
                   PROVE  a \in Announced'
        OBVIOUS
      <3>1. CASE \E j \in DOMAIN alerted : a = alerted[j]
        <4>1. \E j \in DOMAIN alerted' : a = alerted'[j]
          BY <1>6, <1>9, <2>1, <3>1
        <4> QED
          BY <4>1, AnnouncedIs DEF AnnouncedOf
      <3>2. CASE \E i \in DOMAIN DueOf(w) : a = DueOf(w)[i]
        <4>1. PICK i \in DOMAIN due : a = due[i]
          BY <1>9, <3>2
        <4>2. CASE i = 1
          <5>1. Len(alerted) + 1 \in DOMAIN alerted' /\ alerted'[Len(alerted) + 1] = due[1]
            BY <1>6, <1>9, <2>1
          <5> QED
            BY <4>1, <4>2, <5>1, AnnouncedIs DEF AnnouncedOf
        <4>3. CASE i # 1
          <5>1. i - 1 \in DOMAIN DueOf(w)' /\ DueOf(w)'[i - 1] = a
            BY <1>5, <1>8, <4>1, <4>3
          <5> QED
            BY <5>1, AnnouncedIs DEF AnnouncedOf
        <4> QED
          BY <4>2, <4>3
      <3>3. CASE \E v \in Ingests \ {w} : \E i \in DOMAIN DueOf(v) : a = DueOf(v)[i]
        <4>1. \E v \in Ingests : \E i \in DOMAIN DueOf(v)' : a = DueOf(v)'[i]
          BY <1>5, <3>3
        <4> QED
          BY <4>1, AnnouncedIs DEF AnnouncedOf
      <3> QED
        BY <3>1, <3>2, <3>3, AnnouncedIs DEF AnnouncedOf
    <2>3. Backed(keys', time', Announced') /\ Covered(stored', Announced')
      BY <1>1, <2>1, <2>2, CoveredStays DEF RowsCovered
    <2>4. ASSUME NEW v \in Ingests
          PROVE  Covered(RowsOf(v)', Announced')
      <3>1. RowsOf(v)' = RowsOf(v)
        BY <1>2, <1>5
      <3>2. Covered(RowsOf(v), Announced')
        BY <2>1, <2>2, CoveredStays DEF RowsCovered
      <3> QED
        BY <3>1, <3>2
    <2> QED
      BY <2>3, <2>4 DEF RowsCovered
  <1> QED
    BY <1>11, <1>13, <1>14 DEF HoneypotInv

(* A report that fails forgets what it would have sent.                    *)
LEMMA IngestFailsKeeps ==
    ASSUME HoneypotInv, NEW w \in Ingests, IngestFails(w)
    PROVE  HoneypotInv'
  <1>1. /\ keys' = keys /\ stored' = stored /\ alerted' = alerted
        /\ queue' = queue /\ report' = report /\ ingest[w].pc # "idle"
        /\ cleared' = cleared /\ listed' = listed /\ time' = time /\ HoneypotTyped
        /\ ingest' = [ingest EXCEPT ![w] = Quiet]
    BY DEF IngestFails, HoneypotInv, podVars
  <1>2. Quiet \in IngestTask /\ Quiet.pc = "idle"
    BY DEF IngestTask
  <1>3. /\ ingest' \in [Ingests -> IngestTask]
        /\ \A v \in Ingests : ingest'[v].pc = "send" => ingest'[v].due # <<>>
        /\ \A v \in Ingests \ {w} : DueOf(v)' = DueOf(v) /\ RowsOf(v)' = RowsOf(v)
        /\ DueOf(w)' = <<>> /\ RowsOf(w)' = <<>>
    BY <1>1, <1>2, IngestMoves
  <1>4. failed' \in BOOLEAN /\ (~failed' => ~failed /\ DueOf(w) = <<>>)
    <2>1. failed' = (failed \/ (ingest[w].pc # "load" /\ ingest[w].due # <<>>))
      BY DEF IngestFails
    <2>2. CASE failed \/ (ingest[w].pc # "load" /\ ingest[w].due # <<>>)
      BY <2>1, <2>2, Zenon
    <2>3. CASE ~(failed \/ (ingest[w].pc # "load" /\ ingest[w].due # <<>>))
      <3>1. failed' = FALSE /\ ~failed
        BY <2>1, <2>3, Zenon
      <3>2. DueOf(w) = <<>>
        BY <2>3 DEF DueOf
      <3> QED
        BY <3>1, <3>2
    <2> QED
      BY <2>2, <2>3
  <1>5. HoneypotTyped'
    BY <1>1, <1>3, <1>4 DEF HoneypotTyped
  <1>6. KeysMute'
    BY <1>1, <1>3, LessIsMute DEF HoneypotInv
  <1>7. RowsCovered'
    <2> SUFFICES ASSUME ~failed'
                 PROVE  RowsCovered'
      BY DEF RowsCovered
    <2>1. ~failed /\ DueOf(w) = <<>> /\ RowsCovered
      BY <1>4 DEF HoneypotInv
    <2>2. Announced' = Announced
      BY <1>1, <1>3, <2>1, AnnouncedStays
    <2>3. ASSUME NEW v \in Ingests
          PROVE  Covered(RowsOf(v)', Announced')
      <3>1. CASE v = w
        BY <1>3, <3>1 DEF Covered
      <3>2. CASE v # w
        BY <1>3, <2>1, <2>2, <3>2 DEF RowsCovered
      <3> QED
        BY <3>1, <3>2
    <2> QED
      BY <1>1, <2>1, <2>2, <2>3 DEF RowsCovered
  <1> QED
    BY <1>5, <1>6, <1>7 DEF HoneypotInv

LEMMA KeysLostKeeps == HoneypotInv /\ KeysLost => HoneypotInv'
  <1> SUFFICES ASSUME HoneypotInv, KeysLost
               PROVE  HoneypotInv'
    OBVIOUS
  <1>1. /\ keys' = [x \in Idents |-> 0] /\ stored' = stored /\ alerted' = alerted
        /\ queue' = queue /\ report' = report /\ ingest' = ingest
        /\ cleared' = TRUE /\ failed' = failed /\ listed' = listed /\ time' = time
        /\ HoneypotTyped /\ RowsCovered
    BY DEF KeysLost, HoneypotInv
  <1>2. \A v \in Ingests : DueOf(v)' = DueOf(v) /\ RowsOf(v)' = RowsOf(v)
    BY <1>1 DEF DueOf, RowsOf
  <1>3. Announced' = Announced
    BY <1>1, <1>2, AnnouncedStays
  <1>4. time \in Nat
    BY <1>1 DEF HoneypotTyped
  <1>5. Backed(keys', time', Announced')
    BY <1>1, <1>4 DEF Backed
  <1>6. RowsCovered'
    BY <1>1, <1>2, <1>3, <1>5 DEF RowsCovered
  <1>7. HoneypotTyped'
    BY <1>1 DEF HoneypotTyped
  <1> QED
    BY <1>1, <1>6, <1>7 DEF HoneypotInv, KeysMute

LEMMA HoneypotNext == HoneypotInv /\ [HoneypotStep]_honeypotVars => HoneypotInv'
  <1> SUFFICES ASSUME HoneypotInv, [HoneypotStep]_honeypotVars
               PROVE  HoneypotInv'
    OBVIOUS
  <1>1. CASE PodStep /\ UNCHANGED alertVars
    BY <1>1, PodStepKeeps
  <1>2. CASE ProcessListed \/ ProcessUnlisted \/ PodDeleted \/ PodTick
    BY <1>2, OperatorKeeps
  <1>3. CASE KeysLost
    BY <1>3, KeysLostKeeps
  <1>4. ASSUME NEW w \in Ingests, IngestStep(w)
        PROVE  HoneypotInv'
    BY <1>4, IngestStartKeeps, IngestLoadKeeps, IngestLookupKeeps, IngestEventKeeps, IngestBlindlyKeeps,
       IngestCommitKeeps, IngestAlertKeeps, IngestFailsKeeps DEF IngestStep
  <1>5. CASE UNCHANGED honeypotVars
    <2>1. /\ keys' = keys /\ stored' = stored /\ alerted' = alerted
          /\ queue' = queue /\ report' = report /\ ingest' = ingest
          /\ cleared' = cleared /\ failed' = failed /\ listed' = listed /\ time' = time
          /\ HoneypotTyped
      BY <1>5 DEF honeypotVars, podVars, alertVars, HoneypotInv
    <2>2. \A v \in Ingests : DueOf(v)' = DueOf(v) /\ RowsOf(v)' = RowsOf(v)
      BY <2>1 DEF DueOf, RowsOf
    <2>3. Calm /\ HoneypotTyped'
      BY <2>1, <2>2 DEF Calm, HoneypotTyped
    <2> QED
      BY <2>1, <2>2, <2>3, CalmCovers DEF HoneypotInv, RowsCovered
  <1> QED
    BY <1>1, <1>2, <1>3, <1>4, <1>5 DEF HoneypotStep

(* Two alerts of one source or file are the window apart unless Redis      *)
(* failed, and every alarming row is covered by an alert unless one was    *)
(* lost: honeypot_ingest and _should_alert, for any number of reports side *)
(* by side.                                                                *)
THEOREM TouchesReportedOnce == HoneypotSpec => []TouchReportedOnce
  <1>1. HoneypotInv => TouchReportedOnce
    <2> SUFFICES ASSUME HoneypotInv
                 PROVE  TouchReportedOnce
      OBVIOUS
    <2>1. cleared \/ \A i, j \in DOMAIN alerted :
            i # j /\ alerted[i].ident = alerted[j].ident
            => alerted[i].at - alerted[j].at \notin (1 - MuteFor)..(MuteFor - 1)
      BY DEF HoneypotInv, KeysMute, Spaced
    <2>2. failed \/ Covered(stored, Announced)
      BY DEF HoneypotInv, RowsCovered
    <2> QED
      BY <2>1, <2>2 DEF TouchReportedOnce, Covered
  <1> QED
    BY <1>1, HoneypotStart, HoneypotNext, PTL DEF HoneypotSpec

----------------------------------------------------------------------------
(* Proofs: the hardware of hosts                                           *)

USE DEF NoScan

(* What an event stored along with others adds to its count.               *)
LEMMA TimesAdds ==
    ASSUME IdentTyped, NEW found, identEvents' = identEvents (+) SetToBag(found)
    PROVE  /\ \A e \in DOMAIN identEvents' : identEvents'[e] \in Nat \ {0}
           /\ DOMAIN identEvents' = DOMAIN identEvents \cup found
           /\ \A type, c :
                /\ Times(type, c) \in Nat
                /\ Times(type, c)' = IF [type |-> type, of |-> c] \in found
                                     THEN Times(type, c) + 1 ELSE Times(type, c)
  <1>1. identEvents' =
          [e \in DOMAIN identEvents \cup found |->
             (IF e \in DOMAIN identEvents THEN identEvents[e] ELSE 0)
             + (IF e \in found THEN 1 ELSE 0)]
    BY DEF (+), SetToBag
  <1>2. \A e \in DOMAIN identEvents : identEvents[e] \in Nat \ {0}
    BY DEF IdentTyped
  <1>3. ASSUME NEW e \in DOMAIN identEvents'
        PROVE  /\ identEvents'[e] \in Nat \ {0}
               /\ identEvents'[e] = (IF e \in DOMAIN identEvents THEN identEvents[e] ELSE 0)
                                     + (IF e \in found THEN 1 ELSE 0)
    BY <1>1, <1>2
  <1>4. DOMAIN identEvents' = DOMAIN identEvents \cup found
    BY <1>1
  <1>5. ASSUME NEW type, NEW c
        PROVE  /\ Times(type, c) \in Nat
               /\ Times(type, c)' = IF [type |-> type, of |-> c] \in found
                                    THEN Times(type, c) + 1 ELSE Times(type, c)
    <2> DEFINE e == [type |-> type, of |-> c]
    <2>1. /\ Times(type, c) = IF e \in DOMAIN identEvents THEN identEvents[e] ELSE 0
          /\ Times(type, c)' = IF e \in DOMAIN identEvents' THEN identEvents'[e] ELSE 0
      BY DEF Times, BagIn, BagToSet
    <2> HIDE DEF e
    <2>2. e \in DOMAIN identEvents => identEvents[e] \in Nat
      BY <1>2
    <2>3. e \in DOMAIN identEvents' =>
            identEvents'[e] = (IF e \in DOMAIN identEvents THEN identEvents[e] ELSE 0)
                               + (IF e \in found THEN 1 ELSE 0)
      BY <1>3
    <2>4. /\ Times(type, c) \in Nat
          /\ Times(type, c)' = IF e \in found THEN Times(type, c) + 1 ELSE Times(type, c)
      BY <1>4, <2>1, <2>2, <2>3
    <2> QED
      BY <2>4 DEF e
  <1> QED
    BY <1>3, <1>4, <1>5

LEMMA FirstsAre ==
    ASSUME NEW c, NEW known
    PROVE  /\ KindOf(c, known) \in Firsts
           /\ "hostname_change" \notin Firsts
           /\ Firsts = {"ip_mac_change", "mac_moved", "new_device"}
  BY DEF KindOf, Firsts

LEMMA IdentityStart == IdentityInit => IdentityInv
  <1> SUFFICES ASSUME IdentityInit
               PROVE  IdentityInv
    OBVIOUS
  <1>1. DOMAIN idents = {} /\ DOMAIN identEvents = {} /\ overlapped = FALSE
        /\ seeded = {} /\ scan = [s \in Scans |-> NoScan]
    BY DEF IdentityInit, EmptyBag, SetToBag
  <1>2. \A s \in Scans : scan[s] = NoScan
    BY <1>1
  <1>3. scan = [s \in Scans |-> scan[s]]
    BY <1>1
  <1>4. bindings \in [Inventory -> HostBinding]
    BY DEF IdentityInit, HostBinding
  <1>6. IdentTyped
    BY <1>1, <1>2, <1>3, <1>4 DEF IdentTyped
  <1>5. \A c : FirstsOf(c) = 0
    BY <1>1 DEF FirstsOf, Times, BagIn, BagToSet
  <1> QED
    BY <1>1, <1>2, <1>5, <1>6 DEF IdentityInv, FirstsCounted, ScanAlone

(* What neither stores nor begins a scan.                                  *)
LEMMA ScansKeep ==
    ASSUME IdentityInv, bindings' \in [Inventory -> HostBinding],
           idents' = idents, identEvents' = identEvents, seeded' = seeded,
           overlapped' = overlapped, scan' = [s \in Scans |-> scan'[s]],
           \A s \in Scans :
             \/ scan'[s] = scan[s]
             \/ scan'[s].pc \in {"idle", "alarm"} /\ (scan[s] = NoScan => scan'[s] = NoScan)
             \/ scan[s].pc = "known" /\ scan'[s].pc = "commit"
                  /\ scan'[s].rows = scan[s].rows /\ scan'[s].known = idents
    PROVE  IdentityInv'
  <1>1. IdentTyped /\ FirstsCounted /\ ScanAlone
    BY DEF IdentityInv
  <1>2. IdentTyped'
    BY <1>1 DEF IdentTyped
  <1>3. \A c : FirstsOf(c)' = FirstsOf(c)
    BY DEF FirstsOf, Times
  <1>4. FirstsCounted'
    BY <1>1, <1>3 DEF FirstsCounted
  <1>5. ScanAlone'
    <2> SUFFICES ASSUME ~overlapped
                 PROVE  ScanAlone'
      BY DEF ScanAlone
    <2>1. \A s \in Scans : scan[s] = NoScan => scan'[s] = NoScan
      OBVIOUS
    <2>2. \A s \in Scans : scan'[s].pc = "commit" => scan'[s].known = idents
      BY <1>1 DEF ScanAlone
    <2> QED
      BY <1>1, <2>1, <2>2 DEF ScanAlone
  <1> QED
    BY <1>2, <1>4, <1>5 DEF IdentityInv

LEMMA ScanReadsKeeps ==
    ASSUME IdentityInv, NEW s \in Scans, ScanReads(s)
    PROVE  IdentityInv'
  <1> DEFINE rows == {<<h, bindings[h].card>> : h \in {x \in Inventory : bindings[x].card # Unknown}}
             task == [pc |-> "known", rows |-> rows, labels |-> [h \in Inventory |-> bindings[h].title]]
  <1>1. IdentTyped /\ FirstsCounted /\ ScanAlone
    BY DEF IdentityInv
  <1>2. /\ idents' = idents /\ identEvents' = identEvents /\ seeded' = seeded
        /\ scan[s] = NoScan /\ scan' = [scan EXCEPT ![s] = task]
        /\ overlapped' = (overlapped \/ \E t \in Scans : scan[t] # NoScan)
        /\ bindings' = bindings
    BY DEF ScanReads
  <1>3. rows \subseteq Combos /\ OneCard(rows)
    <2>1. \A x \in Inventory : bindings[x].card \in Cards \cup {Unknown}
      BY <1>1 DEF IdentTyped, HostBinding
    <2> QED
      BY <2>1 DEF OneCard, Combos
  <1>4. task.pc = "known" /\ task.rows = rows
    OBVIOUS
  <1> HIDE DEF task, rows
  <1>5. /\ scan' = [t \in Scans |-> scan'[t]] /\ scan'[s] = task
        /\ \A t \in Scans \ {s} : scan'[t] = scan[t]
    <2>1. scan = [t \in Scans |-> scan[t]]
      BY <1>1 DEF IdentTyped
    <2>2. scan' = [t \in Scans |-> IF t = s THEN task ELSE scan[t]]
      BY <1>2, <2>1
    <2> QED
      BY <2>2
  <1>6. /\ overlapped' \in BOOLEAN
        /\ ~overlapped' => ~overlapped /\ \A t \in Scans : scan[t] = NoScan
    <2>1. CASE overlapped \/ \E t \in Scans : scan[t] # NoScan
      BY <1>2, <2>1, Zenon
    <2>2. CASE ~(overlapped \/ \E t \in Scans : scan[t] # NoScan)
      BY <1>2, <2>2, Zenon
    <2> QED
      BY <2>1, <2>2
  <1>7. IdentTyped'
    <2>1. \A t \in Scans : scan'[t].pc \in {"known", "commit"} =>
            scan'[t].rows \subseteq Combos /\ OneCard(scan'[t].rows)
      BY <1>1, <1>3, <1>4, <1>5 DEF IdentTyped
    <2> QED
      BY <1>1, <1>2, <1>5, <1>6, <2>1 DEF IdentTyped
  <1>8. \A c : FirstsOf(c)' = FirstsOf(c)
    BY <1>2 DEF FirstsOf, Times
  <1>9. FirstsCounted'
    BY <1>1, <1>2, <1>8 DEF FirstsCounted
  <1>10. ScanAlone'
    <2> SUFFICES ASSUME ~overlapped'
                 PROVE  ScanAlone'
      BY DEF ScanAlone
    <2>1. ~overlapped /\ \A t \in Scans \ {s} : scan'[t] = NoScan
      BY <1>5, <1>6
    <2>2. \A t \in Scans : scan'[t].pc # "commit"
      BY <1>4, <1>5, <2>1
    <2> QED
      BY <1>1, <1>2, <2>1, <2>2 DEF ScanAlone
  <1> QED
    BY <1>7, <1>9, <1>10 DEF IdentityInv

(* Combinations and their events are stored.                               *)
LEMMA ScanCommitsKeeps ==
    ASSUME IdentityInv, NEW s \in Scans, ScanCommits(s)
    PROVE  IdentityInv'
  <1> DEFINE known == DOMAIN scan[s].known
             new == Unseen(s)
             found == Findings(s)
             alarming == {e \in Findings(s) : e.type \in {"ip_mac_change", "hostname_change"}}
             task == IF alarming = {} THEN NoScan
                     ELSE [pc |-> "alarm", due |-> alarming, sent |-> 0]
  <1>1. IdentTyped /\ FirstsCounted /\ ScanAlone
    BY DEF IdentityInv
  <1>2. /\ scan[s].pc = "commit" /\ new \cap DOMAIN idents = {}
        /\ DOMAIN idents' = DOMAIN idents \cup new
        /\ seeded' = IF known = {} THEN seeded \cup new ELSE seeded
        /\ identEvents' = identEvents (+) SetToBag(found)
        /\ scan' = [scan EXCEPT ![s] = task]
        /\ bindings' = bindings /\ overlapped' = overlapped
    BY DEF ScanCommits, Stores
  <1>3. new \subseteq Combos /\ OneCard(new) /\ new \cap known = {}
    BY <1>1, <1>2 DEF Unseen, IdentTyped, OneCard
  <1>4. task.pc \in {"idle", "alarm"}
    OBVIOUS
  <1>5. ASSUME NEW c, NEW t \in Firsts
        PROVE  [type |-> t, of |-> c] \in found
                 <=> known # {} /\ c \in new /\ t = KindOf(c, known)
    <2> DEFINE renamed == {d \in scan[s].rows \cap DOMAIN scan[s].known :
                             Unknown \notin {scan[s].labels[d[1]], scan[s].known[d]}
                               /\ scan[s].labels[d[1]] # scan[s].known[d]}
    <2>1. found = IF known = {} THEN {}
                  ELSE {[type |-> KindOf(d, known), of |-> d] : d \in new}
                         \cup {[type |-> "hostname_change", of |-> d] : d \in renamed}
      BY DEF Findings, Unseen
    <2>2. t # "hostname_change"
      BY FirstsAre
    <2> HIDE DEF renamed, found, known, new
    <2>3. \A d : [type |-> t, of |-> c] = [type |-> KindOf(d, known), of |-> d]
                   <=> c = d /\ t = KindOf(c, known)
      OBVIOUS
    <2>4. \A d : [type |-> t, of |-> c] # [type |-> "hostname_change", of |-> d]
      BY <2>2
    <2> QED
      BY <2>1, <2>3, <2>4
  <1>6. /\ \A e \in DOMAIN identEvents' : identEvents'[e] \in Nat \ {0}
        /\ DOMAIN identEvents' = DOMAIN identEvents \cup found
        /\ \A type, c :
             /\ Times(type, c) \in Nat
             /\ Times(type, c)' = IF [type |-> type, of |-> c] \in found
                                  THEN Times(type, c) + 1 ELSE Times(type, c)
    BY <1>1, <1>2, TimesAdds
  <1> HIDE DEF known, new, found, alarming, task
  <1>7. ASSUME NEW c
        PROVE  /\ FirstsOf(c)' = IF known # {} /\ c \in new THEN FirstsOf(c) + 1 ELSE FirstsOf(c)
               /\ FirstsOf(c) \in Nat
    <2>1. \A t \in Firsts : /\ Times(t, c) \in Nat
            /\ Times(t, c)' = IF known # {} /\ c \in new /\ t = KindOf(c, known)
                              THEN Times(t, c) + 1 ELSE Times(t, c)
      BY <1>5, <1>6
    <2>2. KindOf(c, known) \in Firsts /\ Firsts = {"ip_mac_change", "mac_moved", "new_device"}
      BY FirstsAre
    <2> DEFINE a == Times("ip_mac_change", c)  b == Times("mac_moved", c)  d == Times("new_device", c)
    <2>3. FirstsOf(c) = a + b + d /\ FirstsOf(c)' = a' + b' + d'
      BY DEF FirstsOf
    <2>4. /\ a \in Nat /\ b \in Nat /\ d \in Nat
          /\ a' = IF known # {} /\ c \in new /\ KindOf(c, known) = "ip_mac_change" THEN a + 1 ELSE a
          /\ b' = IF known # {} /\ c \in new /\ KindOf(c, known) = "mac_moved" THEN b + 1 ELSE b
          /\ d' = IF known # {} /\ c \in new /\ KindOf(c, known) = "new_device" THEN d + 1 ELSE d
      BY <2>1, <2>2
    <2> HIDE DEF a, b, d
    <2> QED
      BY <2>2, <2>3, <2>4
  <1>8. FirstsCounted'
    <2>1. ASSUME NEW c \in DOMAIN idents'
          PROVE  FirstsOf(c)' = IF c \in seeded' THEN 0 ELSE 1
      <3>1. CASE c \in new
        <4>1. FirstsOf(c) = 0 /\ c \notin seeded
          BY <1>1, <1>2, <1>3, <3>1 DEF FirstsCounted, IdentTyped
        <4> QED
          BY <1>2, <1>7, <3>1, <4>1
      <3>2. CASE c \notin new
        <4>1. c \in DOMAIN idents /\ (c \in seeded' <=> c \in seeded)
          BY <1>2, <3>2
        <4> QED
          BY <1>1, <1>7, <3>2, <4>1 DEF FirstsCounted
      <3> QED
        BY <3>1, <3>2
    <2>2. ASSUME NEW c \in Combos \ DOMAIN idents'
          PROVE  FirstsOf(c)' = 0
      BY <1>1, <1>2, <1>7 DEF FirstsCounted
    <2> QED
      BY <2>1, <2>2 DEF FirstsCounted
  <1>9. /\ scan' = [t \in Scans |-> scan'[t]] /\ scan'[s] = task
        /\ \A t \in Scans \ {s} : scan'[t] = scan[t]
    <2>1. scan = [t \in Scans |-> scan[t]]
      BY <1>1 DEF IdentTyped
    <2>2. scan' = [t \in Scans |-> IF t = s THEN task ELSE scan[t]]
      BY <1>2, <2>1
    <2> QED
      BY <2>2
  <1>10. IdentTyped'
    <2>1. \A t \in Scans : scan'[t].pc \in {"known", "commit"} =>
            scan'[t].rows \subseteq Combos /\ OneCard(scan'[t].rows)
      BY <1>1, <1>4, <1>9 DEF IdentTyped
    <2>2. seeded' \subseteq DOMAIN idents' /\ DOMAIN idents' \subseteq Combos
      BY <1>1, <1>2, <1>3 DEF IdentTyped
    <2> QED
      BY <1>1, <1>2, <1>6, <1>9, <2>1, <2>2 DEF IdentTyped
  <1>11. ScanAlone'
    <2> SUFFICES ASSUME ~overlapped
                 PROVE  ScanAlone'
      BY <1>2 DEF ScanAlone
    <2>1. \A t \in Scans \ {s} : scan'[t] = NoScan /\ scan[t] = NoScan
      BY <1>1, <1>2, <1>9 DEF ScanAlone
    <2>2. \A t \in Scans : scan'[t].pc # "commit"
      BY <1>4, <1>9, <2>1
    <2>3. known = DOMAIN idents
      BY <1>1, <1>2 DEF ScanAlone, known
    <2>4. ASSUME NEW c \in new, NEW d \in DOMAIN idents, c[1] = d[1]
          PROVE  BagIn([type |-> "ip_mac_change", of |-> c], identEvents)'
      <3>1. KindOf(c, known) = "ip_mac_change" /\ known # {}
        BY <2>3, <2>4 DEF KindOf
      <3>2. [type |-> "ip_mac_change", of |-> c] \in found
        BY <1>5, <3>1, FirstsAre
      <3> QED
        BY <1>6, <3>2 DEF BagIn, BagToSet
    <2>5. \A e : BagIn(e, identEvents) => BagIn(e, identEvents)'
      BY <1>6 DEF BagIn, BagToSet
    <2>6. ASSUME NEW c \in DOMAIN idents', NEW d \in DOMAIN idents', c[1] = d[1], c # d
          PROVE  \E x \in {c, d} : BagIn([type |-> "ip_mac_change", of |-> x], identEvents)'
      <3>1. CASE c \in DOMAIN idents /\ d \in DOMAIN idents
        BY <1>1, <2>5, <2>6, <3>1 DEF ScanAlone
      <3>2. CASE c \in new /\ d \in DOMAIN idents
        BY <2>4, <2>6, <3>2
      <3>3. CASE d \in new /\ c \in DOMAIN idents
        BY <2>4, <2>6, <3>3
      <3>4. CASE c \in new /\ d \in new
        BY <1>3, <2>6, <3>4 DEF OneCard
      <3> QED
        BY <1>2, <3>1, <3>2, <3>3, <3>4
    <2> QED
      BY <2>1, <2>2, <2>6 DEF ScanAlone
  <1> QED
    BY <1>8, <1>10, <1>11 DEF IdentityInv

LEMMA IdentityNext == IdentityInv /\ [IdentityStep]_identVars => IdentityInv'
  <1> SUFFICES ASSUME IdentityInv, [IdentityStep]_identVars
               PROVE  IdentityInv'
    OBVIOUS
  <1>0. scan = [t \in Scans |-> scan[t]] /\ bindings \in [Inventory -> HostBinding]
    BY DEF IdentityInv, IdentTyped
  <1>1. CASE \E s \in Scans : ScanReads(s)
    BY <1>1, ScanReadsKeeps
  <1>2. CASE \E s \in Scans : ScanCommits(s)
    BY <1>2, ScanCommitsKeeps
  <1>3. ASSUME NEW s \in Scans, ScanCompares(s)
        PROVE  IdentityInv'
    <2> DEFINE task == [pc |-> "commit", rows |-> scan[s].rows, labels |-> scan[s].labels,
                        known |-> idents]
    <2>1. scan' = [scan EXCEPT ![s] = task] /\ scan[s].pc = "known"
          /\ UNCHANGED <<bindings, idents, identEvents, identAlarms, seeded, overlapped>>
      BY <1>3 DEF ScanCompares
    <2>2. task.pc = "commit" /\ task.rows = scan[s].rows /\ task.known = idents
      OBVIOUS
    <2> HIDE DEF task
    <2>3. scan' = [t \in Scans |-> IF t = s THEN task ELSE scan[t]]
      BY <1>0, <2>1
    <2>4. scan' = [t \in Scans |-> scan'[t]] /\ scan'[s] = task
          /\ \A t \in Scans \ {s} : scan'[t] = scan[t]
      BY <2>3
    <2> QED
      BY <1>0, <2>1, <2>2, <2>4, ScansKeep
  <1>4. ASSUME NEW s \in Scans, ScanConflicts(s) \/ ScanAlarms(s)
        PROVE  IdentityInv'
    <2>1. PICK task : /\ scan' = [scan EXCEPT ![s] = task] /\ task.pc \in {"idle", "alarm"}
                      /\ scan[s] # NoScan
                      /\ UNCHANGED <<bindings, idents, identEvents, seeded, overlapped>>
      <3>1. CASE ScanConflicts(s)
        <4>1. /\ scan' = [scan EXCEPT ![s] = NoScan] /\ NoScan.pc = "idle" /\ scan[s] # NoScan
              /\ UNCHANGED <<bindings, idents, identEvents, seeded, overlapped>>
          BY <3>1 DEF ScanConflicts
        <4> HIDE DEF NoScan
        <4> QED
          BY <4>1
      <3>2. CASE ScanAlarms(s)
        <4>1. PICK e \in scan[s].due :
                scan' = [scan EXCEPT ![s] =
                  IF scan[s].due = {e} \/ scan[s].sent + 1 = AlarmLimit THEN NoScan
                  ELSE [pc |-> "alarm", due |-> scan[s].due \ {e}, sent |-> scan[s].sent + 1]]
          BY <3>2 DEF ScanAlarms
        <4>2. scan[s].pc = "alarm"
          BY <3>2 DEF ScanAlarms
        <4> DEFINE task == IF scan[s].due = {e} \/ scan[s].sent + 1 = AlarmLimit THEN NoScan
                  ELSE [pc |-> "alarm", due |-> scan[s].due \ {e}, sent |-> scan[s].sent + 1]
        <4>3. task.pc \in {"idle", "alarm"}
          OBVIOUS
        <4>4. UNCHANGED <<bindings, idents, identEvents, seeded, overlapped>>
          BY <3>2 DEF ScanAlarms
        <4>5. scan' = [scan EXCEPT ![s] = task] /\ scan[s] # NoScan
          BY <4>1, <4>2
        <4> HIDE DEF task
        <4> QED
          BY <4>3, <4>4, <4>5
      <3> QED
        BY <1>4, <3>1, <3>2
    <2>2. scan' = [t \in Scans |-> IF t = s THEN task ELSE scan[t]]
      BY <1>0, <2>1
    <2>3. scan' = [t \in Scans |-> scan'[t]] /\ scan'[s] = task
          /\ \A t \in Scans \ {s} : scan'[t] = scan[t]
      BY <2>2
    <2> QED
      BY <1>0, <2>1, <2>3, ScansKeep
  <1>5. CASE Rebound
    <2>1. bindings' \in [Inventory -> HostBinding]
      BY <1>0, <1>5 DEF Rebound, HostBinding
    <2>2. UNCHANGED <<idents, identEvents, identAlarms, scan, seeded, overlapped>>
      BY <1>5 DEF Rebound
    <2> QED
      BY <1>0, <2>1, <2>2, ScansKeep
  <1>6. CASE ScansDie
    <2>1. scan' = [t \in Scans |-> NoScan]
          /\ UNCHANGED <<bindings, idents, identEvents, seeded, overlapped>>
      BY <1>6 DEF ScansDie
    <2>2. scan' = [t \in Scans |-> scan'[t]] /\ \A t \in Scans : scan'[t] = NoScan
      BY <2>1
    <2> QED
      BY <1>0, <2>1, <2>2, ScansKeep
  <1>7. CASE UNCHANGED identVars
    <2>1. UNCHANGED <<bindings, idents, identEvents, scan, seeded, overlapped>>
      BY <1>7 DEF identVars
    <2> QED
      BY <1>0, <2>1, ScansKeep
  <1> QED
    BY <1>1, <1>2, <1>3, <1>4, <1>5, <1>6, <1>7 DEF IdentityStep, ScanStep

(* What the first scan did not learn is reported exactly once, however     *)
(* scans overlap or conflict over a row, and an address with two hardware  *)
(* addresses has its event unless scans ran side by side: host_identity,   *)
(* for any number of scans, addresses and restarts.                        *)
THEOREM IdentitiesReportedOnce == IdentitySpec => []IdentityReportedOnce
  <1>1. IdentityInv => IdentityReportedOnce
    BY DEF IdentityInv, FirstsCounted, ScanAlone, IdentityReportedOnce
  <1> QED
    BY <1>1, IdentityStart, IdentityNext, PTL DEF IdentitySpec

----------------------------------------------------------------------------
(* Proofs: types                                                           *)

\* What the types of the names add: the queue, and the bound on the work.
NamesBounded == pending \subseteq Hosts /\ hostWork \in 0..MaxHostWork

(* Rows, resolvers, the edit and the queue of hostname_service keep their  *)
(* types, and the work stays within its bound.                             *)
LEMMA NamesStayTyped == NameSpec => []NamesTypeOK
  <1>1. NamesInit => NamesBounded
    BY HostNamesAssumption DEF NamesInit, NamesBounded
  <1>2. NamesInv /\ NamesBounded /\ [NameStep]_nameVars => NamesBounded'
    <2> SUFFICES ASSUME NamesInv, NamesBounded, [NameStep]_nameVars
                 PROVE  NamesBounded'
      OBVIOUS
    <2>1. pending' \subseteq Hosts /\ (UNCHANGED hostWork \/ Works)
      <3>1. CASE UNCHANGED nameVars
        BY <3>1 DEF nameVars, NamesBounded
      <3>2. ASSUME NEW r \in Resolvers, ResolveStep(r)
            PROVE  pending' \subseteq Hosts /\ (UNCHANGED hostWork \/ Works)
        BY <3>2 DEF NamesBounded, ResolveStep, WorkerTakes, ReconcilePressed, Resolved, Stored,
                    StoreFails
      <3> QED
        BY <3>1, <3>2 DEF NamesBounded, NameStep, Queue, EditBegins, EditStored, ResolversDie
    <2> QED
      BY <2>1, HostNamesAssumption DEF NamesBounded, Works
  <1>3. NamesInv /\ NamesBounded => NamesTypeOK
    <2> SUFFICES ASSUME NamesTyped, NamesBounded
                 PROVE  NamesTypeOK
      BY DEF NamesInv
    <2>1. \A r \in Resolvers, h \in Hosts : resolve[r][h].pc \in {"idle", "resolve", "store"}
      <3>1. \A t \in NameTask : t.pc \in {"idle", "resolve", "store"}
        BY DEF NameTask, NoTask
      <3> QED
        BY <3>1 DEF NamesTyped
    <2>2. editor.pc \in {"idle", "store"}
      BY DEF NamesTyped, NoTask
    <2> QED
      BY <2>1, <2>2 DEF NamesTyped, NamesBounded, NamesTypeOK, NameRow
  <1> QED
    BY <1>1, <1>2, <1>3, NamesStart, NamesNext, PTL DEF NameSpec

\* What the types of the client add: the bounds.
SophosBounded == saves \in 0..MaxSaves /\ started \in 0..MaxSophosCalls

(* What a call to Sophos Central carries keeps its type at every step of it,*)
(* and saves and calls stay within their bounds.                           *)
LEMMA SophosStaysTyped == SophosSpec => []SophosTypeOK
  <1>1. SophosInit => SophosBounded
    BY SophosClientAssumption DEF SophosInit, SophosBounded
  <1>2. SophosBounded /\ [SophosStep]_sophosVars => SophosBounded'
    <2> SUFFICES ASSUME SophosBounded, [SophosStep]_sophosVars
                 PROVE  SophosBounded'
      OBVIOUS
    <2>1. /\ UNCHANGED saves \/ (saves < MaxSaves /\ saves' = saves + 1)
          /\ UNCHANGED started \/ (started < MaxSophosCalls /\ started' = started + 1)
      <3>1. CASE UNCHANGED sophosVars
        BY <3>1 DEF sophosVars
      <3>2. ASSUME NEW c \in SophosCalls, CallStep(c)
            PROVE  UNCHANGED saves
                   /\ (UNCHANGED started \/ (started < MaxSophosCalls /\ started' = started + 1))
        BY <3>2 DEF CallStep, CallStart, LoggedIn, Identified, LoginFails, ResourceAnswered,
                    NextSearchPage, TestConnection
      <3> QED
        BY <3>1, <3>2 DEF SophosStep, SettingsSaved, TokenExpires
    <2> QED
      BY <2>1, SophosClientAssumption DEF SophosBounded
  <1>3. SophosInv /\ SophosBounded => SophosTypeOK
    <2>1. \A call \in SophosCall : call.pc \in {"idle", "login", "whoami", "sent"}
      BY DEF SophosCall, NoCall
    <2> QED
      BY <2>1 DEF SophosInv, SophosTyped, SophosBounded, SophosTypeOK
  <1> QED
    BY <1>1, <1>2, <1>3, SophosStart, SophosNext, PTL DEF SophosSpec

\* What the types of the watch over sign-ins add: when each came in, and that
\* every decision asks about something.
SignInsBounded ==
    /\ today \in Nat
    /\ \A i \in DOMAIN logins : logins[i].at \in 0..today
    /\ \A i \in DOMAIN asks : asks[i] # {}

(* No sign-in, decision or revocation is of a time to come or about nothing,*)
(* however the two watches over them overlap.                              *)
LEMMA SignInsStayTyped == SignInSpec => []SignInsTypeOK
  <1>1. SignInsInit => SignInsBounded
    BY DEF SignInsInit, SignInsBounded
  <1>2. SignInsInv /\ SignInsBounded /\ [SignInStep]_signInVars => SignInsBounded'
    <2> SUFFICES ASSUME SignInsInv, SignInsBounded, [SignInStep]_signInVars
                 PROVE  SignInsBounded'
      OBVIOUS
    <2>1. SignInsTyped
      BY DEF SignInsInv
    <2>2. CASE SignedIn
      <3>1. PICK shows \in (SUBSET Keys) \ {{}} :
              logins' = Append(logins, [shows |-> shows, at |-> today])
        BY <2>2 DEF SignedIn
      <3>2. \A i \in DOMAIN logins' : logins'[i].at \in 0..today
        <4> DEFINE new == [shows |-> shows, at |-> today]
        <4>1. new \in SignIn /\ new.at = today
          BY <2>1 DEF SignIn, SignInsTyped
        <4> HIDE DEF new
        <4>2. \A i \in DOMAIN logins' :
                (i \in DOMAIN logins /\ logins'[i] = logins[i]) \/ logins'[i] = new
          BY <2>1, <3>1, <4>1 DEF SignInsTyped, new
        <4> QED
          BY <4>1, <4>2 DEF SignInsBounded
      <3> QED
        BY <2>2, <3>2 DEF SignInsBounded, SignedIn
    <2>3. CASE SignInTick
      BY <2>1, <2>3 DEF SignInsBounded, SignInTick
    <2>4. ASSUME NEW p \in Looks, Ask(p) PROVE SignInsBounded'
      <3>1. PICK i \in Unasked(p) : asks' \in {Append(asks, look[p].news[i]), asks}
        BY <2>4 DEF Ask
      <3>2. look[p].news[i] \in SUBSET Keys /\ look[p].news[i] # {}
        <4>1. look[p] \in LookTask /\ look[p].pc = "ask"
          BY <2>1, <2>4 DEF Ask, Asking, SignInsTyped
        <4>2. look[p].news \in Seq(SUBSET Keys)
          BY <4>1 DEF LookTask, NoLook
        <4> QED
          BY <3>1, <4>2 DEF Unasked
      <3>3. \A k \in DOMAIN asks' : asks'[k] # {}
        BY <2>1, <3>1, <3>2 DEF SignInsTyped, SignInsBounded
      <3> QED
        BY <2>4, <3>3 DEF SignInsBounded, Ask
    <2>5. ASSUME UNCHANGED <<logins, asks, today>> PROVE SignInsBounded'
      BY <2>5 DEF SignInsBounded
    <2> QED
      BY <2>2, <2>3, <2>4, <2>5
         DEF SignInStep, signInVars, LookStep, LookStart, LookLoad, Learn, LearnConflict, LooksDie
  <1>3. SignInsInv /\ SignInsBounded => SignInsTypeOK
    <2> SUFFICES ASSUME SignInsTyped, News2Ask, SignInsBounded
                 PROVE  SignInsTypeOK
      BY DEF SignInsInv
    <2>1. \A i \in DOMAIN logins : logins[i].shows \subseteq Keys
      <3>1. \A i \in DOMAIN logins : logins[i] \in SignIn
        BY DEF SignInsTyped
      <3> QED
        BY <3>1 DEF SignIn
    <2>2. \A p \in Looks : look[p].pc \in {"idle", "load", "learn", "ask"}
      <3>1. \A t \in LookTask : t.pc \in {"idle", "load", "learn", "ask"}
        BY DEF LookTask, NoLook
      <3> QED
        BY <3>1 DEF SignInsTyped
    <2> QED
      BY <2>1, <2>2 DEF SignInsTyped, News2Ask, SignInsBounded, SignInsTypeOK
  <1> QED
    BY <1>1, <1>2, <1>3, SignInsStart, SignInsNext, PTL DEF SignInSpec

\* What the types of the poll add, whatever bot is in use: where the ids of a
\* bot lie, and that what was dropped had been given.
PollBounded ==
    /\ lives \in 0..MaxPollFaults /\ IsFiniteSet(Given) /\ dropped \subseteq Given
    /\ \A b \in Bots :
         /\ nextId[b] \in FirstId[b]..FirstId[b] + MaxUpdates
         /\ backlog[b] \subseteq FirstId[b]..nextId[b] - 1
    /\ poll # Waiting => poll.rest \subseteq FirstId[poll.of]..nextId[poll.of] - 1

\* What a bot has given are the ids below its next one.
LEMMA BelowNext ==
  ASSUME NEW b \in Bots, NEW next \in Nat, next <= FirstId[b] + MaxUpdates
  PROVE  \A id : <<b, id>> \in PollIds /\ id < next <=> id \in FirstId[b]..next - 1
  <1>1. FirstId[b] \in Nat /\ MaxUpdates \in Nat
    BY TelegramPollAssumption DEF Bots
  <1> SUFFICES ASSUME NEW id
               PROVE  <<b, id>> \in PollIds /\ id < next <=> id \in FirstId[b]..next - 1
    OBVIOUS
  <1>2. <<b, id>> \in PollIds <=> id \in FirstId[b]..FirstId[b] + MaxUpdates
    <2>1. ASSUME NEW c \in Bots, <<b, id>> \in {<<c, x>> : x \in FirstId[c]..FirstId[c] + MaxUpdates}
          PROVE  id \in FirstId[b]..FirstId[b] + MaxUpdates
      BY <2>1
    <2>2. id \in FirstId[b]..FirstId[b] + MaxUpdates
            => <<b, id>> \in {<<b, x>> : x \in FirstId[b]..FirstId[b] + MaxUpdates}
      OBVIOUS
    <2> QED
      BY <2>1, <2>2 DEF PollIds
  <1> QED
    BY <1>1, <1>2

LEMMA GivenIs ==
  ASSUME PollTyped, NEW b \in Bots, nextId[b] <= FirstId[b] + MaxUpdates
  PROVE  \A id : <<b, id>> \in Given <=> id \in FirstId[b]..nextId[b] - 1
  <1>1. nextId[b] \in Nat
    BY DEF PollTyped
  <1>2. \A id : <<b, id>> \in Given <=> <<b, id>> \in PollIds /\ id < nextId[b]
    BY DEF Given
  <1> QED
    BY <1>1, <1>2, BelowNext

LEMMA GivenPair ==
  ASSUME NEW u \in Given
  PROVE  \E b \in Bots : \E id : u = <<b, id>>
  <1>1. PICK b \in Bots : u \in {<<b, id>> : id \in FirstId[b]..FirstId[b] + MaxUpdates}
    BY DEF Given, PollIds
  <1> QED
    BY <1>1

LEMMA NothingGiven == PollInit => Given = {}
  <1> SUFFICES ASSUME PollInit, NEW u \in Given
               PROVE  FALSE
    OBVIOUS
  <1>1. PICK b \in Bots : \E id : u = <<b, id>>
    BY GivenPair
  <1>2. PICK id : u = <<b, id>>
    BY <1>1
  <1>3. /\ FirstId[b] \in Nat /\ nextId[b] = FirstId[b] /\ MaxUpdates \in Nat
    BY TelegramPollAssumption DEF PollInit, Bots
  <1>4. id \in FirstId[b]..nextId[b] - 1
    BY <1>2, <1>3, GivenIs, PollStart DEF PollInv
  <1> QED
    BY <1>3, <1>4

\* The bound on updates keeps every id within those that are counted.
LEMMA RoomForOne ==
  ASSUME PollTyped, IsFiniteSet(Given), NEW b \in Bots,
         nextId[b] \in FirstId[b]..FirstId[b] + MaxUpdates,
         Cardinality(Given) < MaxUpdates
  PROVE  nextId[b] < FirstId[b] + MaxUpdates
  <1>1. FirstId[b] \in Nat /\ nextId[b] \in Nat /\ MaxUpdates \in Nat
    BY TelegramPollAssumption DEF PollTyped, Bots
  <1> SUFFICES ASSUME nextId[b] = FirstId[b] + MaxUpdates
               PROVE  FALSE
    BY <1>1
  <1> DEFINE ids == FirstId[b]..nextId[b] - 1
             pair == [id \in ids |-> <<b, id>>]
  <1>2. \A id \in ids : <<b, id>> \in Given
    BY <1>1, GivenIs
  <1>3. pair \in Injection(ids, Given)
    <2>1. \A x, y \in ids : <<b, x>> = <<b, y>> => x = y
      OBVIOUS
    <2> HIDE DEF ids
    <2>2. pair \in [ids -> Given] /\ \A x \in ids : pair[x] = <<b, x>>
      BY <1>2
    <2> QED
      BY <2>1, <2>2, Zenon DEF Injection, IsInjective
  <1>4. Cardinality(ids) <= Cardinality(Given)
    <2> HIDE DEF ids, pair
    <2> QED
      BY <1>3, FS_Injection
  <1>5. Cardinality(ids) = MaxUpdates
    <2>1. FirstId[b] \in Int /\ nextId[b] - 1 \in Int
      BY <1>1
    <2>2. Cardinality(ids) = IF FirstId[b] > nextId[b] - 1 THEN 0 ELSE nextId[b] - 1 - FirstId[b] + 1
      BY <2>1, FS_Interval
    <2> HIDE DEF ids
    <2> QED
      BY <1>1, <2>2
  <1>6. Cardinality(Given) \in Nat
    BY FS_CardinalityType
  <1> HIDE DEF ids
  <1> QED
    BY <1>1, <1>4, <1>5, <1>6

LEMMA PollBoundedStart == PollInit => PollBounded
  <1> SUFFICES ASSUME PollInit
               PROVE  PollBounded
    OBVIOUS
  <1>1. \A b \in Bots : FirstId[b] \in Nat /\ MaxUpdates \in Nat
    BY TelegramPollAssumption DEF Bots
  <1>2. IsFiniteSet(Given) /\ dropped \subseteq Given
    BY NothingGiven, FS_EmptySet DEF PollInit
  <1> QED
    BY <1>1, <1>2, TelegramPollAssumption DEF PollInit, PollBounded

\* The update at hand had been given.
LEMMA CurrentGiven ==
  ASSUME PollInv, PollBounded, poll.pc = "handle"
  PROVE  Current \in Given
  <1>1. PollTyped /\ poll # Waiting
    BY DEF PollInv, Waiting
  <1>2. Current = <<poll.of, Upcoming>> /\ Upcoming \in poll.rest /\ poll.of \in Bots
    BY <1>1, OldestAtHand
  <1> QED
    BY <1>1, <1>2, GivenIs, TelegramPollAssumption DEF PollBounded, Bots, PollTyped

LEMMA UpdateBounded == PollInv /\ PollBounded /\ Update => PollBounded'
  <1> SUFFICES ASSUME PollInv, PollBounded, Update
               PROVE  PollBounded'
    OBVIOUS
  <1>1. /\ PollTyped /\ PollTyped' /\ bot \in Bots
        /\ UNCHANGED <<bot, poll, dropped, lives>>
        /\ backlog' = [backlog EXCEPT ![bot] = @ \cup {nextId[bot]}]
        /\ nextId' = [nextId EXCEPT ![bot] = @ + 1]
        /\ Cardinality(Given) < MaxUpdates
    BY UpdateKeeps DEF PollInv, PollTyped, Update
  <1>2. \A b \in Bots : FirstId[b] \in Nat /\ nextId[b] \in Nat /\ MaxUpdates \in Nat
    BY <1>1, TelegramPollAssumption DEF PollTyped, Bots
  <1>3. nextId[bot] < FirstId[bot] + MaxUpdates
    BY <1>1, RoomForOne DEF PollBounded
  <1>4. \A b \in Bots :
          nextId'[b] = (IF b = bot THEN nextId[b] + 1 ELSE nextId[b])
          /\ backlog'[b] = (IF b = bot THEN backlog[b] \cup {nextId[b]} ELSE backlog[b])
    BY <1>1 DEF PollTyped
  <1>5. ASSUME NEW b \in Bots
        PROVE  /\ nextId'[b] \in FirstId[b]..FirstId[b] + MaxUpdates
               /\ backlog'[b] \subseteq FirstId[b]..nextId'[b] - 1
    <2>1. /\ nextId[b] \in FirstId[b]..FirstId[b] + MaxUpdates
          /\ backlog[b] \subseteq FirstId[b]..nextId[b] - 1
      BY DEF PollBounded
    <2>2. FirstId[b] \in Nat /\ nextId[b] \in Nat /\ MaxUpdates \in Nat
      BY <1>2
    <2>3. CASE b = bot
      <3>1. nextId'[b] = nextId[b] + 1 /\ backlog'[b] = backlog[b] \cup {nextId[b]}
        BY <1>4, <2>3
      <3>2. nextId[b] < FirstId[b] + MaxUpdates
        BY <1>3, <2>3
      <3> QED
        BY <2>1, <2>2, <3>1, <3>2
    <2>4. CASE b # bot
      BY <1>4, <2>1, <2>4
    <2> QED
      BY <2>3, <2>4
  <1>6. ASSUME NEW b \in Bots, NEW id
        PROVE  <<b, id>> \in Given' <=> <<b, id>> \in Given \/ (b = bot /\ id = nextId[bot])
    <2>1. <<b, id>> \in Given' <=> id \in FirstId[b]..nextId'[b] - 1
      <3>1. nextId'[b] <= FirstId[b] + MaxUpdates
        BY <1>2, <1>5
      <3>2. <<b, id>> \in Given' <=> <<b, id>> \in PollIds /\ id < nextId'[b]
        BY DEF Given
      <3>3. nextId'[b] \in Nat
        BY <1>1 DEF PollTyped
      <3> QED
        BY <3>1, <3>2, <3>3, BelowNext
    <2>2. <<b, id>> \in Given <=> id \in FirstId[b]..nextId[b] - 1
      BY <1>1, <1>2, GivenIs DEF PollBounded
    <2>3. nextId[b] \in FirstId[b]..FirstId[b] + MaxUpdates
      BY DEF PollBounded
    <2>4. CASE b = bot
      <3>1. nextId'[b] = nextId[b] + 1 /\ FirstId[b] \in Nat /\ nextId[b] \in Nat
        BY <1>2, <1>4, <2>4
      <3> QED
        BY <2>1, <2>2, <2>3, <2>4, <3>1
    <2>5. CASE b # bot
      BY <1>4, <2>1, <2>2, <2>5
    <2> QED
      BY <2>4, <2>5
  <1>7. Given' \subseteq Given \cup {<<bot, nextId[bot]>>} /\ Given \subseteq Given'
    <2>1. ASSUME NEW u \in Given \cup Given' PROVE \E b \in Bots : \E id : u = <<b, id>>
      <3>1. PICK b \in Bots : u \in {<<b, id>> : id \in FirstId[b]..FirstId[b] + MaxUpdates}
        BY <2>1 DEF Given, PollIds
      <3> QED
        BY <3>1
    <2>2. ASSUME NEW u \in Given' PROVE u \in Given \cup {<<bot, nextId[bot]>>}
      BY <1>6, <2>1
    <2>3. ASSUME NEW u \in Given PROVE u \in Given'
      BY <1>6, <2>1
    <2> QED
      BY <2>2, <2>3
  <1>8. IsFiniteSet(Given') /\ dropped' \subseteq Given'
    <2>1. IsFiniteSet(Given) /\ dropped \subseteq Given
      BY DEF PollBounded
    <2>2. IsFiniteSet(Given \cup {<<bot, nextId[bot]>>})
      BY <2>1, FS_AddElement
    <2> QED
      BY <1>1, <1>7, <2>1, <2>2, FS_Subset
  <1>9. poll' # Waiting => poll'.rest \subseteq FirstId[poll'.of]..nextId'[poll'.of] - 1
    <2> SUFFICES ASSUME poll # Waiting
                 PROVE  poll.rest \subseteq FirstId[poll.of]..nextId'[poll.of] - 1
      BY <1>1
    <2>1. poll.of \in Bots /\ poll.rest \subseteq FirstId[poll.of]..nextId[poll.of] - 1
      BY <1>1, OldestAtHand DEF PollBounded
    <2>2. /\ FirstId[poll.of] \in Nat /\ nextId[poll.of] \in Nat
          /\ nextId'[poll.of] = nextId[poll.of] \/ nextId'[poll.of] = nextId[poll.of] + 1
      BY <1>2, <1>4, <2>1
    <2> QED
      BY <2>1, <2>2
  <1>10. lives' \in 0..MaxPollFaults
    BY <1>1 DEF PollBounded
  <1> QED
    BY <1>5, <1>8, <1>9, <1>10 DEF PollBounded

LEMMA FetchBounded == PollInv /\ PollBounded /\ PollFetches => PollBounded'
  <1> SUFFICES ASSUME PollInv, PollBounded, PollFetches
               PROVE  PollBounded'
    OBVIOUS
  <1> DEFINE open == {id \in backlog[bot] : id >= offset}
             answer == {id \in open : Cardinality({k \in open : k < id}) < PollLimit}
  <1>1. /\ PollTyped /\ bot \in Bots /\ UNCHANGED <<nextId, dropped, lives>>
        /\ backlog' = [backlog EXCEPT ![bot] = open]
        /\ poll' # Waiting => poll'.rest = answer /\ poll'.of = bot
    <2>1. PollTyped /\ bot \in Bots
      BY DEF PollInv, PollTyped
    <2>2. UNCHANGED <<nextId, dropped, lives>> /\ backlog' = [backlog EXCEPT ![bot] = open]
      BY DEF PollFetches
    <2>3. poll' = Waiting \/ poll' = [pc |-> "next", rest |-> answer, of |-> bot]
      BY DEF PollFetches
    <2> HIDE DEF answer
    <2>4. poll' # Waiting => poll'.rest = answer /\ poll'.of = bot
      BY <2>3
    <2> QED
      BY <2>1, <2>2, <2>4
  <1>2. open \subseteq backlog[bot] /\ answer \subseteq backlog[bot]
    OBVIOUS
  <1> HIDE DEF open, answer
  <1>3. \A b \in Bots : backlog'[b] \subseteq backlog[b]
    BY <1>1, <1>2 DEF PollTyped
  <1>4. Given' = Given
    BY <1>1 DEF Given
  <1> QED
    BY <1>1, <1>2, <1>3, <1>4 DEF PollBounded

\* No other step gives an update or takes one into an answer.
LEMMA PollQuiet ==
  ASSUME PollBounded, UNCHANGED <<nextId, backlog>>, dropped' \subseteq Given,
         lives' \in 0..MaxPollFaults,
         poll' # Waiting => poll # Waiting /\ poll'.rest \subseteq poll.rest /\ poll'.of = poll.of
  PROVE  PollBounded'
  <1>1. Given' = Given
    BY DEF Given
  <1> QED
    BY <1>1 DEF PollBounded

(* The offset, the ids handled and dropped and those of an answer in hand  *)
(* are ids that one bot has given, whichever bot the settings name.        *)
LEMMA PollStaysTyped == PollSpec => []PollTypeOK
  <1>1. PollInv /\ PollBounded /\ [PollStep]_pollVars => PollBounded'
    <2> SUFFICES ASSUME PollInv, PollBounded, [PollStep]_pollVars
                 PROVE  PollBounded'
      OBVIOUS
    <2>1. dropped \subseteq Given /\ lives \in 0..MaxPollFaults
      BY DEF PollBounded
    <2>2. CASE UNCHANGED pollVars \/ BotSaved
      BY <2>1, <2>2, PollQuiet DEF pollVars, BotSaved
    <2>3. CASE PollMoves
      <3>1. poll # Waiting /\ poll'.rest = poll.rest /\ poll'.of = poll.of
        <4>1. poll # Waiting
          BY <2>3 DEF PollMoves, Waiting
        <4>2. poll \in [pc : {"next", "handle"}, rest : (SUBSET Nat) \ {{}}, of : Bots]
          BY <4>1, OldestAtHand DEF PollInv
        <4> QED
          BY <2>3, <4>1, <4>2 DEF PollMoves
      <3> QED
        BY <2>1, <2>3, <3>1, PollQuiet DEF PollMoves
    <2>4. CASE Handles \/ HandlingFails
      <3>1. poll.pc = "handle" /\ poll # Waiting /\ Onto
        BY <2>4 DEF Handles, HandlingFails, Waiting
      <3>2. poll \in [pc : {"next", "handle"}, rest : (SUBSET Nat) \ {{}}, of : Bots]
        BY <3>1, OldestAtHand DEF PollInv
      <3>3. poll' # Waiting => poll'.rest \subseteq poll.rest /\ poll'.of = poll.of
        BY <3>1, <3>2 DEF Onto
      <3>4. dropped' \subseteq Given
        BY <2>1, <2>4, <3>1, CurrentGiven DEF Handles, HandlingFails
      <3> QED
        BY <2>1, <2>4, <3>1, <3>3, <3>4, PollQuiet DEF Handles, HandlingFails
    <2>5. CASE PollerRestarts
      <3>1. lives' \in 0..MaxPollFaults
        <4>1. lives' = lives + 1 /\ lives + (IF switched THEN 1 ELSE 0) < MaxPollFaults
          BY <2>5 DEF PollerRestarts, CutOff, Faults
        <4> QED
          BY <2>1, <4>1, TelegramPollAssumption
      <3> QED
        BY <2>1, <2>5, <3>1, PollQuiet DEF PollerRestarts, CutOff
    <2> QED
      BY <2>2, <2>3, <2>4, <2>5, UpdateBounded, FetchBounded DEF PollStep
  <1>2. PollInv /\ PollBounded => PollTypeOK
    <2> SUFFICES ASSUME PollTyped, PollBounded
                 PROVE  PollTypeOK
      BY DEF PollInv
    <2>1. poll.pc \in {"idle", "next", "handle"}
      BY DEF PollTyped, Waiting
    <2> QED
      BY <2>1 DEF PollTyped, PollBounded, PollTypeOK
  <1> QED
    BY <1>1, <1>2, PollStart, PollBoundedStart, PollNext, PTL DEF PollSpec

\* What the types of the pod add: its tokens are counted by the changes.
PodBounded ==
    /\ changes \in 0..MaxChanges
    /\ pod \in [token : 0..changes + 1, enabled : BOOLEAN, decoys : SUBSET Decoys]
    /\ held \in 0..changes + 1 /\ running \subseteq Decoys
    /\ queue \in Seq(Hit) /\ Len(queue) <= QueueSize
    /\ beat \in {Quiet} \cup [pc : {"apply"}, listen : SUBSET Decoys]

(* The row and the token of a pod stay in their bounds as the changes are  *)
(* counted, whatever the row goes on to hold.                              *)
LEMMA PodCounted ==
    ASSUME PodBounded, NEW t \in 0..changes + 2, NEW on \in BOOLEAN, NEW ds \in SUBSET Decoys,
           NEW hold \in 0..changes + 1, Changes,
           pod' = [token |-> t, enabled |-> on, decoys |-> ds],
           held' = hold, running' \subseteq Decoys,
           queue' \in {queue, <<>>}, beat' \in {beat, Quiet}
    PROVE  PodBounded'
  <1>1. changes' = changes + 1 /\ changes' \in 0..MaxChanges
    BY HoneypotPodAssumption DEF PodBounded, Changes
  <1>2. t \in 0..changes' + 1 /\ hold \in 0..changes' + 1
    BY <1>1 DEF PodBounded
  <1>3. queue' \in Seq(Hit) /\ Len(queue') <= QueueSize
    <2>1. CASE queue' = queue
      BY <2>1 DEF PodBounded
    <2>2. CASE queue' = <<>>
      <3>1. <<>> \in Seq(Hit) /\ Len(<<>>) = 0
        OBVIOUS
      <3>2. QueueSize \in Nat
        BY HoneypotPodAssumption
      <3> QED
        BY <2>2, <3>1, <3>2
    <2> QED
      BY <2>1, <2>2
  <1>4. pod' \in [token : 0..changes' + 1, enabled : BOOLEAN, decoys : SUBSET Decoys]
    BY <1>2
  <1>5. beat' \in {Quiet} \cup [pc : {"apply"}, listen : SUBSET Decoys]
    BY DEF PodBounded
  <1>6. held' \in 0..changes' + 1
    BY <1>2
  <1> QED
    BY <1>1, <1>3, <1>4, <1>5, <1>6 DEF PodBounded

(* What the agent and its row do to each other keeps their bounds.         *)
LEMMA PodStepBounded == PodBounded /\ PodStep => PodBounded'
  <1> SUFFICES ASSUME PodBounded, PodStep
               PROVE  PodBounded'
    OBVIOUS
  <1>1. CASE ServiceTouched \/ FileTouched
    <2>1. PICK h \in Hit : Emitted(h)
      BY <1>1 DEF ServiceTouched, FileTouched, Hit, Decoys
    <2>2. /\ queue' = IF Len(queue) < QueueSize THEN Append(queue, h) ELSE queue
          /\ UNCHANGED <<pod, held, running, beat, changes>>
      BY <2>1 DEF Emitted
    <2>3. queue' \in Seq(Hit) /\ Len(queue') <= QueueSize
      BY <2>2, HoneypotPodAssumption DEF PodBounded
    <2> QED
      BY <2>2, <2>3 DEF PodBounded
  <1>2. CASE ReportPosted
    <2> DEFINE n == IF Len(queue) < BatchSize THEN Len(queue) ELSE BatchSize
    <2>1. queue \in Seq(Hit) /\ n \in 0..Len(queue)
      BY HoneypotPodAssumption DEF PodBounded
    <2>2. queue' = SubSeq(queue, n + 1, Len(queue)) /\ UNCHANGED <<pod, held, running, beat, changes>>
      BY <1>2 DEF ReportPosted
    <2> HIDE DEF n
    <2>3. queue' \in Seq(Hit) /\ Len(queue') <= Len(queue)
      BY <2>1, <2>2
    <2>4. Len(queue') <= QueueSize
      BY <2>1, <2>3, HoneypotPodAssumption DEF PodBounded
    <2> QED
      BY <2>2, <2>3, <2>4 DEF PodBounded
  <1>3. CASE ReportReturns
    BY <1>3 DEF ReportReturns, PodBounded
  <1>4. CASE HeartbeatAnswered
    <2>1. (IF pod.enabled THEN pod.decoys ELSE {}) \in SUBSET Decoys
      BY DEF PodBounded
    <2>2. beat' \in [pc : {"apply"}, listen : SUBSET Decoys]
      BY <1>4, <2>1 DEF HeartbeatAnswered
    <2> QED
      BY <1>4, <2>2 DEF HeartbeatAnswered, PodBounded
  <1>5. CASE Reconciled
    <2>1. beat.listen \subseteq Decoys
      BY <1>5 DEF Reconciled, PodBounded
    <2> QED
      BY <1>5, <2>1 DEF Reconciled, PodBounded
  <1>6. CASE PodUpdated
    <2>1. PICK on \in BOOLEAN, ds \in SUBSET Decoys :
            pod' = [pod EXCEPT !.enabled = on, !.decoys = ds]
      BY <1>6 DEF PodUpdated
    <2>2. /\ pod \in [token : 0..changes + 1, enabled : BOOLEAN, decoys : SUBSET Decoys]
          /\ changes \in Nat
      BY DEF PodBounded
    <2>3. pod' = [token |-> pod.token, enabled |-> on, decoys |-> ds]
      BY <2>1, <2>2
    <2>4. pod.token \in 0..changes + 2
      BY <2>2
    <2> QED
      BY <1>6, <2>3, <2>4, PodCounted DEF PodUpdated, PodBounded
  <1>7. CASE PodRedeployed
    <2>1. /\ pod' = [token |-> pod.token + 1, enabled |-> pod.enabled, decoys |-> pod.decoys]
          /\ pod.token + 1 \in 0..changes + 2
      BY <1>7 DEF PodRedeployed, PodBounded
    <2>2. pod.enabled \in BOOLEAN /\ pod.decoys \in SUBSET Decoys
      BY DEF PodBounded
    <2> QED
      BY <1>7, <2>1, <2>2, PodCounted DEF PodRedeployed, PodBounded
  <1>8. CASE AgentStarted
    <2>1. /\ pod' = [token |-> pod.token, enabled |-> pod.enabled, decoys |-> pod.decoys]
          /\ pod.token \in 0..changes + 2
      BY <1>8 DEF AgentStarted, PodBounded
    <2>2. held' \in 0..changes + 1
      BY <1>8 DEF AgentStarted, PodBounded
    <2>3. pod.enabled \in BOOLEAN /\ pod.decoys \in SUBSET Decoys
      BY DEF PodBounded
    <2> QED
      BY <1>8, <2>1, <2>2, <2>3, PodCounted DEF AgentStarted
  <1> QED
    BY <1>1, <1>2, <1>3, <1>4, <1>5, <1>6, <1>7, <1>8 DEF PodStep

(* Of the steps of Warroom those that count as changes and the deletion of *)
(* the pod reach the row; the others leave the pod and its agent alone.    *)
LEMMA AlertStepBounded ==
    ASSUME PodBounded, \/ \E w \in Ingests : IngestStep(w)
                       \/ ProcessListed \/ ProcessUnlisted \/ PodDeleted \/ KeysLost \/ PodTick
    PROVE  PodBounded'
  <1>1. ASSUME UNCHANGED <<pod, held, running, beat, queue, changes>>
        PROVE  PodBounded'
    BY <1>1 DEF PodBounded
  <1>2. /\ pod = [token |-> pod.token, enabled |-> pod.enabled, decoys |-> pod.decoys]
        /\ pod.token \in 0..changes + 2 /\ pod.enabled \in BOOLEAN /\ pod.decoys \in SUBSET Decoys
    BY DEF PodBounded
  <1>3. ASSUME UNCHANGED <<pod, held, running, beat, queue>>, Changes
        PROVE  PodBounded'
    BY <1>2, <1>3, PodCounted DEF PodBounded
  <1>4. CASE PodDeleted
    <2>1. /\ pod' = [token |-> 0, enabled |-> pod.enabled, decoys |-> pod.decoys]
          /\ 0 \in 0..changes + 2
      BY <1>2, <1>4 DEF PodDeleted, PodBounded
    <2> QED
      BY <1>2, <1>4, <2>1, PodCounted DEF PodDeleted, PodBounded
  <1>5. CASE ProcessListed \/ ProcessUnlisted \/ KeysLost
    BY <1>3, <1>5 DEF ProcessListed, ProcessUnlisted, KeysLost
  <1>6. CASE PodTick
    BY <1>1, <1>6 DEF PodTick, podVars
  <1>7. ASSUME NEW w \in Ingests, IngestStep(w)
        PROVE  PodBounded'
    <2>1. CASE IngestBlindly(w)
      BY <1>3, <2>1 DEF IngestBlindly
    <2>2. CASE ~IngestBlindly(w)
      <3>1. UNCHANGED <<pod, held, running, beat, queue, changes>>
        BY <1>7, <2>2 DEF IngestStep, IngestStart, IngestLoad, IngestLookup, IngestEvent, IngestCommit, IngestAlert,
                          IngestFails, podVars
      <3> QED
        BY <1>1, <3>1
    <2> QED
      BY <2>1, <2>2
  <1> QED
    BY <1>4, <1>5, <1>6, <1>7

Dated(s, now) == \A i \in DOMAIN s : s[i].at <= now

\* What the types of the alerts add: no row and no alert is of a time to come,
\* stored, sent or still in a report, and no key is kept beyond its window.
AlertsBounded ==
    /\ time \in 0..MaxPodTime
    /\ keys \in [Idents -> 0..time + MuteFor]
    /\ Dated(stored, time) /\ Dated(alerted, time)
    /\ \A w \in Ingests : Dated(DueOf(w), time) /\ Dated(RowsOf(w), time)

(* What is of the past stays so, joined with more of the past.             *)
LEMMA DatedJoins ==
    ASSUME NEW S, NEW s \in Seq(S), NEW now, Dated(s, now)
    PROVE  /\ \A x : x.at <= now => Dated(Append(s, x), now)
           /\ \A t \in Seq(S) : Dated(t, now) => Dated(s \o t, now)
           /\ s # <<>> => Dated(Tail(s), now) /\ Head(s).at <= now
  <1>1. ASSUME NEW x, x.at <= now
        PROVE  Dated(Append(s, x), now)
    <2>1. ASSUME NEW i \in DOMAIN Append(s, x)
          PROVE  (i \in DOMAIN s /\ Append(s, x)[i] = s[i]) \/ Append(s, x)[i] = x
      BY AppendProperties
    <2> QED
      BY <1>1, <2>1 DEF Dated
  <1>2. ASSUME NEW t \in Seq(S), Dated(t, now)
        PROVE  Dated(s \o t, now)
    <2>1. ASSUME NEW i \in DOMAIN (s \o t)
          PROVE  \/ i \in DOMAIN s /\ (s \o t)[i] = s[i]
                 \/ i - Len(s) \in DOMAIN t /\ (s \o t)[i] = t[i - Len(s)]
      OBVIOUS
    <2> QED
      BY <1>2, <2>1 DEF Dated
  <1>3. ASSUME s # <<>>
        PROVE  Dated(Tail(s), now) /\ Head(s).at <= now
    <2>1. /\ DOMAIN Tail(s) = 1..Len(s) - 1 /\ Len(s) \in Nat \ {0} /\ DOMAIN s = 1..Len(s)
          /\ \A i \in 1..Len(s) - 1 : Tail(s)[i] = s[i + 1]
      BY <1>3, TailIs
    <2>2. \A i \in DOMAIN Tail(s) : i + 1 \in DOMAIN s /\ Tail(s)[i] = s[i + 1]
      BY <2>1
    <2>3. 1 \in DOMAIN s /\ Head(s) = s[1]
      BY <1>3, <2>1
    <2> QED
      BY <2>2, <2>3 DEF Dated
  <1> QED
    BY <1>1, <1>2, <1>3

(* What one report goes on to is of the past if its rows and alerts are.   *)
LEMMA ReportDated ==
    ASSUME HoneypotTyped, AlertsBounded, NEW w \in Ingests, NEW task,
           ingest' = [ingest EXCEPT ![w] = task],
           task.pc \in {"read", "send"} => Dated(task.due, time),
           task.pc = "read" => Dated(task.rows, time)
    PROVE  \A v \in Ingests : Dated(DueOf(v)', time) /\ Dated(RowsOf(v)', time)
  <1>1. /\ ingest'[w] = task
        /\ \A v \in Ingests \ {w} : ingest'[v] = ingest[v]
    BY DEF HoneypotTyped
  <1>2. \A v \in Ingests \ {w} : DueOf(v)' = DueOf(v) /\ RowsOf(v)' = RowsOf(v)
    BY <1>1 DEF DueOf, RowsOf
  <1>3. Dated(<<>>, time)
    BY DEF Dated
  <1>4. /\ DueOf(w)' = IF task.pc \in {"read", "send"} THEN task.due ELSE <<>>
        /\ RowsOf(w)' = IF task.pc = "read" THEN task.rows ELSE <<>>
    BY <1>1 DEF DueOf, RowsOf
  <1>5. Dated(DueOf(w)', time) /\ Dated(RowsOf(w)', time)
    BY <1>3, <1>4
  <1> QED
    BY <1>2, <1>5 DEF AlertsBounded

(* Handling an event appends a row, and at most one alert, of this moment. *)
LEMMA HandledDated ==
    ASSUME HoneypotTyped, AlertsBounded, NEW w \in Ingests, NEW taken \in BOOLEAN,
           ingest[w].pc = "read", ingest[w].batch # <<>>, Handled(w, taken)
    PROVE  \A v \in Ingests : Dated(DueOf(v)', time) /\ Dated(RowsOf(v)', time)
  <1> DEFINE h == Head(ingest[w].batch)
             row == [hit |-> h, muted |-> Spared(w, h), at |-> time]
             d == [ident |-> h.ident, at |-> time]
  <1>1. /\ \A v \in Ingests \ {w} : DueOf(v)' = DueOf(v) /\ RowsOf(v)' = RowsOf(v)
        /\ RowsOf(w)' = Append(RowsOf(w), row)
        /\ DueOf(w)' = IF taken THEN Append(DueOf(w), d) ELSE DueOf(w)
        /\ DueOf(w) \in Seq(PodAlert) /\ RowsOf(w) \in Seq(PodRow)
    BY HandledMoves
  <1>2. time \in Nat /\ row.at <= time /\ d.at <= time
    BY DEF HoneypotTyped
  <1> HIDE DEF row, d
  <1>3. Dated(DueOf(w), time) /\ Dated(RowsOf(w), time)
    BY DEF AlertsBounded
  <1>4. Dated(Append(RowsOf(w), row), time) /\ Dated(Append(DueOf(w), d), time)
    BY <1>1, <1>2, <1>3, DatedJoins
  <1>5. Dated(DueOf(w)', time) /\ Dated(RowsOf(w)', time)
    BY <1>1, <1>3, <1>4
  <1> QED
    BY <1>1, <1>5 DEF AlertsBounded

(* A pod begins with the first token, an empty queue and no rows.          *)
LEMMA AlertsStart == HoneypotInit => PodBounded /\ AlertsBounded
  <1> SUFFICES ASSUME HoneypotInit
               PROVE  PodBounded /\ AlertsBounded
    OBVIOUS
  <1> USE DEF HoneypotInit, PodInit
  <1>1. PodBounded
    <2>1. pod \in [token : 0..changes + 1, enabled : BOOLEAN, decoys : SUBSET Decoys]
      OBVIOUS
    <2>2. queue \in Seq(Hit) /\ Len(queue) <= QueueSize
      BY HoneypotPodAssumption
    <2> QED
      BY <2>1, <2>2, HoneypotPodAssumption DEF PodBounded
  <1>2. keys \in [Idents -> 0..time + MuteFor]
    BY HoneypotAlertsAssumption
  <1>3. \A w \in Ingests : DueOf(w) = <<>> /\ RowsOf(w) = <<>>
    BY DEF DueOf, RowsOf
  <1>4. Dated(<<>>, time)
    BY DEF Dated
  <1>5. AlertsBounded
    BY <1>2, <1>3, <1>4, HoneypotAlertsAssumption DEF AlertsBounded
  <1> QED
    BY <1>1, <1>5

(* A step that leaves the sent alerts, the keys and the clock alone, and    *)
(* what every report holds in the past, keeps the bounds.                  *)
LEMMA ReportStepBounded ==
    ASSUME HoneypotTyped, AlertsBounded, NEW w \in Ingests, IngestStep(w)
    PROVE  AlertsBounded'
  <1>1. time' = time /\ time \in 0..MaxPodTime /\ time \in Nat
    BY DEF IngestStep, IngestStart, IngestLoad, IngestLookup, IngestEvent, IngestBlindly, IngestCommit, IngestAlert,
           IngestFails, HoneypotTyped, AlertsBounded
  <1>2. ASSUME keys' \in [Idents -> 0..time + MuteFor], Dated(stored', time), Dated(alerted', time),
               \A v \in Ingests : Dated(DueOf(v)', time) /\ Dated(RowsOf(v)', time)
        PROVE  AlertsBounded'
    BY <1>1, <1>2 DEF AlertsBounded
  <1>3. /\ keys \in [Idents -> 0..time + MuteFor] /\ Dated(stored, time) /\ Dated(alerted, time)
        /\ Dated(DueOf(w), time) /\ Dated(RowsOf(w), time)
        /\ stored \in Seq(PodRow) /\ alerted \in Seq(PodAlert)
        /\ DueOf(w) \in Seq(PodAlert) /\ RowsOf(w) \in Seq(PodRow)
    BY TaskParts DEF AlertsBounded, HoneypotTyped
  <1>4. Dated(<<>>, time)
    BY DEF Dated
  <1>5. CASE IngestStart(w)
    <2> DEFINE task == [pc |-> "load", batch |-> report.batch]
    <2>1. ingest' = [ingest EXCEPT ![w] = task] /\ keys' = keys /\ stored' = stored /\ alerted' = alerted
      BY <1>5 DEF IngestStart
    <2>2. task.pc = "load"
      OBVIOUS
    <2> HIDE DEF task
    <2>3. \A v \in Ingests : Dated(DueOf(v)', time) /\ Dated(RowsOf(v)', time)
      BY <2>1, <2>2, ReportDated
    <2> QED
      BY <1>2, <1>3, <2>1, <2>3
  <1>6. CASE IngestLoad(w)
    <2> DEFINE task == [pc |-> "read", batch |-> ingest[w].batch, spared |-> listed,
                        rows |-> <<>>, due |-> <<>>]
    <2>1. ingest' = [ingest EXCEPT ![w] = task] /\ keys' = keys /\ stored' = stored /\ alerted' = alerted
      BY <1>6 DEF IngestLoad
    <2>2. task.rows = <<>> /\ task.due = <<>>
      OBVIOUS
    <2> HIDE DEF task
    <2>3. \A v \in Ingests : Dated(DueOf(v)', time) /\ Dated(RowsOf(v)', time)
      BY <1>4, <2>1, <2>2, ReportDated
    <2> QED
      BY <1>2, <1>3, <2>1, <2>3
  <1>7. CASE IngestEvent(w)
    <2> DEFINE h == Head(ingest[w].batch)
               taken == TakesKey(w, h) /\ ~Spared(w, h)
    <2>1. /\ ingest[w].pc = "read" /\ ingest[w].batch # <<>> /\ Handled(w, taken)
          /\ keys' = IF TakesKey(w, h) THEN [keys EXCEPT ![h.ident] = time + MuteFor] ELSE keys
          /\ stored' = stored /\ alerted' = alerted
      BY <1>7 DEF IngestEvent
    <2>2. taken \in BOOLEAN
      OBVIOUS
    <2> HIDE DEF taken
    <2>3. \A v \in Ingests : Dated(DueOf(v)', time) /\ Dated(RowsOf(v)', time)
      BY <2>1, <2>2, HandledDated
    <2> HIDE DEF h
    <2>4. keys' \in [Idents -> 0..time + MuteFor]
      <3>1. time + MuteFor \in 0..time + MuteFor
        BY <1>1, HoneypotAlertsAssumption
      <3>2. [keys EXCEPT ![h.ident] = time + MuteFor] \in [Idents -> 0..time + MuteFor]
        BY <1>3, <3>1, Zenon
      <3> QED
        BY <1>3, <2>1, <3>2, Zenon
    <2> QED
      BY <1>2, <1>3, <2>1, <2>3, <2>4
  <1>8. CASE IngestBlindly(w)
    <2>1. /\ ingest[w].pc = "read" /\ ingest[w].batch # <<>> /\ Handled(w, TRUE)
          /\ keys' = keys /\ stored' = stored /\ alerted' = alerted
      BY <1>8 DEF IngestBlindly
    <2>2. \A v \in Ingests : Dated(DueOf(v)', time) /\ Dated(RowsOf(v)', time)
      BY <2>1, HandledDated
    <2> QED
      BY <1>2, <1>3, <2>1, <2>2
  <1>9. CASE IngestCommit(w)
    <2> DEFINE task == IF ingest[w].due = <<>> THEN Quiet
                       ELSE [pc |-> "send", due |-> ingest[w].due, sent |-> 0]
    <2>1. /\ ingest' = [ingest EXCEPT ![w] = task] /\ keys' = keys /\ alerted' = alerted
          /\ stored' = stored \o ingest[w].rows /\ ingest[w].pc = "read"
      BY <1>9 DEF IngestCommit, HoneypotTyped
    <2>2. ingest[w].due = DueOf(w) /\ ingest[w].rows = RowsOf(w)
      BY <2>1, TaskParts
    <2>3. task.pc # "read" /\ (task.pc = "send" => task.due = DueOf(w))
      BY <2>2
    <2> HIDE DEF task
    <2>4. \A v \in Ingests : Dated(DueOf(v)', time) /\ Dated(RowsOf(v)', time)
      BY <1>3, <2>1, <2>3, ReportDated
    <2>5. Dated(stored', time)
      BY <1>3, <2>1, <2>2, DatedJoins
    <2> QED
      BY <1>2, <1>3, <2>1, <2>4, <2>5
  <1>10. CASE IngestAlert(w)
    <2> DEFINE due == DueOf(w)
               task == IF Len(due) = 1 THEN Quiet
                       ELSE [pc |-> "send", due |-> Tail(due), sent |-> ingest[w].sent + 1]
    <2>1. ingest[w].pc = "send" /\ keys' = keys /\ stored' = stored
      BY <1>10 DEF IngestAlert
    <2>2. due = ingest[w].due /\ due # <<>>
      BY <2>1, TaskParts
    <2>3. /\ ingest' = [ingest EXCEPT ![w] = task]
          /\ alerted' = alerted \/ alerted' = Append(alerted, Head(due))
      BY <1>10, <2>2 DEF IngestAlert, HoneypotTyped
    <2>4. task.pc # "read" /\ (task.pc = "send" => task.due = Tail(due))
      OBVIOUS
    <2>5. due \in Seq(PodAlert) /\ Dated(due, time)
      BY <1>3
    <2> HIDE DEF task, due
    <2>6. Dated(Tail(due), time) /\ Head(due).at <= time
      BY <2>2, <2>5, DatedJoins
    <2>7. \A v \in Ingests : Dated(DueOf(v)', time) /\ Dated(RowsOf(v)', time)
      BY <2>3, <2>4, <2>6, ReportDated
    <2>8. Dated(alerted', time)
      <3>1. Dated(Append(alerted, Head(due)), time)
        BY <1>3, <2>6, DatedJoins
      <3> QED
        BY <1>3, <2>3, <3>1
    <2> QED
      BY <1>2, <1>3, <2>1, <2>7, <2>8
  <1>11. CASE IngestFails(w)
    <2>1. /\ ingest' = [ingest EXCEPT ![w] = Quiet] /\ keys' = keys /\ stored' = stored
          /\ alerted' = alerted
      BY <1>11 DEF IngestFails
    <2>2. \A v \in Ingests : Dated(DueOf(v)', time) /\ Dated(RowsOf(v)', time)
      BY <2>1, ReportDated
    <2> QED
      BY <1>2, <1>3, <2>1, <2>2
  <1>12. CASE IngestLookup(w)
    <2> DEFINE task == [pc |-> "read", batch |-> ingest[w].batch, spared |-> ingest[w].spared,
                        rows |-> <<>>, due |-> ingest[w].due]
    <2>1. /\ ingest' = [ingest EXCEPT ![w] = task] /\ keys' = keys /\ alerted' = alerted
          /\ stored' = stored \o ingest[w].rows /\ ingest[w].pc = "read"
      BY <1>12 DEF IngestLookup, HoneypotTyped
    <2>2. ingest[w].due = DueOf(w) /\ ingest[w].rows = RowsOf(w)
      BY <2>1, TaskParts
    <2>3. task.rows = <<>> /\ task.due = DueOf(w)
      BY <2>2
    <2> HIDE DEF task
    <2>4. \A v \in Ingests : Dated(DueOf(v)', time) /\ Dated(RowsOf(v)', time)
      BY <1>3, <1>4, <2>1, <2>3, ReportDated
    <2>5. Dated(stored', time)
      BY <1>3, <2>1, <2>2, DatedJoins
    <2> QED
      BY <1>2, <1>3, <2>1, <2>4, <2>5
  <1> QED
    BY <1>5, <1>6, <1>7, <1>8, <1>9, <1>10, <1>11, <1>12 DEF IngestStep

(* A window that ends later holds more.                                    *)
LEMMA RangesGrow ==
    ASSUME NEW a \in Nat, NEW b \in Nat, a <= b, NEW m \in Nat
    PROVE  0..a + m \subseteq 0..b + m
  OBVIOUS

(* The clock only grows, the operator and Redis only take away or mute.    *)
LEMMA AlertsNext == HoneypotTyped /\ AlertsBounded /\ [HoneypotStep]_honeypotVars => AlertsBounded'
  <1> SUFFICES ASSUME HoneypotTyped, AlertsBounded, [HoneypotStep]_honeypotVars
               PROVE  AlertsBounded'
    OBVIOUS
  <1>1. time \in Nat /\ time \in 0..MaxPodTime /\ keys \in [Idents -> 0..time + MuteFor]
    BY DEF HoneypotTyped, AlertsBounded
  <1>2. ASSUME ingest' = ingest, Dated(stored', time'), alerted' = alerted, time' \in {time, time + 1},
               time' \in 0..MaxPodTime, keys' \in [Idents -> 0..time + MuteFor]
        PROVE  AlertsBounded'
    <2>1. \A s : Dated(s, time) /\ (\A i \in DOMAIN s : s[i].at \in Nat) => Dated(s, time')
      BY <1>1, <1>2 DEF Dated
    <2>2. alerted \in Seq(PodAlert) /\ \A w \in Ingests : DueOf(w) \in Seq(PodAlert) /\ RowsOf(w) \in Seq(PodRow)
      BY TaskParts DEF HoneypotTyped
    <2>3. \A w \in Ingests : DueOf(w)' = DueOf(w) /\ RowsOf(w)' = RowsOf(w)
      BY <1>2 DEF DueOf, RowsOf
    <2> DEFINE Timed(s) == \A i \in DOMAIN s : s[i].at \in Nat
    <2>4. Timed(alerted) /\ \A w \in Ingests : Timed(DueOf(w)) /\ Timed(RowsOf(w))
      <3>1. (\A s \in Seq(PodAlert) : Timed(s)) /\ (\A s \in Seq(PodRow) : Timed(s))
        <4>1. \A s \in Seq(PodAlert) : \A i \in DOMAIN s : s[i] \in PodAlert
          OBVIOUS
        <4>2. \A s \in Seq(PodRow) : \A i \in DOMAIN s : s[i] \in PodRow
          OBVIOUS
        <4>3. (\A x \in PodAlert : x.at \in Nat) /\ (\A x \in PodRow : x.at \in Nat)
          BY DEF PodAlert, PodRow
        <4> QED
          BY <4>1, <4>2, <4>3
      <3> HIDE DEF Timed
      <3> QED
        BY <2>2, <3>1
    <2>5. Dated(alerted', time')
      BY <1>2, <2>1, <2>4 DEF AlertsBounded, Timed
    <2>6. \A w \in Ingests : Dated(DueOf(w)', time') /\ Dated(RowsOf(w)', time')
      BY <2>1, <2>3, <2>4 DEF AlertsBounded, Timed
    <2>7. 0..time + MuteFor \subseteq 0..time' + MuteFor
      <3>1. MuteFor \in Nat /\ time \in Nat /\ time' \in Nat /\ time <= time'
        BY <1>1, <1>2, HoneypotAlertsAssumption
      <3> QED
        BY <3>1, RangesGrow
    <2>8. keys' \in [Idents -> 0..time' + MuteFor]
      BY <1>2, <2>7
    <2> QED
      BY <1>2, <2>5, <2>6, <2>8 DEF AlertsBounded
  <1>3. CASE \E w \in Ingests : IngestStep(w)
    BY <1>3, ReportStepBounded
  <1>4. CASE (PodStep /\ UNCHANGED alertVars) \/ UNCHANGED honeypotVars \/ ProcessUnlisted
    <2>1. ingest' = ingest /\ stored' = stored /\ alerted' = alerted /\ time' = time /\ keys' = keys
      BY <1>4 DEF alertVars, honeypotVars, ProcessUnlisted
    <2> QED
      BY <1>1, <1>2, <2>1 DEF AlertsBounded
  <1>5. CASE ProcessListed
    <2>1. /\ ingest' = ingest /\ alerted' = alerted /\ time' = time /\ keys' = keys
          /\ stored' = [i \in DOMAIN stored |->
               [stored[i] EXCEPT !.muted = @ \/ (stored[i].hit.decoy = "file" /\ stored[i].hit.legit)]]
      BY <1>5 DEF ProcessListed
    <2>2. stored \in Seq(PodRow)
      BY DEF HoneypotTyped
    <2>3. \A i \in DOMAIN stored : stored[i] \in PodRow
      BY <2>2
    <2>4. DOMAIN stored' = DOMAIN stored
      BY <2>1
    <2>5. \A i \in DOMAIN stored : stored'[i].at = stored[i].at
      BY <2>1, <2>3 DEF PodRow
    <2>6. Dated(stored', time)
      BY <2>4, <2>5 DEF AlertsBounded, Dated
    <2> QED
      BY <1>1, <1>2, <2>1, <2>6
  <1>6. CASE PodDeleted
    <2>1. ingest' = ingest /\ stored' = <<>> /\ alerted' = alerted /\ time' = time /\ keys' = keys
      BY <1>6 DEF PodDeleted
    <2>2. Dated(<<>>, time)
      BY DEF Dated
    <2> QED
      BY <1>1, <1>2, <2>1, <2>2
  <1>7. CASE KeysLost
    <2>1. /\ ingest' = ingest /\ stored' = stored /\ alerted' = alerted /\ time' = time
          /\ keys' = [x \in Idents |-> 0]
      BY <1>7 DEF KeysLost
    <2>2. keys' \in [Idents -> 0..time + MuteFor]
      BY <1>1, <2>1, HoneypotAlertsAssumption
    <2> QED
      BY <1>1, <1>2, <2>1, <2>2 DEF AlertsBounded
  <1>8. CASE PodTick
    <2>1. /\ ingest' = ingest /\ stored' = stored /\ alerted' = alerted /\ time' = time + 1
          /\ time < MaxPodTime /\ keys' = keys
      BY <1>8 DEF PodTick
    <2>2. \A i \in DOMAIN stored : stored[i].at \in Nat /\ stored[i].at <= time
      <3>1. \A i \in DOMAIN stored : stored[i] \in PodRow
        BY DEF HoneypotTyped
      <3> QED
        BY <3>1 DEF PodRow, AlertsBounded, Dated
    <2>3. Dated(stored', time')
      BY <1>1, <2>1, <2>2 DEF Dated
    <2>4. time' \in 0..MaxPodTime
      BY <1>1, <2>1, HoneypotAlertsAssumption
    <2> QED
      BY <1>1, <1>2, <2>1, <2>3, <2>4
  <1> QED
    BY <1>3, <1>4, <1>5, <1>6, <1>7, <1>8 DEF HoneypotStep

(* The queue of a pod stays within its limit, its tokens are counted, and  *)
(* no row, alert or key is of a time to come.                              *)
LEMMA HoneypotStaysTyped == HoneypotSpec => []HoneypotTypeOK
  <1>1. PodBounded /\ [HoneypotStep]_honeypotVars => PodBounded'
    <2> SUFFICES ASSUME PodBounded, [HoneypotStep]_honeypotVars
                 PROVE  PodBounded'
      OBVIOUS
    <2>1. CASE UNCHANGED honeypotVars
      BY <2>1 DEF honeypotVars, podVars, PodBounded
    <2> QED
      BY <2>1, PodStepBounded, AlertStepBounded DEF HoneypotStep
  <1>2. HoneypotInv /\ AlertsBounded /\ [HoneypotStep]_honeypotVars => AlertsBounded'
    BY AlertsNext DEF HoneypotInv
  <1>3. HoneypotInv /\ PodBounded /\ AlertsBounded => HoneypotTypeOK
    <2> SUFFICES ASSUME HoneypotTyped, PodBounded, AlertsBounded
                 PROVE  HoneypotTypeOK
      BY DEF HoneypotInv
    <2>1. PodTypeOK
      <3>1. pod \in [token : 0..MaxChanges + 1, enabled : BOOLEAN, decoys : SUBSET Decoys]
            /\ held \in 0..MaxChanges + 1
        <4>1. 0..changes + 1 \subseteq 0..MaxChanges + 1
          BY HoneypotPodAssumption DEF PodBounded
        <4> QED
          BY <4>1 DEF PodBounded
      <3>2. report.pc \in {"idle", "posted", "waiting"}
        BY DEF HoneypotTyped
      <3>3. beat.pc \in {"idle", "apply"}
        BY DEF PodBounded
      <3> QED
        BY <3>1, <3>2, <3>3 DEF PodBounded, PodTypeOK
    <2>2. ASSUME NEW i \in DOMAIN stored
          PROVE  stored[i].hit \in Hit /\ stored[i].muted \in BOOLEAN /\ stored[i].at \in 0..time
      <3>1. stored[i] \in PodRow /\ stored[i].at <= time /\ time \in Nat
        BY DEF HoneypotTyped, AlertsBounded, Dated
      <3> QED
        BY <3>1 DEF PodRow
    <2>3. ASSUME NEW i \in DOMAIN alerted
          PROVE  alerted[i].ident \in Idents /\ alerted[i].at \in 0..time
      <3>1. alerted[i] \in PodAlert /\ alerted[i].at <= time /\ time \in Nat
        BY DEF HoneypotTyped, AlertsBounded, Dated
      <3> QED
        BY <3>1 DEF PodAlert
    <2>4. keys \in [Idents -> 0..MaxPodTime + MuteFor]
      <3>1. 0..time + MuteFor \subseteq 0..MaxPodTime + MuteFor
        BY HoneypotAlertsAssumption DEF AlertsBounded
      <3> QED
        BY <3>1 DEF AlertsBounded
    <2>5. \A w \in Ingests : ingest[w].pc \in {"idle", "load", "read", "send"}
      BY TaskParts
    <2> QED
      BY <2>1, <2>2, <2>3, <2>4, <2>5 DEF HoneypotTypeOK
  <1> QED
    BY <1>1, <1>2, <1>3, AlertsStart, HoneypotStart, HoneypotNext, PTL DEF HoneypotSpec

\* What the types of the identities add: what a scan carries was read or found
\* before, and everything an event or an alarm is about is stored.
ScanBounded(s) ==
    /\ scan[s].pc \in {"idle", "known", "commit", "alarm"}
    /\ scan[s].pc \in {"known", "commit"} => scan[s].labels \in [Inventory -> Titles \cup {Unknown}]
    /\ scan[s].pc = "commit" => DOMAIN scan[s].known \subseteq DOMAIN idents
    /\ scan[s].pc = "alarm" => scan[s].due \subseteq DOMAIN identEvents

IdentBounded ==
    /\ \A c \in DOMAIN idents : idents[c] \in Titles \cup {Unknown}
    /\ \A e \in DOMAIN identEvents :
         e.type \in Firsts \cup {"hostname_change"} /\ e.of \in DOMAIN idents
    /\ identAlarms \subseteq DOMAIN identEvents
    /\ \A s \in Scans : ScanBounded(s)

(* As long as nothing is taken away, a scan stays bounded that does not    *)
(* move, and an idle one is.                                               *)
LEMMA ScansBounded ==
    ASSUME IdentTyped, IdentBounded, NEW s \in Scans, NEW task, scan' = [scan EXCEPT ![s] = task],
           DOMAIN idents \subseteq DOMAIN idents', DOMAIN identEvents \subseteq DOMAIN identEvents'
    PROVE  /\ scan'[s] = task
           /\ ScanBounded(s)' => \A t \in Scans : ScanBounded(t)'
           /\ task = NoScan => ScanBounded(s)'
  <1>1. scan'[s] = task /\ \A t \in Scans \ {s} : scan'[t] = scan[t]
    <2>1. scan = [t \in Scans |-> scan[t]]
      BY DEF IdentTyped
    <2>2. scan' = [t \in Scans |-> IF t = s THEN task ELSE scan[t]]
      BY <2>1
    <2> QED
      BY <2>2
  <1>2. \A t \in Scans \ {s} : ScanBounded(t)'
    BY <1>1 DEF IdentBounded, ScanBounded
  <1>3. task = NoScan => ScanBounded(s)'
    BY <1>1 DEF ScanBounded
  <1> QED
    BY <1>1, <1>2, <1>3

(* What a scan finds is of a known kind and about what it stores.          *)
LEMMA FindingsBounded ==
    ASSUME IdentTyped, IdentBounded, NEW s \in Scans, scan[s].pc = "commit", NEW e \in Findings(s)
    PROVE  e.type \in Firsts \cup {"hostname_change"} /\ e.of \in DOMAIN idents \cup Unseen(s)
  <1> DEFINE known == scan[s].known
             renamed == {c \in scan[s].rows \cap DOMAIN known :
                           Unknown \notin {scan[s].labels[c[1]], known[c]}
                             /\ scan[s].labels[c[1]] # known[c]}
  <1>1. DOMAIN known \subseteq DOMAIN idents
    BY DEF IdentBounded, ScanBounded
  <1>2. e \in {[type |-> KindOf(c, DOMAIN known), of |-> c] : c \in Unseen(s)}
               \cup {[type |-> "hostname_change", of |-> c] : c \in renamed}
    BY DEF Findings, Unseen
  <1>3. renamed \subseteq DOMAIN idents
    BY <1>1
  <1> HIDE DEF renamed
  <1>4. CASE e \in {[type |-> KindOf(c, DOMAIN known), of |-> c] : c \in Unseen(s)}
    BY <1>4, FirstsAre
  <1>5. CASE e \in {[type |-> "hostname_change", of |-> c] : c \in renamed}
    BY <1>3, <1>5
  <1> QED
    BY <1>2, <1>4, <1>5

(* What a scan stores, it finds or has loaded before.                      *)
LEMMA CommitBounded ==
    ASSUME IdentTyped, IdentBounded, NEW s \in Scans, ScanCommits(s)
    PROVE  IdentBounded'
  <1> DEFINE found == Findings(s)
             alarming == {e \in found : e.type \in {"ip_mac_change", "hostname_change"}}
             task == IF alarming = {} THEN NoScan
                     ELSE [pc |-> "alarm", due |-> alarming, sent |-> 0]
  <1>1. /\ scan[s].pc = "commit"
        /\ idents' = [c \in DOMAIN idents \cup Unseen(s) |->
             IF c \in scan[s].rows THEN Relabelled(s, c) ELSE idents[c]]
        /\ identEvents' = identEvents (+) SetToBag(found)
        /\ scan' = [scan EXCEPT ![s] = task] /\ identAlarms' = identAlarms
    BY DEF ScanCommits, Stores
  <1>2. /\ DOMAIN idents' = DOMAIN idents \cup Unseen(s)
        /\ DOMAIN identEvents' = DOMAIN identEvents \cup found
    BY <1>1, TimesAdds
  <1>3. \A e \in found : e.type \in Firsts \cup {"hostname_change"} /\ e.of \in DOMAIN idents'
    BY <1>1, <1>2, FindingsBounded
  <1>4. /\ task = NoScan \/ (task.pc = "alarm" /\ task.due = alarming)
        /\ alarming \subseteq found
    OBVIOUS
  <1> HIDE DEF task, alarming, found
  <1>5. \A t \in Scans : ScanBounded(t)'
    <2>1. /\ scan'[s] = task
          /\ ScanBounded(s)' => \A t \in Scans : ScanBounded(t)'
          /\ task = NoScan => ScanBounded(s)'
      BY <1>1, <1>2, ScansBounded
    <2>2. task.pc = "alarm" /\ task.due = alarming => ScanBounded(s)'
      BY <1>2, <1>4, <2>1 DEF ScanBounded
    <2> QED
      BY <1>4, <2>1, <2>2
  <1>6. ASSUME NEW c \in DOMAIN idents'
        PROVE  idents'[c] \in Titles \cup {Unknown}
    <2>1. idents'[c] = IF c \in scan[s].rows THEN Relabelled(s, c) ELSE idents[c]
      BY <1>1, <1>2
    <2>2. c \in DOMAIN idents => idents[c] \in Titles \cup {Unknown}
      BY DEF IdentBounded
    <2>3. CASE c \in scan[s].rows
      <3>1. scan[s].rows \subseteq Combos /\ scan[s].labels \in [Inventory -> Titles \cup {Unknown}]
            /\ DOMAIN scan[s].known \subseteq DOMAIN idents
        BY <1>1 DEF IdentTyped, IdentBounded, ScanBounded
      <3>2. scan[s].labels[c[1]] \in Titles \cup {Unknown}
        BY <2>3, <3>1 DEF Combos
      <3> QED
        BY <2>1, <2>2, <2>3, <3>1, <3>2 DEF Relabelled
    <2>4. CASE c \notin scan[s].rows
      BY <1>2, <2>1, <2>2, <2>4 DEF Unseen
    <2> QED
      BY <2>3, <2>4
  <1>7. \A e \in DOMAIN identEvents' :
          e.type \in Firsts \cup {"hostname_change"} /\ e.of \in DOMAIN idents'
    BY <1>2, <1>3 DEF IdentBounded
  <1>8. identAlarms' \subseteq DOMAIN identEvents'
    BY <1>1, <1>2 DEF IdentBounded
  <1> QED
    BY <1>5, <1>6, <1>7, <1>8 DEF IdentBounded

(* A scan reads and compares what is stored, and sends what it has stored. *)
LEMMA IdentBoundedNext == IdentTyped /\ IdentBounded /\ [IdentityStep]_identVars => IdentBounded'
  <1> SUFFICES ASSUME IdentTyped, IdentBounded, [IdentityStep]_identVars
               PROVE  IdentBounded'
    OBVIOUS
  <1>1. ASSUME idents' = idents, identEvents' = identEvents,
               identAlarms' \subseteq DOMAIN identEvents, \A s \in Scans : ScanBounded(s)'
        PROVE  IdentBounded'
    BY <1>1 DEF IdentBounded
  <1>2. ASSUME idents' = idents, identEvents' = identEvents, identAlarms' = identAlarms,
               NEW s \in Scans, NEW task, scan' = [scan EXCEPT ![s] = task],
               scan'[s] = task => ScanBounded(s)'
        PROVE  IdentBounded'
    <2>1. \A t \in Scans : ScanBounded(t)'
      BY <1>2, ScansBounded
    <2> QED
      BY <1>1, <1>2, <2>1 DEF IdentBounded
  <1>3. CASE (Rebound \/ UNCHANGED identVars)
    <2>1. idents' = idents /\ identEvents' = identEvents /\ identAlarms' = identAlarms /\ scan' = scan
      BY <1>3 DEF Rebound, identVars
    <2> QED
      BY <1>1, <2>1 DEF IdentBounded, ScanBounded
  <1>4. CASE ScansDie
    <2>1. /\ idents' = idents /\ identEvents' = identEvents /\ identAlarms' = identAlarms
          /\ scan' = [s \in Scans |-> NoScan]
      BY <1>4 DEF ScansDie
    <2>2. \A s \in Scans : ScanBounded(s)'
      BY <2>1 DEF ScanBounded
    <2> QED
      BY <1>1, <2>1, <2>2 DEF IdentBounded
  <1>5. ASSUME NEW s \in Scans, ScanReads(s)
        PROVE  IdentBounded'
    <2> DEFINE labels == [h \in Inventory |-> bindings[h].title]
               rows == {<<h, bindings[h].card>> : h \in {x \in Inventory : bindings[x].card # Unknown}}
               task == [pc |-> "known", rows |-> rows, labels |-> labels]
    <2>1. /\ idents' = idents /\ identEvents' = identEvents /\ identAlarms' = identAlarms
          /\ scan' = [scan EXCEPT ![s] = task]
      BY <1>5 DEF ScanReads
    <2>2. labels \in [Inventory -> Titles \cup {Unknown}]
      BY DEF IdentTyped, HostBinding
    <2> HIDE DEF labels, rows
    <2>3. task.pc = "known" /\ task.labels = labels
      OBVIOUS
    <2> HIDE DEF task
    <2>4. scan'[s] = task => ScanBounded(s)'
      BY <2>2, <2>3 DEF ScanBounded
    <2> QED
      BY <1>2, <2>1, <2>4
  <1>6. ASSUME NEW s \in Scans, ScanCompares(s)
        PROVE  IdentBounded'
    <2> DEFINE task == [pc |-> "commit", rows |-> scan[s].rows, labels |-> scan[s].labels,
                        known |-> idents]
    <2>1. /\ idents' = idents /\ identEvents' = identEvents /\ identAlarms' = identAlarms
          /\ scan' = [scan EXCEPT ![s] = task] /\ scan[s].pc = "known"
      BY <1>6 DEF ScanCompares, IdentTyped
    <2>2. scan[s].labels \in [Inventory -> Titles \cup {Unknown}]
      BY <2>1 DEF IdentBounded, ScanBounded
    <2>3. task.pc = "commit" /\ task.labels = scan[s].labels /\ task.known = idents
      OBVIOUS
    <2> HIDE DEF task
    <2>4. scan'[s] = task => ScanBounded(s)'
      BY <2>1, <2>2, <2>3 DEF ScanBounded
    <2> QED
      BY <1>2, <2>1, <2>4
  <1>7. ASSUME NEW s \in Scans, ScanConflicts(s)
        PROVE  IdentBounded'
    <2>1. /\ idents' = idents /\ identEvents' = identEvents /\ identAlarms' = identAlarms
          /\ scan' = [scan EXCEPT ![s] = NoScan]
      BY <1>7 DEF ScanConflicts
    <2>2. scan'[s] = NoScan => ScanBounded(s)'
      BY DEF ScanBounded
    <2> QED
      BY <1>2, <2>1, <2>2
  <1>8. ASSUME NEW s \in Scans, ScanAlarms(s)
        PROVE  IdentBounded'
    <2>1. PICK e \in scan[s].due :
            /\ identAlarms' \in {identAlarms, identAlarms \cup {e}}
            /\ scan' = [scan EXCEPT ![s] =
                 IF @.due = {e} \/ @.sent + 1 = AlarmLimit THEN NoScan
                 ELSE [pc |-> "alarm", due |-> @.due \ {e}, sent |-> @.sent + 1]]
      BY <1>8 DEF ScanAlarms
    <2> DEFINE task == IF scan[s].due = {e} \/ scan[s].sent + 1 = AlarmLimit THEN NoScan
                       ELSE [pc |-> "alarm", due |-> scan[s].due \ {e}, sent |-> scan[s].sent + 1]
    <2>2. /\ idents' = idents /\ identEvents' = identEvents /\ scan[s].pc = "alarm"
          /\ scan' = [scan EXCEPT ![s] = task]
      BY <1>8, <2>1 DEF ScanAlarms, IdentTyped
    <2>3. scan[s].due \subseteq DOMAIN identEvents /\ identAlarms \subseteq DOMAIN identEvents
      BY <2>2 DEF IdentBounded, ScanBounded
    <2>4. task = NoScan \/ (task.pc = "alarm" /\ task.due = scan[s].due \ {e})
      OBVIOUS
    <2> HIDE DEF task
    <2>5. /\ scan'[s] = task
          /\ ScanBounded(s)' => \A t \in Scans : ScanBounded(t)'
          /\ task = NoScan => ScanBounded(s)'
      BY <2>2, ScansBounded
    <2>6. task.pc = "alarm" /\ task.due = scan[s].due \ {e} => ScanBounded(s)'
      BY <2>2, <2>3, <2>5 DEF ScanBounded
    <2>7. \A t \in Scans : ScanBounded(t)'
      BY <2>4, <2>5, <2>6
    <2>8. identAlarms' \subseteq DOMAIN identEvents
      BY <2>1, <2>3
    <2> QED
      BY <1>1, <2>2, <2>7, <2>8
  <1> QED
    BY <1>3, <1>4, <1>5, <1>6, <1>7, <1>8, CommitBounded DEF IdentityStep, ScanStep

(* Every event and every alarm is about a combination that is stored, and  *)
(* every alarm is one of the stored events, however scans overlap.         *)
LEMMA IdentityStaysTyped == IdentitySpec => []IdentityTypeOK
  <1>1. IdentityInit => IdentBounded
    <2> SUFFICES ASSUME IdentityInit
                 PROVE  IdentBounded
      OBVIOUS
    <2>1. DOMAIN idents = {} /\ DOMAIN identEvents = {} /\ identAlarms = {}
          /\ scan = [s \in Scans |-> NoScan]
      BY DEF IdentityInit, EmptyBag, SetToBag
    <2>2. \A s \in Scans : ScanBounded(s)
      BY <2>1 DEF ScanBounded
    <2> QED
      BY <2>1, <2>2 DEF IdentBounded
  <1>2. IdentityInv /\ IdentBounded /\ [IdentityStep]_identVars => IdentBounded'
    BY IdentBoundedNext DEF IdentityInv
  <1>3. IdentityInv /\ IdentBounded => IdentityTypeOK
    BY DEF IdentityInv, IdentTyped, HostBinding, IdentBounded, ScanBounded, IdentityTypeOK, BagToSet
  <1> QED
    BY <1>1, <1>2, <1>3, IdentityStart, IdentityNext, PTL DEF IdentitySpec

----------------------------------------------------------------------------
(* Proofs: the behaviours the runs explore                                 *)

\* A step of the whole is a step of one component, or leaves it alone.
OneAtATime ==
    /\ [NameStep]_nameVars /\ [PollStep]_pollVars /\ [SophosStep]_sophosVars
    /\ [SignInStep]_signInVars /\ [HoneypotStep]_honeypotVars /\ [IdentityStep]_identVars

LEMMA StepsOfOne == [Next]_vars => OneAtATime
  <1> SUFFICES ASSUME [Next]_vars
               PROVE  OneAtATime
    OBVIOUS
  <1>1. CASE UNCHANGED vars
    BY <1>1 DEF OneAtATime, vars
  <1>2. CASE Next
    BY <1>2 DEF OneAtATime, Next
  <1> QED
    BY <1>1, <1>2

\* A behaviour of the whole is one of each component.
OfEach ==
    /\ NameSpec /\ PollSpec /\ SophosSpec
    /\ SignInSpec /\ HoneypotSpec /\ IdentitySpec

LEMMA SpecOfEach == Spec => OfEach
  <1>1. Init => /\ NamesInit /\ PollInit /\ SophosInit
                /\ SignInsInit /\ HoneypotInit /\ IdentityInit
    BY DEF Init
  <1> QED
    BY <1>1, StepsOfOne, PTL
       DEF Spec, OneAtATime, OfEach, NameSpec, PollSpec, SophosSpec, SignInSpec, HoneypotSpec,
           IdentitySpec

(* What the runs check of the six components holds in every behaviour of   *)
(* the specification they explore, whatever its constants are.             *)
THEOREM WatchIsSafe ==
    Spec => [](/\ OperatorNameStands /\ UpdatesHandled /\ OneAccount
               /\ RevokeAskedOnce /\ TouchReportedOnce /\ IdentityReportedOnce)
  BY SpecOfEach, OperatorNamesStand, AllUpdatesHandled, RequestsOfOneAccount, RevokesAskedOnce,
     TouchesReportedOnce, IdentitiesReportedOnce, PTL DEF OfEach
=============================================================================
