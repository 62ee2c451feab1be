----------------------------- MODULE Blocklist -----------------------------
(***************************************************************************)
(* The firewall blocklist and whitelist tables of the Warroom backend      *)
(* (blocked_ips, blocked_domains, blocked_urls, whitelisted_ips) and the   *)
(* request handlers of main.py that write them.  Every handler is an       *)
(* asyncio coroutine with a database session of its own: it reads with one *)
(* statement per await, prepares its changes in memory and applies them in *)
(* one commit.  The database runs READ COMMITTED, so a handler acts at its *)
(* commit on rows it read some awaits earlier, while other handlers have   *)
(* committed in between; only the primary key on the value is enforced.    *)
(*                                                                         *)
(* A worker is one coroutine in flight.  With a single worker handlers run *)
(* one after the other; with several their awaits interleave.              *)
(***************************************************************************)
EXTENDS Naturals, FiniteSets

CONSTANTS
    Ips,        \* IP addresses (as the strings stored in the ip columns)
    Names,      \* domains and URLs: blockable, never whitelisted
    Labels,     \* source labels of auto-discovered whitelist rows
    Manual,     \* the source of a whitelist row a human entered
    Absent,     \* the table holds no row under this key
    Human,      \* owner of the blocklist rows a human request inserts
    Owners,     \* everybody a blocklist row can be put there by
    Workers,    \* coroutines that may be in flight at the same time
    ListOps     \* the list handlers the environment calls

AllListOps == {"block_ip", "block_ips", "block_name", "unblock",
               "add_whitelist", "remove_whitelist", "refresh"}

ASSUME ListAssumption ==
    /\ Ips \cap Names = {}
    /\ Manual \notin Labels
    /\ Absent \notin Labels \cup {Manual} \cup Owners
    /\ Human \in Owners
    /\ ListOps \subseteq AllListOps

VARIABLES
    whitelist,  \* [Ips -> source of the row, or Absent]
    blocked,    \* [Values -> owner of the row, or Absent]
    handler     \* [Workers -> the locals of the coroutine]

listVars == <<whitelist, blocked, handler>>

Values  == Ips \cup Names
Sources == Labels \cup {Manual, Absent}

BlockOps == {"block_ip", "block_ips", "block_name"}
Stages   == {"idle", "whitelist", "blocked", "commit",
             "refused", "conflict", "done"}

(***************************************************************************)
(* The locals of a coroutine: what it was asked (op, ips, owner, want) and *)
(* what it has read so far (saw: whitelist rows; rows: the blocklist keys  *)
(* it is going to insert or delete).                                       *)
(***************************************************************************)
Handler == [op : AllListOps \cup {"none"}, at : Stages,
            ips : SUBSET Values, rows : SUBSET Values, owner : Owners,
            want : [Ips -> Labels \cup {Absent}], saw : [Ips -> Sources]]

NoHandler == [op |-> "none", at |-> "idle", ips |-> {}, rows |-> {},
              owner |-> Human, want |-> [i \in Ips |-> Absent],
              saw |-> [i \in Ips |-> Absent]]

ListInit ==
    /\ whitelist = [i \in Ips |-> Absent]
    /\ blocked = [v \in Values |-> Absent]
    /\ handler = [w \in Workers |-> NoHandler]

Whitelisted(i) == whitelist[i] # Absent
Blocked(v)     == blocked[v] # Absent

At(w, op, stage) == handler[w].op = op /\ handler[w].at = stage

Become(w, h) == handler' = [handler EXCEPT ![w] = h]

\* The handler ends with this outcome; its reads are forgotten.
Outcome(h, stage) == [h EXCEPT !.at = stage, !.rows = {}]

----------------------------------------------------------------------------
(* Inserting into the blocklist: block_ip refuses a whitelisted IP,        *)
(* block_ips skips it, domains and URLs have no whitelist.                 *)

BlockBegin(w, op, vs, who) ==
    /\ handler[w].at = "idle"
    /\ Become(w, [NoHandler EXCEPT !.op = op, !.ips = vs, !.owner = who,
           !.at = IF op = "block_name" THEN "blocked" ELSE "whitelist"])
    /\ UNCHANGED <<whitelist, blocked>>

\* Mutant: the whitelist is not consulted.
NobodyBanned(vs) == {}

BannedAmong(vs) == {v \in vs \cap Ips : Whitelisted(v)}

BlockRefused(w) ==
    /\ At(w, "block_ip", "whitelist")
    /\ BannedAmong(handler[w].ips) # {}
    /\ Become(w, Outcome(handler[w], "refused"))
    /\ UNCHANGED <<whitelist, blocked>>

BlockChecked(w) ==
    /\ handler[w].op \in BlockOps /\ handler[w].at = "whitelist"
    /\ LET banned == BannedAmong(handler[w].ips)
       IN  /\ handler[w].op = "block_ip" => banned = {}
           /\ Become(w, [handler[w] EXCEPT !.ips = @ \ banned,
                                           !.at = "blocked"])
    /\ UNCHANGED <<whitelist, blocked>>

BlockReadExisting(w) ==
    /\ handler[w].op \in BlockOps /\ handler[w].at = "blocked"
    /\ Become(w, [handler[w] EXCEPT
           !.rows = {v \in handler[w].ips : ~Blocked(v)}, !.at = "commit"])
    /\ UNCHANGED <<whitelist, blocked>>

\* The commit inserts every row not found above; a key somebody else has
\* inserted meanwhile violates the primary key and rolls all of them back.
BlockConflict(w) ==
    /\ handler[w].op \in BlockOps /\ handler[w].at = "commit"
    /\ \E v \in handler[w].rows : Blocked(v)
    /\ Become(w, Outcome(handler[w], "conflict"))
    /\ UNCHANGED <<whitelist, blocked>>

\* Mutant: the request is recorded where the owner belongs.
BlockInsertRequest(w) ==
    /\ handler[w].op \in BlockOps /\ handler[w].at = "commit"
    /\ \A v \in handler[w].rows : ~Blocked(v)
    /\ blocked' = [v \in Values |->
         IF v \in handler[w].rows THEN handler[w].op ELSE blocked[v]]
    /\ Become(w, Outcome(handler[w], "done"))
    /\ UNCHANGED whitelist

\* Mutant: an upsert, which overwrites a row somebody else has inserted.
BlockUpsert(w) ==
    /\ handler[w].op \in BlockOps /\ handler[w].at = "commit"
    /\ blocked' = [v \in Values |->
         IF v \in handler[w].rows THEN handler[w].owner ELSE blocked[v]]
    /\ Become(w, Outcome(handler[w], "done"))
    /\ UNCHANGED whitelist

BlockInsert(w) ==
    /\ handler[w].op \in BlockOps /\ handler[w].at = "commit"
    /\ \A v \in handler[w].rows : ~Blocked(v)
    /\ blocked' = [v \in Values |->
         IF v \in handler[w].rows THEN handler[w].owner ELSE blocked[v]]
    /\ Become(w, Outcome(handler[w], "done"))
    /\ UNCHANGED whitelist

\* The HTTP or chat answer: the coroutine is over, however it ended.
Reply(w) ==
    /\ handler[w].at \in {"refused", "conflict", "done"}
    /\ Become(w, NoHandler)
    /\ UNCHANGED <<whitelist, blocked>>

HumanBlock(w) ==
    \E op \in BlockOps \cap ListOps, vs \in (SUBSET Values) \ {{}} :
      /\ op = "block_name" => vs \subseteq Names
      /\ op \in {"block_ip", "block_ips"} => vs \subseteq Ips
      /\ op # "block_ips" => Cardinality(vs) = 1
      /\ BlockBegin(w, op, vs, Human)

\* A decision of the agent blocks addresses through the same checks and the
\* same insert, and is the owner of the rows.
OwnerBlock(w) ==
    \E op \in {"block_ip", "block_ips"} \cap ListOps,
       vs \in (SUBSET Ips) \ {{}}, who \in Owners \ {Human} :
      /\ op = "block_ip" => Cardinality(vs) = 1
      /\ BlockBegin(w, op, vs, who)

\* Reading the row and deleting it by its key, as one step: whether the row
\* is still the one read makes no difference to a delete by key.
Unblock(v) ==
    /\ "unblock" \in ListOps
    /\ Blocked(v)
    /\ blocked' = [blocked EXCEPT ![v] = Absent]
    /\ UNCHANGED <<whitelist, handler>>

----------------------------------------------------------------------------
(* Entering an IP in the whitelist by hand drops it from the blocklist.    *)

AddWhitelistBegin(w, i) ==
    /\ "add_whitelist" \in ListOps
    /\ handler[w].at = "idle"
    /\ Become(w, [NoHandler EXCEPT !.op = "add_whitelist", !.at = "blocked",
           !.ips = {i}, !.saw[i] = whitelist[i]])
    /\ UNCHANGED <<whitelist, blocked>>

AddWhitelistReadBlocked(w) ==
    /\ At(w, "add_whitelist", "blocked")
    /\ Become(w, [handler[w] EXCEPT
           !.rows = {v \in handler[w].ips : Blocked(v)}, !.at = "commit"])
    /\ UNCHANGED <<whitelist, blocked>>

\* The row was to be inserted and exists, or was to be updated and is gone.
AddWhitelistConflict(w) ==
    /\ At(w, "add_whitelist", "commit")
    /\ \E i \in handler[w].ips :
         (handler[w].saw[i] = Absent) # (whitelist[i] = Absent)
    /\ Become(w, Outcome(handler[w], "conflict"))
    /\ UNCHANGED <<whitelist, blocked>>

\* The source column is written only if it differs from the one that was read.
AddWhitelistCommit(w) ==
    /\ At(w, "add_whitelist", "commit")
    /\ \A i \in handler[w].ips :
         (handler[w].saw[i] = Absent) <=> (whitelist[i] = Absent)
    /\ whitelist' = [i \in Ips |->
         IF i \in handler[w].ips /\ handler[w].saw[i] # Manual
         THEN Manual ELSE whitelist[i]]
    /\ blocked' = [v \in Values |->
         IF v \in handler[w].rows THEN Absent ELSE blocked[v]]
    /\ Become(w, Outcome(handler[w], "done"))

RemoveWhitelist(i) ==
    /\ "remove_whitelist" \in ListOps
    /\ Whitelisted(i)
    /\ whitelist' = [whitelist EXCEPT ![i] = Absent]
    /\ UNCHANGED <<blocked, handler>>

----------------------------------------------------------------------------
(* Refreshing the whitelist from the firewalls the system knows about.     *)
(* want is what was discovered (IP -> source label); saw the non-manual    *)
(* rows the handler read; ips the discovered IPs it found no row for.      *)

Discovered(w) == {i \in Ips : handler[w].want[i] # Absent}
AutoRead(w)   == {i \in Ips : handler[w].saw[i] # Absent}

\* Mutant: the refresh reads the manual rows as well.
AllRows == whitelist

AutoRows ==
    [i \in Ips |-> IF whitelist[i] = Manual THEN Absent ELSE whitelist[i]]

RefreshBegin(w) ==
    /\ "refresh" \in ListOps
    /\ handler[w].at = "idle"
    /\ \E found \in [Ips -> Labels \cup {Absent}] :
         Become(w, [NoHandler EXCEPT !.op = "refresh", !.at = "whitelist",
           !.want = found, !.saw = AutoRows])
    /\ UNCHANGED <<whitelist, blocked>>

RefreshReadOthers(w) ==
    /\ At(w, "refresh", "whitelist")
    /\ Become(w, [handler[w] EXCEPT
           !.ips = {i \in Discovered(w) \ AutoRead(w) : ~Whitelisted(i)},
           !.at = "blocked"])
    /\ UNCHANGED <<whitelist, blocked>>

RefreshReadBlocked(w) ==
    /\ At(w, "refresh", "blocked")
    /\ Become(w, [handler[w] EXCEPT
           !.rows = {v \in Discovered(w) : Blocked(v)}, !.at = "commit"])
    /\ UNCHANGED <<whitelist, blocked>>

\* A row to be inserted exists by now, or a row to be updated is gone.
RefreshClash(w) ==
    \/ \E i \in handler[w].ips : Whitelisted(i)
    \/ \E i \in Discovered(w) \cap AutoRead(w) : ~Whitelisted(i)

RefreshConflict(w) ==
    /\ At(w, "refresh", "commit")
    /\ RefreshClash(w)
    /\ Become(w, Outcome(handler[w], "conflict"))
    /\ UNCHANGED <<whitelist, blocked>>

\* The source after the refresh: a row that was found stale is deleted by its
\* key, and a label is written only where it differs from the one read.
Refreshed(w, i) ==
    LET h == handler[w]
    IN  IF i \in AutoRead(w) \ Discovered(w) THEN Absent
        ELSE IF i \in h.ips \/ (i \in AutoRead(w) /\ h.want[i] # h.saw[i])
        THEN h.want[i]
        ELSE whitelist[i]

RefreshCommit(w) ==
    /\ At(w, "refresh", "commit")
    /\ ~RefreshClash(w)
    /\ whitelist' = [i \in Ips |-> Refreshed(w, i)]
    /\ blocked' = [v \in Values |->
         IF v \in handler[w].rows THEN Absent ELSE blocked[v]]
    /\ Become(w, Outcome(handler[w], "done"))

----------------------------------------------------------------------------
BlockStep(w) ==
    \/ BlockRefused(w)
    \/ BlockChecked(w)
    \/ BlockReadExisting(w)
    \/ BlockConflict(w)
    \/ BlockInsert(w)

WhitelistStep(w) ==
    \/ AddWhitelistReadBlocked(w)
    \/ AddWhitelistConflict(w)
    \/ AddWhitelistCommit(w)
    \/ RefreshReadOthers(w)
    \/ RefreshReadBlocked(w)
    \/ RefreshConflict(w)
    \/ RefreshCommit(w)

\* A request arrives: a handler starts, or a delete is served at once.
ListRequest(w) ==
    \/ HumanBlock(w)
    \/ \E i \in Ips : AddWhitelistBegin(w, i)
    \/ RefreshBegin(w)
    \/ /\ handler[w].at = "idle"
       /\ \/ \E v \in Values : Unblock(v)
          \/ \E i \in Ips : RemoveWhitelist(i)

ListNext ==
    \E w \in Workers :
      ListRequest(w) \/ BlockStep(w) \/ WhitelistStep(w) \/ Reply(w)

\* The tables as the requests and every other owner share them: who blocks
\* when is left open.
SharedNext == ListNext \/ \E w \in Workers : OwnerBlock(w)

SharedSpec == ListInit /\ [][SharedNext]_listVars

----------------------------------------------------------------------------
ListTypeOK ==
    /\ whitelist \in [Ips -> Sources]
    /\ blocked \in [Values -> Owners \cup {Absent}]
    /\ handler \in [Workers -> Handler]

(* No IP is on the blocklist and on the whitelist: the whitelist guard of  *)
(* every path that blocks ("whitelisted IPs can never be blocked") and the *)
(* whitelist handlers that drop the IP from the blocklist ("whitelist      *)
(* takes precedence") together keep the tables disjoint.                   *)
NoOverlap == \A i \in Ips : ~(Whitelisted(i) /\ Blocked(i))

(* A whitelist row a human entered stays a manual row until a human        *)
(* removes it: a refresh may neither delete nor relabel it ("Manual        *)
(* entries are never touched").                                            *)
ManualKept ==
    [][\A i \in Ips :
         whitelist[i] = Manual /\ whitelist'[i] # Manual
           => RemoveWhitelist(i)]_listVars

(* Under any interleaving a refresh deletes or relabels a manual row only  *)
(* if a human entered it after the refresh had read the row as an          *)
(* automatic one; a row it could see to be manual is safe from it.         *)
ManualLostOnlyToStaleRefresh ==
    [][\A i \in Ips :
         whitelist[i] = Manual /\ whitelist'[i] # Manual
           => \/ RemoveWhitelist(i)
              \/ \E w \in Workers : /\ At(w, "refresh", "commit")
                                    /\ handler[w].saw[i] \in Labels]_listVars

(* A blocklist row keeps the owner it was inserted under for as long as it *)
(* exists: of two handlers that both found the key free, one fails and     *)
(* leaves the other's row alone, so "blocked by" stays true.               *)
AttributionKept ==
    [][\A v \in Values :
         Blocked(v) /\ blocked'[v] # Absent
           => blocked'[v] = blocked[v]]_listVars
=============================================================================
