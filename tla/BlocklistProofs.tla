-------------------------- MODULE BlocklistProofs --------------------------
(***************************************************************************)
(* Proofs about the blocklist and whitelist handlers, with any number of   *)
(* owners that insert: their state keeps its type, no row changes hands, a *)
(* refresh takes only the manual rows it had read as automatic, and        *)
(* handlers that run one after the other keep the two tables disjoint.     *)
(***************************************************************************)
EXTENDS Blocklist, TLAPS

USE DEF BlockOps, AllListOps

----------------------------------------------------------------------------
(* Types *)

LEMMA NoHandlerType == NoHandler \in Handler
BY ListAssumption DEF NoHandler, Handler, Stages, Sources

LEMMA OutcomeType ==
    ASSUME NEW h \in Handler, NEW s \in Stages
    PROVE  Outcome(h, s) \in Handler
BY DEF Outcome, Handler

\* A step that only changes the locals of one coroutine.
LEMMA LocalType ==
    ASSUME ListTypeOK, NEW w \in Workers, NEW h \in Handler, Become(w, h),
           UNCHANGED <<whitelist, blocked>>
    PROVE  ListTypeOK'
BY DEF ListTypeOK, Become

LEMMA BlockBeginType ==
    ASSUME ListTypeOK, NEW w \in Workers, NEW op \in BlockOps,
           NEW vs \in SUBSET Values, NEW who \in Owners,
           BlockBegin(w, op, vs, who)
    PROVE  ListTypeOK'
<1> DEFINE h == [NoHandler EXCEPT !.op = op, !.ips = vs, !.owner = who,
                   !.at = IF op = "block_name" THEN "blocked" ELSE "whitelist"]
<1>1. h \in Handler
  BY NoHandlerType DEF Handler, Stages
<1> QED
  BY <1>1, LocalType DEF BlockBegin

LEMMA BlockStepType ==
    ASSUME ListTypeOK, NEW w \in Workers, BlockStep(w)
    PROVE  ListTypeOK'
<1> DEFINE h == handler[w]
<1>0. h \in Handler
  BY DEF ListTypeOK
<1>1. CASE BlockRefused(w)
  BY <1>0, <1>1, OutcomeType, LocalType DEF BlockRefused, Stages
<1>2. CASE BlockChecked(w)
  <2>1. [h EXCEPT !.ips = h.ips \ BannedAmong(h.ips), !.at = "blocked"]
          \in Handler
    BY <1>0 DEF Handler, Stages
  <2> QED
    BY <1>2, <2>1, LocalType DEF BlockChecked
<1>3. CASE BlockReadExisting(w)
  <2>1. [h EXCEPT !.rows = {v \in h.ips : ~Blocked(v)}, !.at = "commit"]
          \in Handler
    BY <1>0 DEF Handler, Stages
  <2> QED
    BY <1>3, <2>1, LocalType DEF BlockReadExisting
<1>4. CASE BlockConflict(w)
  BY <1>0, <1>4, OutcomeType, LocalType DEF BlockConflict, Stages
<1>5. CASE BlockInsert(w)
  <2>1. blocked' \in [Values -> Owners \cup {Absent}]
    BY <1>0, <1>5 DEF BlockInsert, ListTypeOK, Handler
  <2>2. Outcome(h, "done") \in Handler
    BY <1>0, OutcomeType DEF Stages
  <2> QED
    BY <1>5, <2>1, <2>2 DEF BlockInsert, Become, ListTypeOK
<1> QED
  BY <1>1, <1>2, <1>3, <1>4, <1>5 DEF BlockStep

LEMMA WhitelistStepType ==
    ASSUME ListTypeOK, NEW w \in Workers, WhitelistStep(w)
    PROVE  ListTypeOK'
<1> DEFINE h == handler[w]
<1>0. h \in Handler
  BY DEF ListTypeOK
<1>00. \A s \in Stages : Outcome(h, s) \in Handler
  BY <1>0, OutcomeType
<1>1. CASE AddWhitelistReadBlocked(w)
  <2>1. [h EXCEPT !.rows = {v \in h.ips : Blocked(v)}, !.at = "commit"]
          \in Handler
    BY <1>0 DEF Handler, Stages
  <2> QED
    BY <1>1, <2>1, LocalType DEF AddWhitelistReadBlocked
<1>2. CASE AddWhitelistConflict(w)
  BY <1>00, <1>2, LocalType DEF AddWhitelistConflict, Stages
<1>3. CASE AddWhitelistCommit(w)
  <2>1. whitelist' \in [Ips -> Sources]
    BY <1>3 DEF AddWhitelistCommit, ListTypeOK, Sources
  <2>2. blocked' \in [Values -> Owners \cup {Absent}]
    BY <1>3 DEF AddWhitelistCommit, ListTypeOK
  <2> QED
    BY <1>00, <1>3, <2>1, <2>2
    DEF AddWhitelistCommit, Become, ListTypeOK, Stages
<1>4. CASE RefreshReadOthers(w)
  <2>1. [h EXCEPT
           !.ips = {i \in Discovered(w) \ AutoRead(w) : ~Whitelisted(i)},
           !.at = "blocked"] \in Handler
    BY <1>0 DEF Handler, Stages, Discovered, Values
  <2> QED
    BY <1>4, <2>1, LocalType DEF RefreshReadOthers
<1>5. CASE RefreshReadBlocked(w)
  <2>1. [h EXCEPT !.rows = {v \in Discovered(w) : Blocked(v)},
           !.at = "commit"] \in Handler
    BY <1>0 DEF Handler, Stages, Discovered, Values
  <2> QED
    BY <1>5, <2>1, LocalType DEF RefreshReadBlocked
<1>6. CASE RefreshConflict(w)
  BY <1>00, <1>6, LocalType DEF RefreshConflict, Stages
<1>7. CASE RefreshCommit(w)
  <2>1. \A i \in Ips : Refreshed(w, i) \in Sources
    BY <1>0 DEF Refreshed, ListTypeOK, Sources, Handler
  <2>2. whitelist' \in [Ips -> Sources]
    BY <1>7, <2>1 DEF RefreshCommit
  <2>3. blocked' \in [Values -> Owners \cup {Absent}]
    BY <1>7 DEF RefreshCommit, ListTypeOK
  <2> QED
    BY <1>00, <1>7, <2>2, <2>3 DEF RefreshCommit, Become, ListTypeOK, Stages
<1> QED
  BY <1>1, <1>2, <1>3, <1>4, <1>5, <1>6, <1>7 DEF WhitelistStep

LEMMA ReplyType ==
    ASSUME ListTypeOK, NEW w \in Workers, Reply(w)
    PROVE  ListTypeOK'
BY NoHandlerType, LocalType DEF Reply

LEMMA ListRequestType ==
    ASSUME ListTypeOK, NEW w \in Workers, ListRequest(w)
    PROVE  ListTypeOK'
<1>1. CASE HumanBlock(w)
  BY <1>1, ListAssumption, BlockBeginType DEF HumanBlock
<1>2. ASSUME NEW i \in Ips, AddWhitelistBegin(w, i)
      PROVE  ListTypeOK'
  <2>1. [NoHandler EXCEPT !.op = "add_whitelist", !.at = "blocked",
           !.ips = {i}, !.saw[i] = whitelist[i]] \in Handler
    BY NoHandlerType DEF Handler, Stages, ListTypeOK, Values
  <2> QED
    BY <1>2, <2>1, LocalType DEF AddWhitelistBegin
<1>3. CASE RefreshBegin(w)
  <2>1. AutoRows \in [Ips -> Sources]
    BY DEF AutoRows, ListTypeOK, Sources
  <2>2. \A found \in [Ips -> Labels \cup {Absent}] :
          [NoHandler EXCEPT !.op = "refresh", !.at = "whitelist",
             !.want = found, !.saw = AutoRows] \in Handler
    BY <2>1, NoHandlerType DEF Handler, Stages
  <2> QED
    BY <1>3, <2>2, LocalType DEF RefreshBegin
<1>4. ASSUME NEW v \in Values, Unblock(v)
      PROVE  ListTypeOK'
  BY <1>4 DEF Unblock, ListTypeOK
<1>5. ASSUME NEW i \in Ips, RemoveWhitelist(i)
      PROVE  ListTypeOK'
  BY <1>5 DEF RemoveWhitelist, ListTypeOK, Sources
<1> QED
  BY <1>1, <1>2, <1>3, <1>4, <1>5 DEF ListRequest

LEMMA ListInitType == ListInit => ListTypeOK
BY NoHandlerType DEF ListInit, ListTypeOK, Sources

LEMMA ListTypeStep == ListTypeOK /\ [ListNext]_listVars => ListTypeOK'
<1>1. ASSUME ListTypeOK, ListNext PROVE ListTypeOK'
  BY <1>1, BlockStepType, WhitelistStepType, ReplyType, ListRequestType
  DEF ListNext
<1>2. ASSUME ListTypeOK, UNCHANGED listVars PROVE ListTypeOK'
  BY <1>2 DEF listVars, ListTypeOK
<1> QED
  BY <1>1, <1>2

\* What an insert on behalf of another owner begins with.
LEMMA OwnerBegins ==
    ASSUME NEW w \in Workers, OwnerBlock(w)
    PROVE  \E op \in BlockOps, vs \in SUBSET Values, who \in Owners :
             /\ op # "block_name"
             /\ BlockBegin(w, op, vs, who)
BY DEF OwnerBlock, Values

LEMMA SharedTypeStep == ListTypeOK /\ [SharedNext]_listVars => ListTypeOK'
BY ListTypeStep, OwnerBegins, BlockBeginType DEF SharedNext

(* The tables and the locals of every list handler keep their types.       *)
THEOREM ListTypeCorrect == SharedSpec => []ListTypeOK
BY ListInitType, SharedTypeStep, PTL DEF SharedSpec

----------------------------------------------------------------------------
(* Rows keep their owner                                                   *)

\* The step that AttributionKept talks about.
KeepsOwner ==
    \A v \in Values : Blocked(v) /\ blocked'[v] # Absent
                       => blocked'[v] = blocked[v]

LEMMA KeepsOwnerStep == ListTypeOK /\ [ListNext]_listVars => [KeepsOwner]_listVars
<1> SUFFICES ASSUME ListTypeOK, ListNext PROVE KeepsOwner
  OBVIOUS
<1>0. UNCHANGED blocked => KeepsOwner
  BY DEF KeepsOwner
<1>1. PICK w \in Workers :
        ListRequest(w) \/ BlockStep(w) \/ WhitelistStep(w) \/ Reply(w)
  BY DEF ListNext
<1>2. CASE ListRequest(w)
  <2>1. ASSUME NEW v \in Values, Unblock(v) PROVE KeepsOwner
    BY <2>1 DEF Unblock, KeepsOwner, ListTypeOK
  <2>2. UNCHANGED blocked \/ \E v \in Values : Unblock(v)
    BY <1>2 DEF ListRequest, HumanBlock, BlockBegin, AddWhitelistBegin,
                RefreshBegin, RemoveWhitelist
  <2> QED
    BY <1>0, <2>1, <2>2
<1>3. CASE BlockStep(w)
  <2>1. BlockInsert(w) => KeepsOwner
    BY DEF BlockInsert, KeepsOwner, Blocked
  <2>2. BlockInsert(w) \/ UNCHANGED blocked
    BY <1>3 DEF BlockStep, BlockRefused, BlockChecked, BlockReadExisting,
                BlockConflict
  <2> QED
    BY <1>0, <2>1, <2>2
<1>4. CASE WhitelistStep(w)
  <2>1. AddWhitelistCommit(w) \/ RefreshCommit(w) => KeepsOwner
    BY DEF AddWhitelistCommit, RefreshCommit, KeepsOwner
  <2>2. AddWhitelistCommit(w) \/ RefreshCommit(w) \/ UNCHANGED blocked
    BY <1>4 DEF WhitelistStep, AddWhitelistReadBlocked, AddWhitelistConflict,
                RefreshReadOthers, RefreshReadBlocked, RefreshConflict
  <2> QED
    BY <1>0, <2>1, <2>2
<1>5. CASE Reply(w)
  BY <1>0, <1>5 DEF Reply
<1> QED
  BY <1>1, <1>2, <1>3, <1>4, <1>5

LEMMA SharedKeepsOwner ==
    ListTypeOK /\ [SharedNext]_listVars => [KeepsOwner]_listVars
<1>1. ASSUME NEW w \in Workers, OwnerBlock(w) PROVE KeepsOwner
  BY <1>1 DEF OwnerBlock, BlockBegin, KeepsOwner
<1> QED
  BY <1>1, KeepsOwnerStep DEF SharedNext

(* A blocklist row keeps the owner it was inserted under for as long as it *)
(* exists, whatever handlers of however many owners run at the same time.  *)
THEOREM OwnersKept == SharedSpec => AttributionKept
<1>1. SharedSpec => [][KeepsOwner]_listVars
  BY ListTypeCorrect, SharedKeepsOwner, PTL DEF SharedSpec
<1> QED
  BY <1>1 DEF AttributionKept, KeepsOwner

----------------------------------------------------------------------------
(* A refresh and the manual rows                                           *)

\* A refresh works from the rows it read to be automatic.
ReadsAutomatic ==
    \A w \in Workers, i \in Ips :
      handler[w].op = "refresh" => handler[w].saw[i] # Manual

\* The step that ManualLostOnlyToStaleRefresh talks about.
LosesManualOnlyStale ==
    \A i \in Ips :
      whitelist[i] = Manual /\ whitelist'[i] # Manual
        => \/ RemoveWhitelist(i)
           \/ \E w \in Workers : /\ At(w, "refresh", "commit")
                                 /\ handler[w].saw[i] \in Labels

\* Locals that are no refresh's, or a refresh's that saw no manual row.
Automatic(h) == h.op = "refresh" => \A i \in Ips : h.saw[i] # Manual

LEMMA BecomesAutomatic ==
    ASSUME ListTypeOK, ReadsAutomatic, NEW w \in Workers, NEW h \in Handler,
           Become(w, h), Automatic(h)
    PROVE  ReadsAutomatic'
BY DEF ListTypeOK, ReadsAutomatic, Become, Automatic

LEMMA StaysAutomatic ==
    ASSUME ListTypeOK, ReadsAutomatic, NEW w \in Workers, NEW h \in Handler,
           Become(w, h), h.op = handler[w].op, h.saw = handler[w].saw
    PROVE  ReadsAutomatic'
BY BecomesAutomatic DEF ReadsAutomatic, Automatic

LEMMA BlockBeginAutomatic ==
    ASSUME ListTypeOK, ReadsAutomatic, NEW w \in Workers, NEW op \in BlockOps,
           NEW vs \in SUBSET Values, NEW who \in Owners,
           BlockBegin(w, op, vs, who)
    PROVE  ReadsAutomatic'
<1> DEFINE x == [NoHandler EXCEPT !.op = op, !.ips = vs, !.owner = who,
               !.at = IF op = "block_name" THEN "blocked" ELSE "whitelist"]
<1>1. x \in Handler /\ x.op = op
  BY ListAssumption, NoHandlerType DEF NoHandler, Handler, Stages
<1>2. Automatic(x)
  BY <1>1 DEF Automatic
<1>3. Become(w, x)
  BY DEF BlockBegin
<1> HIDE DEF x
<1> QED
  BY <1>1, <1>2, <1>3, BecomesAutomatic

LEMMA ReadsAutomaticStep ==
    ListTypeOK /\ ReadsAutomatic /\ [ListNext]_listVars => ReadsAutomatic'
<1> SUFFICES ASSUME ListTypeOK, ReadsAutomatic, ListNext PROVE ReadsAutomatic'
  BY DEF listVars, ReadsAutomatic
<1>1. PICK w \in Workers :
        ListRequest(w) \/ BlockStep(w) \/ WhitelistStep(w) \/ Reply(w)
  BY DEF ListNext
<1> DEFINE h == handler[w]
<1>2. h \in Handler
  BY DEF ListTypeOK
<1>3. \A s \in Stages : /\ Outcome(h, s) \in Handler
                        /\ Outcome(h, s).op = h.op
                        /\ Outcome(h, s).saw = h.saw
  BY <1>2 DEF Outcome, Handler
<1>4. NoHandler \in Handler /\ Automatic(NoHandler)
  BY NoHandlerType DEF NoHandler, Automatic
<1>6. CASE ListRequest(w)
  <2>1. ASSUME NEW op \in BlockOps, NEW vs \in SUBSET Values,
               BlockBegin(w, op, vs, Human)
        PROVE  ReadsAutomatic'
    BY <2>1, ListAssumption, BlockBeginAutomatic
  <2>2. ASSUME NEW i \in Ips, AddWhitelistBegin(w, i) PROVE ReadsAutomatic'
    <3> DEFINE x == [NoHandler EXCEPT !.op = "add_whitelist", !.at = "blocked",
                       !.ips = {i}, !.saw[i] = whitelist[i]]
    <3>1. x \in Handler /\ x.op = "add_whitelist"
      BY NoHandlerType DEF NoHandler, Handler, Stages, ListTypeOK, Values
    <3>2. Automatic(x)
      BY <3>1 DEF Automatic
    <3>3. Become(w, x)
      BY <2>2 DEF AddWhitelistBegin
    <3> HIDE DEF x
    <3> QED
      BY <3>1, <3>2, <3>3, BecomesAutomatic
  <2>3. CASE RefreshBegin(w)
    <3>1. PICK found \in [Ips -> Labels \cup {Absent}] :
            Become(w, [NoHandler EXCEPT !.op = "refresh", !.at = "whitelist",
                        !.want = found, !.saw = AutoRows])
      BY <2>3 DEF RefreshBegin
    <3> DEFINE x == [NoHandler EXCEPT !.op = "refresh", !.at = "whitelist",
                       !.want = found, !.saw = AutoRows]
    <3>2. AutoRows \in [Ips -> Sources]
      BY DEF AutoRows, ListTypeOK, Sources
    <3>3. x \in Handler /\ x.saw = AutoRows
      BY <3>2, NoHandlerType DEF NoHandler, Handler, Stages
    <3>4. Automatic(x)
      BY <3>3, ListAssumption DEF Automatic, AutoRows
    <3>5. Become(w, x)
      BY <3>1
    <3> HIDE DEF x
    <3> QED
      BY <3>3, <3>4, <3>5, BecomesAutomatic
  <2>4. CASE UNCHANGED handler
    BY <2>4 DEF ReadsAutomatic
  <2>5. HumanBlock(w) => \E op \in BlockOps, vs \in SUBSET Values :
                           BlockBegin(w, op, vs, Human)
    BY DEF HumanBlock
  <2> QED
    BY <1>6, <2>1, <2>2, <2>3, <2>4, <2>5
    DEF ListRequest, Unblock, RemoveWhitelist
<1>7. CASE BlockStep(w)
  <2>1. CASE BlockRefused(w) \/ BlockConflict(w) \/ BlockInsert(w)
    BY <1>3, <2>1, StaysAutomatic
    DEF BlockRefused, BlockConflict, BlockInsert, Stages
  <2>2. CASE BlockChecked(w)
    <3> DEFINE x == [h EXCEPT !.ips = h.ips \ BannedAmong(h.ips), !.at = "blocked"]
    <3>1. x \in Handler /\ x.op = h.op /\ x.saw = h.saw
      BY <1>2 DEF Handler, Stages
    <3>2. Become(w, x)
      BY <2>2 DEF BlockChecked
    <3> HIDE DEF x
    <3> QED
      BY <3>1, <3>2, StaysAutomatic
  <2>3. CASE BlockReadExisting(w)
    <3> DEFINE x == [h EXCEPT !.rows = {v \in h.ips : ~Blocked(v)}, !.at = "commit"]
    <3>1. x \in Handler /\ x.op = h.op /\ x.saw = h.saw
      BY <1>2 DEF Handler, Stages
    <3>2. Become(w, x)
      BY <2>3 DEF BlockReadExisting
    <3> HIDE DEF x
    <3> QED
      BY <3>1, <3>2, StaysAutomatic
  <2> QED
    BY <1>7, <2>1, <2>2, <2>3 DEF BlockStep
<1>8. CASE WhitelistStep(w)
  <2>1. CASE \/ AddWhitelistConflict(w) \/ AddWhitelistCommit(w)
             \/ RefreshConflict(w) \/ RefreshCommit(w)
    BY <1>3, <2>1, StaysAutomatic
    DEF AddWhitelistConflict, AddWhitelistCommit, RefreshConflict,
        RefreshCommit, Stages
  <2>2. CASE AddWhitelistReadBlocked(w)
    <3> DEFINE x == [h EXCEPT !.rows = {v \in h.ips : Blocked(v)}, !.at = "commit"]
    <3>1. x \in Handler /\ x.op = h.op /\ x.saw = h.saw
      BY <1>2 DEF Handler, Stages
    <3>2. Become(w, x)
      BY <2>2 DEF AddWhitelistReadBlocked
    <3> HIDE DEF x
    <3> QED
      BY <3>1, <3>2, StaysAutomatic
  <2>3. CASE RefreshReadOthers(w)
    <3> DEFINE x == [h EXCEPT
           !.ips = {i \in Discovered(w) \ AutoRead(w) : ~Whitelisted(i)},
           !.at = "blocked"]
    <3>1. x \in Handler /\ x.op = h.op /\ x.saw = h.saw
      BY <1>2 DEF Handler, Stages, Discovered, Values
    <3>2. Become(w, x)
      BY <2>3 DEF RefreshReadOthers
    <3> HIDE DEF x
    <3> QED
      BY <3>1, <3>2, StaysAutomatic
  <2>4. CASE RefreshReadBlocked(w)
    <3> DEFINE x == [h EXCEPT !.rows = {v \in Discovered(w) : Blocked(v)},
                              !.at = "commit"]
    <3>1. x \in Handler /\ x.op = h.op /\ x.saw = h.saw
      BY <1>2 DEF Handler, Stages, Discovered, Values
    <3>2. Become(w, x)
      BY <2>4 DEF RefreshReadBlocked
    <3> HIDE DEF x
    <3> QED
      BY <3>1, <3>2, StaysAutomatic
  <2> QED
    BY <1>8, <2>1, <2>2, <2>3, <2>4 DEF WhitelistStep
<1>9. CASE Reply(w)
  BY <1>4, <1>9, BecomesAutomatic DEF Reply
<1> QED
  BY <1>1, <1>6, <1>7, <1>8, <1>9

LEMMA StaleOnlyStep ==
    ListTypeOK /\ ReadsAutomatic /\ [ListNext]_listVars
      => [LosesManualOnlyStale]_listVars
<1> SUFFICES ASSUME ListTypeOK, ReadsAutomatic, ListNext
             PROVE  LosesManualOnlyStale
  OBVIOUS
<1>0. UNCHANGED whitelist => LosesManualOnlyStale
  BY DEF LosesManualOnlyStale
<1>1. PICK w \in Workers :
        ListRequest(w) \/ BlockStep(w) \/ WhitelistStep(w) \/ Reply(w)
  BY DEF ListNext
<1>2. ASSUME NEW j \in Ips, RemoveWhitelist(j) PROVE LosesManualOnlyStale
  BY <1>2 DEF RemoveWhitelist, LosesManualOnlyStale, ListTypeOK
<1>3. CASE AddWhitelistCommit(w)
  BY <1>3 DEF AddWhitelistCommit, LosesManualOnlyStale
<1>4. CASE RefreshCommit(w)
  <2> SUFFICES ASSUME NEW i \in Ips, whitelist[i] = Manual,
                      Refreshed(w, i) # Manual
               PROVE  At(w, "refresh", "commit") /\ handler[w].saw[i] \in Labels
    BY <1>4 DEF RefreshCommit, LosesManualOnlyStale
  <2>1. At(w, "refresh", "commit") /\ ~RefreshClash(w)
    BY <1>4 DEF RefreshCommit
  <2>2. i \notin handler[w].ips
    BY <2>1, ListAssumption DEF RefreshClash, Whitelisted
  <2>3. handler[w].saw[i] # Absent
    BY <2>2 DEF Refreshed, AutoRead
  <2>4. handler[w].saw[i] \in Sources /\ handler[w].saw[i] # Manual
    BY <2>1 DEF ListTypeOK, Handler, ReadsAutomatic, At
  <2> QED
    BY <2>1, <2>3, <2>4 DEF Sources
<1>5. \/ UNCHANGED whitelist
      \/ \E j \in Ips : RemoveWhitelist(j)
      \/ AddWhitelistCommit(w) \/ RefreshCommit(w)
  BY <1>1
  DEF ListRequest, HumanBlock, BlockBegin, AddWhitelistBegin, RefreshBegin,
      Unblock, BlockStep, BlockRefused, BlockChecked, BlockReadExisting,
      BlockConflict, BlockInsert, WhitelistStep, AddWhitelistReadBlocked,
      AddWhitelistConflict, RefreshReadOthers, RefreshReadBlocked,
      RefreshConflict, Reply
<1> QED
  BY <1>0, <1>2, <1>3, <1>4, <1>5

LEMMA SharedReadsAutomatic ==
    ListTypeOK /\ ReadsAutomatic /\ [SharedNext]_listVars => ReadsAutomatic'
BY ReadsAutomaticStep, OwnerBegins, BlockBeginAutomatic DEF SharedNext

LEMMA SharedStaleOnly ==
    ListTypeOK /\ ReadsAutomatic /\ [SharedNext]_listVars
      => [LosesManualOnlyStale]_listVars
<1>1. ASSUME NEW w \in Workers, OwnerBlock(w) PROVE LosesManualOnlyStale
  BY <1>1 DEF OwnerBlock, BlockBegin, LosesManualOnlyStale
<1> QED
  BY <1>1, StaleOnlyStep DEF SharedNext

(* Under any interleaving a refresh takes a manual row away only if it had *)
(* read that row as an automatic one.                                      *)
THEOREM ManualRowsKept == SharedSpec => ManualLostOnlyToStaleRefresh
<1>1. ListInit => ReadsAutomatic
  BY DEF ListInit, ReadsAutomatic, NoHandler
<1>2. SharedSpec => []ReadsAutomatic
  BY <1>1, ListTypeCorrect, SharedReadsAutomatic, PTL DEF SharedSpec
<1>3. SharedSpec => [][LosesManualOnlyStale]_listVars
  BY <1>2, ListTypeCorrect, SharedStaleOnly, PTL DEF SharedSpec
<1> QED
  BY <1>3 DEF ManualLostOnlyToStaleRefresh, LosesManualOnlyStale

----------------------------------------------------------------------------
(* Handlers that run one after the other keep the tables disjoint          *)

\* What the one handler in flight has read is still true.
ReadsHold(h) ==
    /\ h.op \in BlockOps /\ h.at \in {"blocked", "commit"}
         => \A i \in h.ips \cap Ips : ~Whitelisted(i)
    /\ h.op \in BlockOps /\ h.at = "commit" => h.rows \subseteq h.ips
    /\ h.op = "add_whitelist" /\ h.at = "commit"
         => \A v \in h.ips : Blocked(v) => v \in h.rows
    /\ h.op = "refresh" /\ h.at \in {"blocked", "commit"}
         => \A i \in h.ips : i \in Ips => h.want[i] # Absent
    /\ h.op = "refresh" /\ h.at = "commit"
         => \A i \in Ips : h.want[i] # Absent /\ Blocked(i) => i \in h.rows

SerialInv ==
    /\ ListTypeOK
    /\ NoOverlap
    /\ \A w \in Workers : ReadsHold(handler[w])

\* A step of the only worker that leaves the tables alone.
LEMMA SerialLocal ==
    ASSUME SerialInv, ListTypeOK', NEW w, Workers = {w}, NEW h \in Handler,
           Become(w, h), UNCHANGED <<whitelist, blocked>>, ReadsHold(h)
    PROVE  SerialInv'
<1>1. NoOverlap'
  BY DEF SerialInv, NoOverlap, Whitelisted, Blocked
<1>2. handler'[w] = h
  BY DEF Become, SerialInv, ListTypeOK
<1>3. \A u \in Workers : ReadsHold(handler[u])'
  BY <1>2 DEF ReadsHold, Whitelisted, Blocked
<1> QED
  BY <1>1, <1>3 DEF SerialInv

\* Locals at any other stage promise nothing.
LEMMA NothingRead ==
    ASSUME NEW h \in Handler,
           h.at \notin {"blocked", "commit"} \/ h.op = "none"
    PROVE  ReadsHold(h)
BY DEF ReadsHold

LEMMA OutcomeHolds ==
    ASSUME NEW h \in Handler, NEW s \in {"refused", "conflict", "done"}
    PROVE  Outcome(h, s) \in Handler /\ ReadsHold(Outcome(h, s))
<1>1. Outcome(h, s) \in Handler
  BY OutcomeType DEF Stages
<1>2. Outcome(h, s).at = s
  BY DEF Outcome, Handler
<1> QED
  BY <1>1, <1>2, NothingRead

LEMMA SerialBlockStep ==
    ASSUME SerialInv, ListTypeOK', NEW w, Workers = {w}, BlockStep(w)
    PROVE  SerialInv'
<1> DEFINE h == handler[w]
<1>0. h \in Handler /\ ReadsHold(h)
  BY DEF SerialInv, ListTypeOK
<1>1. CASE BlockRefused(w) \/ BlockConflict(w)
  BY <1>0, <1>1, OutcomeHolds, SerialLocal DEF BlockRefused, BlockConflict
<1>2. CASE BlockChecked(w)
  <2> DEFINE x == [h EXCEPT !.ips = h.ips \ BannedAmong(h.ips), !.at = "blocked"]
  <2>1. /\ x \in Handler /\ x.op = h.op /\ x.at = "blocked"
        /\ x.ips = h.ips \ BannedAmong(h.ips)
    BY <1>0 DEF Handler, Stages
  <2>2. h.op \in BlockOps /\ Become(w, x) /\ UNCHANGED <<whitelist, blocked>>
    BY <1>2 DEF BlockChecked
  <2>3. \A i \in x.ips \cap Ips : ~Whitelisted(i)
    BY <2>1 DEF BannedAmong
  <2> HIDE DEF x
  <2>4. ReadsHold(x)
    BY <2>1, <2>2, <2>3 DEF ReadsHold
  <2> QED
    BY <2>1, <2>2, <2>4, SerialLocal
<1>3. CASE BlockReadExisting(w)
  <2> DEFINE x == [h EXCEPT !.rows = {v \in h.ips : ~Blocked(v)}, !.at = "commit"]
  <2>1. /\ x \in Handler /\ x.op = h.op /\ x.at = "commit" /\ x.ips = h.ips
        /\ x.rows \subseteq h.ips
    BY <1>0 DEF Handler, Stages
  <2>2. /\ h.op \in BlockOps /\ h.at = "blocked"
        /\ Become(w, x) /\ UNCHANGED <<whitelist, blocked>>
    BY <1>3 DEF BlockReadExisting
  <2> HIDE DEF x
  <2>3. ReadsHold(x)
    BY <1>0, <2>1, <2>2 DEF ReadsHold
  <2> QED
    BY <2>1, <2>2, <2>3, SerialLocal
<1>4. CASE BlockInsert(w)
  <2>1. h.op \in BlockOps /\ h.at = "commit" /\ UNCHANGED whitelist
    BY <1>4 DEF BlockInsert
  <2>2. \A i \in h.ips \cap Ips : ~Whitelisted(i)
    BY <1>0, <2>1 DEF ReadsHold
  <2>3. h.rows \subseteq h.ips
    BY <1>0, <2>1 DEF ReadsHold
  <2>4. NoOverlap'
    BY <1>4, <2>1, <2>2, <2>3
    DEF BlockInsert, SerialInv, NoOverlap, Whitelisted, Blocked, Values
  <2>5. handler'[w] = Outcome(h, "done")
    BY <1>4 DEF BlockInsert, Become, SerialInv, ListTypeOK
  <2>6. handler'[w].at = "done"
    BY <1>0, <2>5 DEF Outcome, Handler
  <2>7. \A u \in Workers : ReadsHold(handler[u])'
    BY <2>6 DEF ReadsHold
  <2> QED
    BY <2>4, <2>7 DEF SerialInv
<1> QED
  BY <1>1, <1>2, <1>3, <1>4 DEF BlockStep

LEMMA SerialWhitelistStep ==
    ASSUME SerialInv, ListTypeOK', NEW w, Workers = {w}, WhitelistStep(w)
    PROVE  SerialInv'
<1> DEFINE h == handler[w]
<1>0. h \in Handler /\ ReadsHold(h)
  BY DEF SerialInv, ListTypeOK
<1>1. CASE AddWhitelistConflict(w) \/ RefreshConflict(w)
  BY <1>0, <1>1, OutcomeHolds, SerialLocal
  DEF AddWhitelistConflict, RefreshConflict
<1>2. CASE AddWhitelistReadBlocked(w)
  <2> DEFINE x == [h EXCEPT !.rows = {v \in h.ips : Blocked(v)}, !.at = "commit"]
  <2>1. /\ x \in Handler /\ x.op = "add_whitelist" /\ x.ips = h.ips
        /\ x.rows = {v \in h.ips : Blocked(v)}
    BY <1>0, <1>2 DEF AddWhitelistReadBlocked, At, Handler, Stages
  <2>2. Become(w, x) /\ UNCHANGED <<whitelist, blocked>>
    BY <1>2 DEF AddWhitelistReadBlocked
  <2> HIDE DEF x
  <2>3. ReadsHold(x)
    BY <2>1 DEF ReadsHold
  <2> QED
    BY <2>1, <2>2, <2>3, SerialLocal
<1>3. CASE RefreshReadOthers(w)
  <2> DEFINE x == [h EXCEPT
         !.ips = {i \in Discovered(w) \ AutoRead(w) : ~Whitelisted(i)},
         !.at = "blocked"]
  <2>1. /\ x \in Handler /\ x.op = "refresh" /\ x.at = "blocked"
        /\ x.want = h.want /\ x.ips \subseteq Discovered(w)
    BY <1>0, <1>3 DEF RefreshReadOthers, At, Handler, Stages, Discovered, Values
  <2>2. Become(w, x) /\ UNCHANGED <<whitelist, blocked>>
    BY <1>3 DEF RefreshReadOthers
  <2> HIDE DEF x
  <2>3. ReadsHold(x)
    BY <2>1 DEF ReadsHold, Discovered
  <2> QED
    BY <2>1, <2>2, <2>3, SerialLocal
<1>4. CASE RefreshReadBlocked(w)
  <2> DEFINE x == [h EXCEPT !.rows = {v \in Discovered(w) : Blocked(v)},
                            !.at = "commit"]
  <2>1. /\ x \in Handler /\ x.op = "refresh" /\ x.ips = h.ips
        /\ x.want = h.want /\ x.rows = {v \in Discovered(w) : Blocked(v)}
    BY <1>0, <1>4 DEF RefreshReadBlocked, At, Handler, Stages, Discovered, Values
  <2>2. /\ h.op = "refresh" /\ h.at = "blocked"
        /\ Become(w, x) /\ UNCHANGED <<whitelist, blocked>>
    BY <1>4 DEF RefreshReadBlocked, At
  <2> HIDE DEF x
  <2>3. ReadsHold(x)
    BY <1>0, <2>1, <2>2 DEF ReadsHold, Discovered
  <2> QED
    BY <2>1, <2>2, <2>3, SerialLocal
<1>5. CASE AddWhitelistCommit(w)
  <2>1. /\ \A v \in h.ips : Blocked(v) => v \in h.rows
        /\ handler'[w] = Outcome(h, "done")
    BY <1>0, <1>5
    DEF AddWhitelistCommit, At, ReadsHold, Become, SerialInv, ListTypeOK
  <2>2. NoOverlap'
    BY <1>5, <2>1
    DEF AddWhitelistCommit, SerialInv, NoOverlap, Whitelisted, Blocked, Values
  <2>3. handler'[w].at = "done"
    BY <1>0, <2>1 DEF Outcome, Handler
  <2>4. \A u \in Workers : ReadsHold(handler[u])'
    BY <2>3 DEF ReadsHold
  <2> QED
    BY <2>2, <2>4 DEF SerialInv
<1>6. CASE RefreshCommit(w)
  <2>1. /\ \A i \in h.ips : i \in Ips => h.want[i] # Absent
        /\ \A i \in Ips : h.want[i] # Absent /\ Blocked(i) => i \in h.rows
        /\ handler'[w] = Outcome(h, "done")
    BY <1>0, <1>6
    DEF RefreshCommit, At, ReadsHold, Become, SerialInv, ListTypeOK
  <2>2. \A i \in Ips : h.want[i] = Absent /\ Refreshed(w, i) # Absent
                         => whitelist[i] # Absent
    BY <2>1 DEF Refreshed, Discovered
  <2>3. NoOverlap'
    BY <1>6, <2>1, <2>2
    DEF RefreshCommit, SerialInv, NoOverlap, Whitelisted, Blocked, Values
  <2>4. handler'[w].at = "done"
    BY <1>0, <2>1 DEF Outcome, Handler
  <2>5. \A u \in Workers : ReadsHold(handler[u])'
    BY <2>4 DEF ReadsHold
  <2> QED
    BY <2>3, <2>5 DEF SerialInv
<1> QED
  BY <1>1, <1>2, <1>3, <1>4, <1>5, <1>6 DEF WhitelistStep

LEMMA SerialBlockBegin ==
    ASSUME SerialInv, ListTypeOK', NEW w, Workers = {w}, NEW op \in BlockOps,
           NEW vs \in SUBSET Values, op = "block_name" => vs \subseteq Names,
           NEW who \in Owners, BlockBegin(w, op, vs, who)
    PROVE  SerialInv'
<1> DEFINE x == [NoHandler EXCEPT !.op = op, !.ips = vs, !.owner = who,
               !.at = IF op = "block_name" THEN "blocked" ELSE "whitelist"]
<1>1. /\ x \in Handler /\ x.op = op /\ x.ips = vs
      /\ x.at = IF op = "block_name" THEN "blocked" ELSE "whitelist"
  BY ListAssumption, NoHandlerType DEF NoHandler, Handler, Stages
<1>2. Become(w, x) /\ UNCHANGED <<whitelist, blocked>>
  BY DEF BlockBegin
<1> HIDE DEF x
<1>3. ReadsHold(x)
  BY <1>1, ListAssumption DEF ReadsHold
<1> QED
  BY <1>1, <1>2, <1>3, SerialLocal

LEMMA SerialRequest ==
    ASSUME SerialInv, ListTypeOK', NEW w, Workers = {w}, ListRequest(w)
    PROVE  SerialInv'
<1>1. ASSUME NEW op \in BlockOps, NEW vs \in SUBSET Values,
             op = "block_name" => vs \subseteq Names,
             BlockBegin(w, op, vs, Human)
      PROVE  SerialInv'
  BY <1>1, ListAssumption, SerialBlockBegin
<1>2. ASSUME NEW i \in Ips, AddWhitelistBegin(w, i) PROVE SerialInv'
  <2> DEFINE x == [NoHandler EXCEPT !.op = "add_whitelist", !.at = "blocked",
                     !.ips = {i}, !.saw[i] = whitelist[i]]
  <2>1. x \in Handler /\ x.op = "add_whitelist" /\ x.at = "blocked"
    BY NoHandlerType DEF NoHandler, Handler, Stages, SerialInv, ListTypeOK, Values
  <2>2. Become(w, x) /\ UNCHANGED <<whitelist, blocked>>
    BY <1>2 DEF AddWhitelistBegin
  <2> HIDE DEF x
  <2>3. ReadsHold(x)
    BY <2>1 DEF ReadsHold
  <2> QED
    BY <2>1, <2>2, <2>3, SerialLocal
<1>3. CASE RefreshBegin(w)
  <2>1. PICK found \in [Ips -> Labels \cup {Absent}] :
          Become(w, [NoHandler EXCEPT !.op = "refresh", !.at = "whitelist",
                      !.want = found, !.saw = AutoRows])
    BY <1>3 DEF RefreshBegin
  <2> DEFINE x == [NoHandler EXCEPT !.op = "refresh", !.at = "whitelist",
                     !.want = found, !.saw = AutoRows]
  <2>2. AutoRows \in [Ips -> Sources]
    BY DEF AutoRows, SerialInv, ListTypeOK, Sources
  <2>3. x \in Handler /\ x.at = "whitelist"
    BY <2>2, NoHandlerType DEF NoHandler, Handler, Stages
  <2>4. Become(w, x) /\ UNCHANGED <<whitelist, blocked>>
    BY <1>3, <2>1 DEF RefreshBegin
  <2> HIDE DEF x
  <2> QED
    BY <2>3, <2>4, NothingRead, SerialLocal
<1>4. CASE /\ handler[w].at = "idle"
           /\ \/ \E v \in Values : Unblock(v)
              \/ \E i \in Ips : RemoveWhitelist(i)
  <2>1. NoOverlap'
    BY <1>4 DEF Unblock, RemoveWhitelist, SerialInv, NoOverlap, Whitelisted,
                Blocked, ListTypeOK, Values
  <2>2. handler' = handler
    BY <1>4 DEF Unblock, RemoveWhitelist
  <2>3. \A u \in Workers : ReadsHold(handler[u])'
    BY <1>4, <2>2 DEF ReadsHold
  <2> QED
    BY <2>1, <2>3 DEF SerialInv
<1>5. HumanBlock(w) =>
        \E op \in BlockOps, vs \in SUBSET Values :
          /\ op = "block_name" => vs \subseteq Names
          /\ BlockBegin(w, op, vs, Human)
  BY DEF HumanBlock
<1> QED
  BY <1>1, <1>2, <1>3, <1>4, <1>5 DEF ListRequest

LEMMA SerialStep ==
    ASSUME NEW w, Workers = {w}
    PROVE  SerialInv /\ [ListNext]_listVars => SerialInv'
<1> SUFFICES ASSUME SerialInv, [ListNext]_listVars PROVE SerialInv'
  OBVIOUS
<1>1. ListTypeOK'
  BY ListTypeStep DEF SerialInv
<1>2. CASE UNCHANGED listVars
  BY <1>1, <1>2
  DEF listVars, SerialInv, NoOverlap, Whitelisted, Blocked, ReadsHold
<1>3. CASE ListNext
  <2>1. ListRequest(w) \/ BlockStep(w) \/ WhitelistStep(w) \/ Reply(w)
    BY <1>3 DEF ListNext
  <2>2. CASE Reply(w)
    BY <1>1, <2>2, NoHandlerType, NothingRead, SerialLocal DEF Reply, NoHandler
  <2> QED
    BY <1>1, <2>1, <2>2, SerialRequest, SerialBlockStep, SerialWhitelistStep
<1> QED
  BY <1>2, <1>3

LEMMA SharedSerialStep ==
    ASSUME NEW w, Workers = {w}
    PROVE  SerialInv /\ [SharedNext]_listVars => SerialInv'
<1> SUFFICES ASSUME SerialInv, [SharedNext]_listVars PROVE SerialInv'
  OBVIOUS
<1>1. ListTypeOK'
  BY SharedTypeStep DEF SerialInv
<1>2. CASE OwnerBlock(w)
  BY <1>1, <1>2, OwnerBegins, SerialBlockBegin
<1> QED
  BY <1>2, SerialStep DEF SharedNext

(* Handlers that run one after the other never leave an IP on both lists.  *)
(* (Handlers in flight together may: a block that passed its whitelist     *)
(* check commits after the IP was whitelisted.)                            *)
THEOREM SerialNoOverlap ==
    ASSUME NEW w, Workers = {w}
    PROVE  SharedSpec => []NoOverlap
<1>1. ListInit => SerialInv
  BY ListInitType, NoHandlerType, NothingRead
  DEF ListInit, SerialInv, NoOverlap, Whitelisted, NoHandler
<1>2. SerialInv /\ [SharedNext]_listVars => SerialInv'
  BY SharedSerialStep
<1>3. SerialInv => NoOverlap
  BY DEF SerialInv
<1> QED
  BY <1>1, <1>2, <1>3, PTL DEF SharedSpec
=============================================================================
