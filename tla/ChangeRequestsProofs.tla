------------------------ MODULE ChangeRequestsProofs ------------------------
(***************************************************************************)
(* What TLAPS proves of ChangeRequests, for any calls, views and change    *)
(* requests and any number of refreshes and teardowns: what a view shows   *)
(* never goes back, and nothing asked for before a teardown is shown.      *)
(***************************************************************************)
EXTENDS ChangeRequests, TLAPS

-----------------------------------------------------------------------------
(***************************************************************************)
(* The invariant. A refresh that has begun holds a token no newer than its *)
(* store; one refresh of a view at most holds the current one; and what it *)
(* was answered is no older than what the view shows.                      *)
(***************************************************************************)
Began(r, v) == refreshes[r][v].stage \in {"asked", "answered", "done"}
Current(r, v) == Began(r, v) /\ IsCurrent(v, refreshes[r][v].token)

AskedCallsNameChanges ==
    \A c \in Calls : calls[c].server # "idle" => calls[c].change \in Changes

TokensAreIssued ==
    \A r \in Refreshers, v \in Views : Began(r, v) =>
        LET token == refreshes[r][v].token
        IN /\ token \in Token
           /\ token.epoch <= epoch
           /\ token.epoch = epoch => token.version <= versions[v]

OneIsCurrent ==
    \A r, s \in Refreshers, v \in Views : Current(r, v) /\ Current(s, v) => r = s

AnswersAreNewer ==
    \A r \in Refreshers, v \in Views : refreshes[r][v].stage = "answered" =>
        LET seen == refreshes[r][v].seen
        IN /\ seen \in Snapshot
           /\ seen.at <= revision
           /\ seen.epoch = refreshes[r][v].token.epoch
           /\ Current(r, v) /\ shown[v] # Nothing => shown[v].at <= seen.at

ShownIsOld ==
    \A v \in Views : shown[v] # Nothing => shown[v] \in Snapshot /\ shown[v].at <= revision

IInv ==
    /\ TypeOK
    /\ AskedCallsNameChanges
    /\ TokensAreIssued
    /\ OneIsCurrent
    /\ AnswersAreNewer
    /\ ShownIsOld
    /\ NothingFromBeforeUnload

-----------------------------------------------------------------------------
LEMMA InitIInv == Init => IInv
<1> SUFFICES ASSUME Init PROVE IInv
    OBVIOUS
<1> USE DEF Init
<1>1. TypeOK
    BY DEF TypeOK, Idle
<1>2. AskedCallsNameChanges
    BY DEF AskedCallsNameChanges
<1>3. \A r \in Refreshers, v \in Views : refreshes[r][v].stage = "idle"
    BY DEF Idle
<1>4. TokensAreIssued /\ OneIsCurrent /\ AnswersAreNewer
    BY <1>3 DEF TokensAreIssued, OneIsCurrent, AnswersAreNewer, Began, Current
<1>5. ShownIsOld /\ NothingFromBeforeUnload
    BY DEF ShownIsOld, NothingFromBeforeUnload
<1> QED
    BY <1>1, <1>2, <1>4, <1>5 DEF IInv

-----------------------------------------------------------------------------
(***************************************************************************)
(* What a refresh holds after BeginRefresh.                                *)
(***************************************************************************)
RefreshRecord ==
    [stage: {"idle", "asked", "answered", "done", "failed"},
     token: Token \cup {Nothing}, seen: Snapshot \cup {Nothing}]

\* What r and its views are after it has begun to refresh vs.
HasBegun(r, vs) ==
    /\ versions' \in [Views -> Nat]
    /\ \A v \in Views : versions'[v] = IF v \in vs THEN versions[v] + 1 ELSE versions[v]
    /\ refreshes' \in [Refreshers -> [Views -> RefreshRecord]]
    /\ \A s \in Refreshers, v \in Views :
         s # r \/ v \notin vs => refreshes'[s][v] = refreshes[s][v]
    /\ \A v \in vs : /\ refreshes'[r][v].stage \in {"asked", "failed"}
                     /\ refreshes'[r][v].stage = "asked" =>
                          refreshes'[r][v].token =
                              [epoch |-> epoch, version |-> versions'[v]]

LEMMA Begun ==
    ASSUME TypeOK, NEW r \in Refreshers, NEW vs \in SUBSET Views, NEW aborted \in BOOLEAN,
           BeginRefresh(r, vs, aborted)
    PROVE  HasBegun(r, vs)
<1> DEFINE f == [v \in Views |->
                   IF v \in vs
                   THEN IF aborted THEN Failed
                        ELSE [stage |-> "asked", seen |-> Nothing,
                              token |-> [epoch |-> epoch, version |-> versions'[v]]]
                   ELSE refreshes[r][v]]
<1>1. /\ versions' = [v \in Views |-> IF v \in vs THEN versions[v] + 1 ELSE versions[v]]
      /\ refreshes' = [refreshes EXCEPT ![r] = f]
    BY DEF BeginRefresh
<1>2. versions \in [Views -> Nat] /\ epoch \in Nat
    BY DEF TypeOK
<1>3. refreshes \in [Refreshers -> [Views -> RefreshRecord]]
    BY DEF TypeOK, RefreshRecord
<1>4. versions' \in [Views -> Nat]
    BY <1>1, <1>2
<1>5. Failed \in RefreshRecord /\ Failed.stage = "failed"
    BY DEF Failed, Idle, RefreshRecord
<1>6. ASSUME NEW v \in Views
      PROVE  f[v] \in RefreshRecord
    <2>1. [epoch |-> epoch, version |-> versions'[v]] \in Token
        BY <1>2, <1>4 DEF Token
    <2>2. [stage |-> "asked", seen |-> Nothing,
           token |-> [epoch |-> epoch, version |-> versions'[v]]] \in RefreshRecord
        BY <2>1 DEF RefreshRecord
    <2>3. refreshes[r][v] \in RefreshRecord
        BY <1>3
    <2> QED
        BY <2>2, <2>3, <1>5
<1>7. f \in [Views -> RefreshRecord]
    BY <1>6
<1>8. refreshes' \in [Refreshers -> [Views -> RefreshRecord]]
    BY <1>1, <1>3, <1>7
<1>9. refreshes'[r] = f /\ \A s \in Refreshers : s # r => refreshes'[s] = refreshes[s]
    BY <1>1, <1>3
<1>10. ASSUME NEW v \in vs
       PROVE  /\ refreshes'[r][v].stage \in {"asked", "failed"}
              /\ refreshes'[r][v].stage = "asked" =>
                   refreshes'[r][v].token = [epoch |-> epoch, version |-> versions'[v]]
    BY <1>5, <1>9
<1>11. \A v \in Views : versions'[v] = IF v \in vs THEN versions[v] + 1 ELSE versions[v]
    BY <1>1
<1>12. \A s \in Refreshers, v \in Views :
          s # r \/ v \notin vs => refreshes'[s][v] = refreshes[s][v]
    BY <1>9
<1> QED
    BY <1>4, <1>8, <1>10, <1>11, <1>12 DEF HasBegun

LEMMA BeginRefreshKeeps ==
    ASSUME IInv, NEW r \in Refreshers, NEW vs \in SUBSET Views, HasBegun(r, vs),
           UNCHANGED <<server, epoch, shown>>
    PROVE  TokensAreIssued' /\ OneIsCurrent' /\ AnswersAreNewer'
<1>0. TypeOK /\ TokensAreIssued /\ OneIsCurrent /\ AnswersAreNewer
    BY DEF IInv
<1>1. /\ versions' \in [Views -> Nat]
      /\ \A v \in Views : versions'[v] = IF v \in vs THEN versions[v] + 1 ELSE versions[v]
      /\ refreshes' \in [Refreshers -> [Views -> RefreshRecord]]
      /\ \A s \in Refreshers, v \in Views :
           s # r \/ v \notin vs => refreshes'[s][v] = refreshes[s][v]
      /\ \A v \in vs : /\ refreshes'[r][v].stage \in {"asked", "failed"}
                       /\ refreshes'[r][v].stage = "asked" =>
                            refreshes'[r][v].token =
                                [epoch |-> epoch, version |-> versions'[v]]
    BY DEF HasBegun
<1>2. versions \in [Views -> Nat] /\ epoch \in Nat
    BY <1>0 DEF TypeOK
<1>3. epoch' = epoch /\ shown' = shown /\ revision' = revision
    BY DEF server
<1>4. ASSUME NEW s \in Refreshers, NEW v \in Views, Began(s, v)'
      PROVE  /\ refreshes'[s][v].token \in Token
             /\ refreshes'[s][v].token.epoch <= epoch
             /\ refreshes'[s][v].token.epoch = epoch =>
                  refreshes'[s][v].token.version <= versions'[v]
             /\ Current(s, v)' => IF v \in vs THEN s = r ELSE Current(s, v)
    <2>1. CASE s = r /\ v \in vs
        <3>1. refreshes'[r][v].token = [epoch |-> epoch, version |-> versions'[v]]
            BY <1>1, <1>4, <2>1 DEF Began
        <3>2. versions'[v] \in Nat
            BY <1>1
        <3> QED
            BY <2>1, <3>1, <3>2, <1>2 DEF Token
    <2>2. CASE ~(s = r /\ v \in vs)
        <3>1. refreshes'[s][v] = refreshes[s][v]
            BY <2>2, <1>1
        <3>2. Began(s, v)
            BY <3>1, <1>4 DEF Began
        <3>3. /\ refreshes[s][v].token \in Token
              /\ refreshes[s][v].token.epoch <= epoch
              /\ refreshes[s][v].token.epoch = epoch =>
                   refreshes[s][v].token.version <= versions[v]
            BY <1>0, <3>2 DEF TokensAreIssued
        <3>4. versions[v] \in Nat /\ versions'[v] \in Nat /\ versions'[v] >= versions[v]
            BY <1>1, <1>2
        <3>5. refreshes[s][v].token.version \in Nat
            BY <3>3 DEF Token
        <3>6. v \in vs => ~Current(s, v)'
            BY <3>1, <3>3, <3>4, <3>5, <1>1, <1>3 DEF Current, IsCurrent
        <3>7. v \notin vs /\ Current(s, v)' => Current(s, v)
            BY <3>1, <3>2, <1>1, <1>3 DEF Current, IsCurrent
        <3> QED
            BY <3>1, <3>3, <3>4, <3>5, <3>6, <3>7
    <2> QED
        BY <2>1, <2>2
<1>5. TokensAreIssued'
    BY <1>3, <1>4 DEF TokensAreIssued
<1>6. OneIsCurrent'
    BY <1>0, <1>4 DEF OneIsCurrent, Current
<1>7. AnswersAreNewer'
    <2> SUFFICES ASSUME NEW s \in Refreshers, NEW v \in Views,
                        refreshes'[s][v].stage = "answered"
                 PROVE  /\ refreshes'[s][v].seen \in Snapshot
                        /\ refreshes'[s][v].seen.at <= revision'
                        /\ refreshes'[s][v].seen.epoch = refreshes'[s][v].token.epoch
                        /\ Current(s, v)' /\ shown'[v] # Nothing =>
                             shown'[v].at <= refreshes'[s][v].seen.at
        BY DEF AnswersAreNewer
    <2>1. ~(s = r /\ v \in vs) /\ refreshes'[s][v] = refreshes[s][v]
        BY <1>1
    <2>2. Current(s, v)' => Current(s, v)
        BY <2>1, <1>4 DEF Current
    <2> QED
        BY <1>0, <2>1, <2>2, <1>3 DEF AnswersAreNewer
<1> QED
    BY <1>5, <1>6, <1>7

-----------------------------------------------------------------------------
(***************************************************************************)
(* A step of a mutation leaves the snapshot stores and the refreshes, but  *)
(* for those it begins, and the association store only grows older.        *)
(***************************************************************************)
CallRecord ==
    [op: {"none", "create", "link", "unlink"}, change: Changes \cup {Nothing},
     told: {"nothing", "linked", "unlinked"}, at: Nat,
     server: {"idle", "asked", "made", "answered", "refused"},
     ui: {"idle", "waiting", "refreshing", "returned", "threw"}]

CallsOK ==
    /\ linked \subseteq Changes /\ revision \in Nat
    /\ calls \in [Calls -> CallRecord]
    /\ AskedCallsNameChanges

LEMMA AnswerKeepsCalls ==
    ASSUME calls \in [Calls -> CallRecord], AskedCallsNameChanges,
           NEW c \in Calls, calls[c].server # "idle",
           NEW stage \in {"made", "answered", "refused"},
           NEW told \in {"nothing", "linked", "unlinked"}, NEW at \in Nat,
           Answer(c, stage, told, at)
    PROVE  calls' \in [Calls -> CallRecord] /\ AskedCallsNameChanges'
<1>1. calls' = [calls EXCEPT ![c].server = stage, ![c].told = told, ![c].at = at]
    BY DEF Answer
<1> DEFINE f == [calls EXCEPT ![c].server = stage]
           g == [f EXCEPT ![c].told = told]
           h == [g EXCEPT ![c].at = at]
<1>2. calls' \in [Calls -> CallRecord]
    <2>1. f \in [Calls -> CallRecord]
        BY DEF CallRecord
    <2>2. g \in [Calls -> CallRecord]
        <3> HIDE DEF f
        <3> QED  BY <2>1 DEF CallRecord
    <2>3. h \in [Calls -> CallRecord]
        <3> HIDE DEF g
        <3> QED  BY <2>2 DEF CallRecord
    <2>4. calls' = h
        BY <1>1
    <2> QED
        BY <2>3, <2>4
<1>3. \A d \in Calls : calls'[d].change = calls[d].change
    BY <1>1 DEF CallRecord
<1>4. \A d \in Calls : d # c => calls'[d] = calls[d]
    BY <1>1
<1> QED
    BY <1>2, <1>3, <1>4 DEF AskedCallsNameChanges

LEMMA ServerStepKeeps ==
    ASSUME CallsOK, NEW c \in Calls, ServerStep(c)
    PROVE  CallsOK' /\ revision' >= revision /\ UNCHANGED <<store, refreshes>>
<1>0. /\ linked \subseteq Changes /\ revision \in Nat
      /\ calls \in [Calls -> CallRecord] /\ AskedCallsNameChanges
    BY DEF CallsOK
<1>1. CASE CreateAtProvider(c)
    <2>1. /\ calls[c].server = "asked" /\ Answer(c, "made", "nothing", 0)
          /\ UNCHANGED <<server, store, refreshes>>
        BY <1>1 DEF CreateAtProvider
    <2>2. calls' \in [Calls -> CallRecord] /\ AskedCallsNameChanges'
        BY <1>0, <2>1, AnswerKeepsCalls
    <2> QED
        BY <1>0, <2>1, <2>2 DEF CallsOK, server
<1>2. ASSUME AtAssociations(c)
      PROVE  calls[c].server # "idle" /\ calls[c].change \in Changes
    BY <1>0, <1>2 DEF AtAssociations, AskedCallsNameChanges
<1>3. ASSUME Associate(c)
      PROVE  linked' \subseteq Changes /\ revision' \in Nat /\ revision' > revision
    BY <1>0, <1>2, <1>3 DEF Associate
<1>4. \A stored \in BOOLEAN : Told(calls[c].op, stored) \in {"nothing", "linked", "unlinked"}
    BY DEF Told
<1>5. CASE AnswerAssociated(c)
    <2>1. /\ Associate(c) /\ Answer(c, "answered", Told(calls[c].op, TRUE), revision')
          /\ UNCHANGED <<store, refreshes>>
        BY <1>5 DEF AnswerAssociated
    <2>2. calls[c].server # "idle"
        BY <2>1, <1>2 DEF Associate
    <2>3. calls' \in [Calls -> CallRecord] /\ AskedCallsNameChanges'
        BY <1>0, <1>3, <1>4, <2>1, <2>2, AnswerKeepsCalls
    <2> QED
        BY <1>0, <1>3, <2>1, <2>3 DEF CallsOK
<1>6. CASE AnswerUnassociated(c)
    <2>1. FailedAnswer(calls[c].op) \in {"made", "answered", "refused"}
        BY DEF FailedAnswer
    <2>2. PICK at \in {0, revision'} :
              Answer(c, FailedAnswer(calls[c].op), Told(calls[c].op, FALSE), at)
        BY <1>6 DEF AnswerUnassociated
    <2>3. Associate(c) \/ (AtAssociations(c) /\ UNCHANGED server)
        BY <1>6 DEF AnswerUnassociated
    <2>4. calls[c].server # "idle"
        BY <2>3, <1>2 DEF Associate
    <2>5. linked' \subseteq Changes /\ revision' \in Nat /\ revision' >= revision
        BY <1>0, <1>3, <2>3 DEF server
    <2>6. calls' \in [Calls -> CallRecord] /\ AskedCallsNameChanges'
        BY <1>0, <1>4, <2>1, <2>2, <2>4, <2>5, AnswerKeepsCalls
    <2>7. UNCHANGED <<store, refreshes>>
        BY <1>6 DEF AnswerUnassociated
    <2> QED
        BY <2>5, <2>6, <2>7 DEF CallsOK
<1>7. CASE Refuse(c)
    <2>1. /\ calls[c].server = "asked" /\ Answer(c, "refused", "nothing", 0)
          /\ UNCHANGED <<server, store, refreshes>>
        BY <1>7 DEF Refuse
    <2>2. calls' \in [Calls -> CallRecord] /\ AskedCallsNameChanges'
        BY <1>0, <2>1, AnswerKeepsCalls
    <2> QED
        BY <1>0, <2>1, <2>2 DEF CallsOK, server
<1> QED
    BY <1>1, <1>5, <1>6, <1>7 DEF ServerStep

\* A mutation in the browser may begin the refreshes of its own.
LEMMA BrowserStepKeeps ==
    ASSUME CallsOK, NEW c \in Calls, BrowserStep(c)
    PROVE  /\ CallsOK'
           /\ UNCHANGED <<server, epoch, shown>>
           /\ \/ UNCHANGED <<store, refreshes>>
              \/ \E aborted \in BOOLEAN : BeginRefresh(c, Views, aborted)
<1>0. /\ linked \subseteq Changes /\ revision \in Nat
      /\ calls \in [Calls -> CallRecord] /\ AskedCallsNameChanges
    BY DEF CallsOK
<1>1. ASSUME NEW op \in {"create", "link", "unlink"}, NEW x \in Changes, Ask(c, op, x)
      PROVE  CallsOK' /\ UNCHANGED <<server, store, refreshes>>
    <2>1. /\ calls' = [calls EXCEPT ![c] =
                [op |-> op, change |-> x, told |-> "nothing", at |-> 0,
                 server |-> "asked", ui |-> "waiting"]]
          /\ UNCHANGED <<server, store, refreshes>>
        BY <1>1 DEF Ask
    <2>2. calls' \in [Calls -> CallRecord]
        BY <1>0, <2>1 DEF CallRecord
    <2>3. AskedCallsNameChanges'
        BY <1>0, <2>1 DEF AskedCallsNameChanges
    <2> QED
        BY <1>0, <2>1, <2>2, <2>3 DEF CallsOK, server
<1>2. ASSUME NEW ui \in {"refreshing", "returned", "threw"},
             calls' = [calls EXCEPT ![c].ui = ui], UNCHANGED server
      PROVE  CallsOK'
    <2>1. calls' \in [Calls -> CallRecord]
        BY <1>0, <1>2 DEF CallRecord
    <2>2. \A d \in Calls : /\ calls'[d].server = calls[d].server
                           /\ calls'[d].change = calls[d].change
        BY <1>0, <1>2 DEF CallRecord
    <2> QED
        BY <1>0, <1>2, <2>1, <2>2 DEF CallsOK, AskedCallsNameChanges, server
<1>3. ASSUME NEW aborted \in BOOLEAN, ReceiveAndRefresh(c, aborted)
      PROVE  /\ CallsOK' /\ UNCHANGED <<server, epoch, shown>>
             /\ BeginRefresh(c, Views, aborted)
    BY <1>2, <1>3 DEF ReceiveAndRefresh
<1>4. CASE Return(c) \/ ReceiveUnlinked(c) \/ Throw(c)
    BY <1>2, <1>4 DEF Return, ReceiveUnlinked, Throw, store, server
<1> QED
    BY <1>1, <1>3, <1>4 DEF BrowserStep, store

-----------------------------------------------------------------------------
(***************************************************************************)
(* The invariant, by the state it speaks of.                               *)
(***************************************************************************)
StoreOK ==
    /\ epoch \in Nat
    /\ versions \in [Views -> Nat]
    /\ shown \in [Views -> Snapshot \cup {Nothing}]
    /\ refreshes \in [Refreshers -> [Views -> RefreshRecord]]

RefreshesOK ==
    TokensAreIssued /\ OneIsCurrent /\ AnswersAreNewer /\ ShownIsOld /\ NothingFromBeforeUnload

LEMMA IInvByState == IInv <=> CallsOK /\ StoreOK /\ RefreshesOK
    BY DEF IInv, TypeOK, CallsOK, StoreOK, RefreshesOK, CallRecord, RefreshRecord

LEMMA PrimedByState == CallsOK' /\ StoreOK' /\ RefreshesOK' => IInv'
    BY DEF IInv, TypeOK, CallsOK, StoreOK, RefreshesOK, CallRecord, RefreshRecord

\* Time passes at the association store only.
LEMMA QuietKeeps ==
    ASSUME StoreOK, RefreshesOK, revision \in Nat, revision' \in Nat, revision' >= revision,
           UNCHANGED <<store, refreshes>>
    PROVE  StoreOK' /\ RefreshesOK'
<1>1. /\ epoch' = epoch /\ versions' = versions /\ shown' = shown
      /\ refreshes' = refreshes
    BY DEF store
<1>2. StoreOK'
    BY <1>1 DEF StoreOK
<1>3. TokensAreIssued' /\ OneIsCurrent' /\ NothingFromBeforeUnload'
    BY <1>1 DEF RefreshesOK, TokensAreIssued, OneIsCurrent, NothingFromBeforeUnload,
                Began, Current, IsCurrent
<1>4. \A s \in Snapshot : s.at <= revision => s.at <= revision'
    BY DEF Snapshot
<1>5. AnswersAreNewer'
    BY <1>1, <1>4 DEF RefreshesOK, AnswersAreNewer, Began, Current, IsCurrent
<1>6. ShownIsOld'
    BY <1>1, <1>4 DEF RefreshesOK, ShownIsOld
<1> QED
    BY <1>2, <1>3, <1>5, <1>6 DEF RefreshesOK

LEMMA RefreshStepKeeps ==
    ASSUME IInv, NEW r \in Refreshers, NEW v \in Views, RefreshStep(r, v)
    PROVE  IInv'
<1>0. /\ CallsOK /\ StoreOK /\ RefreshesOK
      /\ TokensAreIssued /\ OneIsCurrent /\ AnswersAreNewer /\ ShownIsOld
      /\ NothingFromBeforeUnload
    BY IInvByState DEF RefreshesOK
<1>1. /\ revision' = revision /\ linked' = linked /\ calls' = calls
      /\ epoch' = epoch /\ versions' = versions
    BY DEF RefreshStep, Read, FailRefresh, Commit, server, store
<1>2. CallsOK'
    BY <1>0, <1>1 DEF CallsOK, AskedCallsNameChanges
<1>3. revision \in Nat /\ linked \subseteq Changes
    BY <1>0 DEF CallsOK
<1>4. /\ epoch \in Nat /\ versions \in [Views -> Nat]
      /\ shown \in [Views -> Snapshot \cup {Nothing}]
      /\ refreshes \in [Refreshers -> [Views -> RefreshRecord]]
    BY <1>0 DEF StoreOK
<1>5. refreshes[r][v] \in RefreshRecord
    BY <1>4
<1>6. ASSUME NEW f \in RefreshRecord,
             refreshes' = [refreshes EXCEPT ![r] = [@ EXCEPT ![v] = f]],
             f.stage \in {"answered", "done"} => /\ refreshes[r][v].stage \in {"asked", "answered"}
                                                 /\ f.token = refreshes[r][v].token,
             f.stage \in {"answered", "done", "failed"}
      PROVE  /\ refreshes' \in [Refreshers -> [Views -> RefreshRecord]]
             /\ \A s \in Refreshers, w \in Views :
                   refreshes'[s][w] = IF s = r /\ w = v THEN f ELSE refreshes[s][w]
             /\ TokensAreIssued' /\ OneIsCurrent'
             /\ \A s \in Refreshers, w \in Views : Current(s, w)' => Current(s, w)
    <2>1. [refreshes[r] EXCEPT ![v] = f] \in [Views -> RefreshRecord]
        BY <1>4
    <2>2. refreshes' \in [Refreshers -> [Views -> RefreshRecord]]
        BY <1>4, <1>6, <2>1
    <2>3. \A s \in Refreshers, w \in Views :
             refreshes'[s][w] = IF s = r /\ w = v THEN f ELSE refreshes[s][w]
        BY <1>4, <1>6
    <2>4. \A s \in Refreshers, w \in Views :
             Began(s, w)' => Began(s, w) /\ refreshes'[s][w].token = refreshes[s][w].token
        BY <1>6, <2>3 DEF Began
    <2>5. \A s \in Refreshers, w \in Views : Current(s, w)' => Current(s, w)
        BY <1>1, <2>4 DEF Current, IsCurrent
    <2>6. TokensAreIssued'
        BY <1>0, <1>1, <2>4 DEF TokensAreIssued
    <2>7. OneIsCurrent'
        BY <1>0, <2>5 DEF OneIsCurrent
    <2> QED
        BY <2>2, <2>3, <2>5, <2>6, <2>7
<1>7. CASE Read(r, v)
    <2> DEFINE seen == [rows |-> linked, at |-> revision, epoch |-> refreshes[r][v].token.epoch]
               f == [stage |-> "answered", token |-> refreshes[r][v].token, seen |-> seen]
    <2>1. refreshes[r][v].stage = "asked" /\ shown' = shown
        BY <1>7 DEF Read, store
    <2>2. refreshes[r][v].token \in Token
        BY <1>0, <2>1 DEF TokensAreIssued, Began
    <2>3. seen \in Snapshot /\ f \in RefreshRecord
        BY <1>3, <2>2 DEF Snapshot, Token, RefreshRecord
    <2>4. refreshes' = [refreshes EXCEPT ![r] = [@ EXCEPT ![v] = f]]
        BY <1>7 DEF Read
    <2> HIDE DEF f
    <2>5. f.stage = "answered" /\ f.token = refreshes[r][v].token /\ f.seen = seen
        BY DEF f
    <2>6. /\ refreshes' \in [Refreshers -> [Views -> RefreshRecord]]
          /\ \A s \in Refreshers, w \in Views :
                refreshes'[s][w] = IF s = r /\ w = v THEN f ELSE refreshes[s][w]
          /\ TokensAreIssued' /\ OneIsCurrent'
          /\ \A s \in Refreshers, w \in Views : Current(s, w)' => Current(s, w)
        BY <1>6, <2>1, <2>3, <2>4, <2>5
    <2>7. AnswersAreNewer'
        <3> SUFFICES ASSUME NEW s \in Refreshers, NEW w \in Views,
                            refreshes'[s][w].stage = "answered"
                     PROVE  /\ refreshes'[s][w].seen \in Snapshot
                            /\ refreshes'[s][w].seen.at <= revision'
                            /\ refreshes'[s][w].seen.epoch = refreshes'[s][w].token.epoch
                            /\ Current(s, w)' /\ shown'[w] # Nothing =>
                                 shown'[w].at <= refreshes'[s][w].seen.at
            BY DEF AnswersAreNewer
        <3>1. CASE s = r /\ w = v
            BY <1>0, <1>1, <1>3, <2>1, <2>3, <2>5, <2>6, <3>1 DEF ShownIsOld
        <3>2. CASE ~(s = r /\ w = v)
            BY <1>0, <1>1, <2>1, <2>6, <3>2 DEF AnswersAreNewer
        <3> QED
            BY <3>1, <3>2
    <2>8. StoreOK' /\ ShownIsOld' /\ NothingFromBeforeUnload'
        BY <1>0, <1>1, <1>4, <2>1, <2>6 DEF StoreOK, ShownIsOld, NothingFromBeforeUnload
    <2>9. RefreshesOK'
        BY <2>6, <2>7, <2>8 DEF RefreshesOK
    <2> QED
        BY <1>2, <2>8, <2>9, PrimedByState
<1>8. CASE FailRefresh(r, v)
    <2>1. refreshes' = [refreshes EXCEPT ![r][v] = Failed] /\ shown' = shown
        BY <1>8 DEF FailRefresh, store
    <2>2. Failed \in RefreshRecord /\ Failed.stage = "failed"
        BY DEF Failed, Idle, RefreshRecord
    <2>3. refreshes' = [refreshes EXCEPT ![r] = [@ EXCEPT ![v] = Failed]]
        BY <2>1
    <2>4. /\ refreshes' \in [Refreshers -> [Views -> RefreshRecord]]
          /\ \A s \in Refreshers, w \in Views :
                refreshes'[s][w] = IF s = r /\ w = v THEN Failed ELSE refreshes[s][w]
          /\ TokensAreIssued' /\ OneIsCurrent'
          /\ \A s \in Refreshers, w \in Views : Current(s, w)' => Current(s, w)
        BY <1>6, <2>2, <2>3
    <2>5. AnswersAreNewer'
        BY <1>0, <1>1, <2>1, <2>2, <2>4 DEF AnswersAreNewer
    <2>6. StoreOK' /\ ShownIsOld' /\ NothingFromBeforeUnload'
        BY <1>0, <1>1, <1>4, <2>1, <2>4 DEF StoreOK, ShownIsOld, NothingFromBeforeUnload
    <2>7. RefreshesOK'
        BY <2>4, <2>5, <2>6 DEF RefreshesOK
    <2> QED
        BY <1>2, <2>6, <2>7, PrimedByState
<1>9. CASE Commit(r, v)
    <2> DEFINE f == [stage |-> "done", token |-> refreshes[r][v].token, seen |-> Nothing]
               seen == refreshes[r][v].seen
    <2>1. /\ refreshes[r][v].stage = "answered"
          /\ refreshes' = [refreshes EXCEPT ![r] = [@ EXCEPT ![v] = f]]
          /\ shown' = IF IsCurrent(v, refreshes[r][v].token)
                      THEN [shown EXCEPT ![v] = seen] ELSE shown
        BY <1>9 DEF Commit
    <2>2. f \in RefreshRecord /\ f.stage = "done" /\ f.token = refreshes[r][v].token
        BY <1>5 DEF RefreshRecord
    <2> HIDE DEF f
    <2>3. /\ refreshes' \in [Refreshers -> [Views -> RefreshRecord]]
          /\ \A s \in Refreshers, w \in Views :
                refreshes'[s][w] = IF s = r /\ w = v THEN f ELSE refreshes[s][w]
          /\ TokensAreIssued' /\ OneIsCurrent'
          /\ \A s \in Refreshers, w \in Views : Current(s, w)' => Current(s, w)
        BY <1>6, <2>1, <2>2
    <2>4. seen \in Snapshot /\ seen.at <= revision /\ seen.epoch = refreshes[r][v].token.epoch
        BY <1>0, <2>1 DEF AnswersAreNewer
    <2>5. shown' \in [Views -> Snapshot \cup {Nothing}]
        BY <1>4, <2>1, <2>4
    <2>6. \A w \in Views : \/ shown'[w] = shown[w]
                           \/ w = v /\ Current(r, v) /\ shown'[w] = seen
        BY <1>4, <2>1 DEF Current, Began
    <2>7. ShownIsOld'
        BY <1>0, <1>1, <2>4, <2>6 DEF ShownIsOld
    <2>8. NothingFromBeforeUnload'
        BY <1>0, <1>1, <2>4, <2>6 DEF NothingFromBeforeUnload, Current, IsCurrent
    <2>9. AnswersAreNewer'
        <3> SUFFICES ASSUME NEW s \in Refreshers, NEW w \in Views,
                            refreshes'[s][w].stage = "answered"
                     PROVE  /\ refreshes'[s][w].seen \in Snapshot
                            /\ refreshes'[s][w].seen.at <= revision'
                            /\ refreshes'[s][w].seen.epoch = refreshes'[s][w].token.epoch
                            /\ Current(s, w)' /\ shown'[w] # Nothing =>
                                 shown'[w].at <= refreshes'[s][w].seen.at
            BY DEF AnswersAreNewer
        <3>1. ~(s = r /\ w = v) /\ refreshes'[s][w] = refreshes[s][w]
            BY <2>2, <2>3
        <3>2. Current(s, w)' => shown'[w] = shown[w]
            BY <1>0, <2>3, <2>6, <3>1 DEF OneIsCurrent
        <3> QED
            BY <1>0, <1>1, <2>3, <3>1, <3>2 DEF AnswersAreNewer
    <2>10. StoreOK'
        BY <1>1, <1>4, <2>3, <2>5 DEF StoreOK
    <2>11. RefreshesOK'
        BY <2>3, <2>7, <2>8, <2>9 DEF RefreshesOK
    <2> QED
        BY <1>2, <2>10, <2>11, PrimedByState
<1> QED
    BY <1>7, <1>8, <1>9 DEF RefreshStep

-----------------------------------------------------------------------------
\* A teardown: no refresh that has begun is current any more.
LEMMA DestroyKeeps ==
    ASSUME IInv, Destroy
    PROVE  IInv'
<1>0. /\ CallsOK /\ StoreOK /\ RefreshesOK
      /\ TokensAreIssued /\ OneIsCurrent /\ AnswersAreNewer /\ ShownIsOld
    BY IInvByState DEF RefreshesOK
<1>1. /\ epoch' = epoch + 1
      /\ versions' = [v \in Views |-> 0]
      /\ shown' = [v \in Views |-> Nothing]
      /\ revision' = revision /\ linked' = linked /\ calls' = calls
      /\ refreshes' = refreshes
    BY DEF Destroy, server
<1>2. CallsOK'
    BY <1>0, <1>1 DEF CallsOK, AskedCallsNameChanges
<1>3. StoreOK'
    BY <1>0, <1>1 DEF StoreOK
<1>4. \A r \in Refreshers, v \in Views : Began(r, v)' =>
          /\ Began(r, v) /\ refreshes[r][v].token \in Token
          /\ refreshes[r][v].token.epoch < epoch'
    BY <1>0, <1>1 DEF TokensAreIssued, Token, StoreOK, Began
<1>5. \A r \in Refreshers, v \in Views : ~Current(r, v)'
    BY <1>0, <1>1, <1>4 DEF Current, IsCurrent, Token, StoreOK
<1>6. TokensAreIssued'
    BY <1>0, <1>1, <1>4 DEF TokensAreIssued, Token, StoreOK
<1>7. OneIsCurrent' /\ AnswersAreNewer'
    BY <1>0, <1>1, <1>5 DEF OneIsCurrent, AnswersAreNewer
<1>8. ShownIsOld' /\ NothingFromBeforeUnload'
    BY <1>1 DEF ShownIsOld, NothingFromBeforeUnload
<1>9. RefreshesOK'
    BY <1>6, <1>7, <1>8 DEF RefreshesOK
<1> QED
    BY <1>2, <1>3, <1>9, PrimedByState

\* A step that begins refreshes and shows nothing new.
LEMMA BeginKeeps ==
    ASSUME IInv, CallsOK', NEW r \in Refreshers, NEW vs \in SUBSET Views,
           NEW aborted \in BOOLEAN, BeginRefresh(r, vs, aborted),
           UNCHANGED <<server, epoch, shown>>
    PROVE  IInv'
<1>1. TypeOK /\ StoreOK /\ ShownIsOld /\ NothingFromBeforeUnload
    BY IInvByState DEF IInv
<1>2. HasBegun(r, vs)
    BY <1>1, Begun
<1>3. TokensAreIssued' /\ OneIsCurrent' /\ AnswersAreNewer'
    BY <1>2, BeginRefreshKeeps
<1>4. epoch' = epoch /\ shown' = shown /\ revision' = revision
    BY DEF server
<1>5. ShownIsOld' /\ NothingFromBeforeUnload'
    BY <1>1, <1>4 DEF ShownIsOld, NothingFromBeforeUnload
<1>6. StoreOK'
    BY <1>1, <1>2, <1>4 DEF StoreOK, HasBegun
<1>7. RefreshesOK'
    BY <1>3, <1>5 DEF RefreshesOK
<1> QED
    BY <1>6, <1>7, PrimedByState

LEMMA StepIInv ==
    ASSUME IInv, [Next]_vars
    PROVE  IInv'
<1>0. CallsOK /\ StoreOK /\ RefreshesOK /\ revision \in Nat
    BY IInvByState DEF CallsOK
<1>1. ASSUME CallsOK', revision' >= revision, UNCHANGED <<store, refreshes>>
      PROVE  IInv'
    <2>1. revision' \in Nat
        BY <1>1 DEF CallsOK
    <2>2. StoreOK' /\ RefreshesOK'
        BY <1>0, <1>1, <2>1, QuietKeeps
    <2> QED
        BY <1>1, <2>2, PrimedByState
<1>2. ASSUME NEW c \in Calls, ServerStep(c)
      PROVE  IInv'
    BY <1>0, <1>1, <1>2, ServerStepKeeps
<1>3. ASSUME NEW c \in Calls, BrowserStep(c)
      PROVE  IInv'
    <2>1. /\ CallsOK' /\ UNCHANGED <<server, epoch, shown>>
          /\ \/ UNCHANGED <<store, refreshes>>
             \/ \E aborted \in BOOLEAN : BeginRefresh(c, Views, aborted)
        BY <1>0, <1>3, BrowserStepKeeps
    <2>2. CASE UNCHANGED <<store, refreshes>>
        BY <1>0, <1>1, <2>1, <2>2 DEF server
    <2>3. CASE \E aborted \in BOOLEAN : BeginRefresh(c, Views, aborted)
        <3>1. c \in Refreshers /\ Views \in SUBSET Views
            BY DEF Refreshers
        <3> QED
            BY <2>1, <2>3, <3>1, BeginKeeps
    <2> QED
        BY <2>1, <2>2, <2>3
<1>4. ASSUME NEW r \in Refreshers, NEW v \in Views, RefreshStep(r, v)
      PROVE  IInv'
    BY <1>4, RefreshStepKeeps
<1>5. ASSUME NEW v \in HostViews, NEW aborted \in BOOLEAN, Refresh(v, aborted)
      PROVE  IInv'
    <2>1. Host \in Refreshers /\ {v} \in SUBSET Views
        BY HostIsNoCall DEF Refreshers
    <2>2. /\ BeginRefresh(Host, {v}, aborted) /\ UNCHANGED <<server, epoch, shown>>
          /\ calls' = calls
        BY <1>5 DEF Refresh
    <2>3. CallsOK'
        BY <1>0, <2>2 DEF CallsOK, AskedCallsNameChanges, server
    <2> QED
        BY <2>1, <2>2, <2>3, BeginKeeps
<1>6. CASE Destroy
    BY <1>6, DestroyKeeps
<1>7. CASE UNCHANGED vars
    <2>1. CallsOK'
        BY <1>0, <1>7 DEF CallsOK, AskedCallsNameChanges, vars
    <2>2. UNCHANGED <<store, refreshes>> /\ revision' >= revision
        BY <1>0, <1>7 DEF vars, store
    <2> QED
        BY <1>1, <2>1, <2>2
<1> QED
    BY <1>2, <1>3, <1>4, <1>5, <1>6, <1>7 DEF Next

-----------------------------------------------------------------------------
\* The invariant of all three results.
LEMMA Inductive == Spec => []IInv
<1>1. Init => IInv
    BY InitIInv
<1>2. IInv /\ [Next]_vars => IInv'
    BY StepIInv
<1> QED
    BY <1>1, <1>2, PTL DEF Spec

\* Every state is well formed, whatever fails and in whatever order answers
\* come (recipe.go, register.ts, review-store.ts).
THEOREM TypeCorrect == Spec => []TypeOK
<1>1. IInv => TypeOK
    BY DEF IInv
<1> QED
    BY <1>1, Inductive, PTL

\* Nothing that was asked for before a teardown is shown after it
\* (review-store.ts: the epoch in a token).
THEOREM Unloaded == Spec => []NothingFromBeforeUnload
<1>1. IInv => NothingFromBeforeUnload
    BY DEF IInv
<1> QED
    BY <1>1, Inductive, PTL

\* A view is never set back to an older reading of the server
\* (review-store.ts: the version in a token).
THEOREM NeverBack == Spec => SnapshotsNeverGoBack
<1> DEFINE Forward ==
        \A v \in Views : shown[v] # Nothing /\ shown'[v] # Nothing =>
                           shown'[v].at >= shown[v].at
<1>1. ASSUME IInv, [Next]_vars
      PROVE  [Forward]_vars
    <2>0. /\ shown \in [Views -> Snapshot \cup {Nothing}]
          /\ AnswersAreNewer /\ ShownIsOld
        BY <1>1 DEF IInv, TypeOK
    <2>1. CASE UNCHANGED shown
        BY <2>0, <2>1 DEF ShownIsOld, Snapshot
    <2>2. CASE \E r \in Refreshers, v \in Views : Commit(r, v)
        <3>1. PICK r \in Refreshers, v \in Views : Commit(r, v)
            BY <2>2
        <3>2. /\ refreshes[r][v].stage = "answered"
              /\ shown' = IF IsCurrent(v, refreshes[r][v].token)
                          THEN [shown EXCEPT ![v] = refreshes[r][v].seen] ELSE shown
            BY <3>1 DEF Commit
        <3>3. CASE IsCurrent(v, refreshes[r][v].token)
            <4>1. Current(r, v)
                BY <3>2, <3>3 DEF Current, Began
            <4>2. /\ refreshes[r][v].seen \in Snapshot
                  /\ shown[v] # Nothing => shown[v].at <= refreshes[r][v].seen.at
                BY <2>0, <3>2, <4>1 DEF AnswersAreNewer
            <4>3. \A w \in Views :
                     shown'[w] = IF w = v THEN refreshes[r][v].seen ELSE shown[w]
                BY <2>0, <3>2, <3>3
            <4> QED
                BY <2>0, <4>2, <4>3 DEF ShownIsOld, Snapshot
        <3> QED
            BY <2>1, <3>2, <3>3
    <2>3. CASE Destroy
        BY <2>3 DEF Destroy
    <2>4. UNCHANGED shown \/ Destroy \/ \E r \in Refreshers, v \in Views : Commit(r, v)
        <3>1. ASSUME NEW c \in Calls, ServerStep(c) \/ BrowserStep(c)
              PROVE  UNCHANGED shown
            BY <3>1 DEF ServerStep, CreateAtProvider, AnswerAssociated, AnswerUnassociated,
               Refuse, BrowserStep, Ask, ReceiveAndRefresh, Return, ReceiveUnlinked, Throw, store
        <3>2. ASSUME NEW r \in Refreshers, NEW v \in Views, Read(r, v) \/ FailRefresh(r, v)
              PROVE  UNCHANGED shown
            BY <3>2 DEF Read, FailRefresh, store
        <3>3. ASSUME NEW v \in HostViews, NEW aborted \in BOOLEAN, Refresh(v, aborted)
              PROVE  UNCHANGED shown
            BY <3>3 DEF Refresh
        <3> QED
            BY <1>1, <3>1, <3>2, <3>3 DEF Next, RefreshStep, vars
    <2> QED
        BY <2>1, <2>2, <2>3, <2>4
<1>2. IInv /\ [Next]_vars => [Forward]_vars
    BY <1>1
<1> QED
    BY <1>2, Inductive, PTL DEF Spec, SnapshotsNeverGoBack

-----------------------------------------------------------------------------
(***************************************************************************)
(* What a call was told. A change request that was linked is associated,   *)
(* then read, then shown, at each stage unless an unlink came after it.    *)
(***************************************************************************)
Unlinked(c) ==
    \E d \in Calls : /\ calls[d].op = "unlink"
                     /\ calls[d].change = calls[c].change
                     /\ calls[d].at > calls[c].at

Shows(c, rows) == calls[c].change \in rows \/ Unlinked(c)

Refreshed(c) == calls[c].ui \in {"refreshing", "returned"} /\ calls[c].told = "linked"

CallsProgress ==
    \A c \in Calls :
        /\ calls[c].ui = "idle" => calls[c].server = "idle"
        /\ calls[c].server \in {"idle", "asked", "made"} =>
             calls[c].told = "nothing" /\ calls[c].at = 0
        /\ calls[c].ui \in {"refreshing", "returned"} => calls[c].server = "answered"
        /\ calls[c].told = "linked" => calls[c].op # "unlink"
        /\ calls[c].at <= revision

LinkedIsAssociated == \A c \in Calls : calls[c].told = "linked" => Shows(c, linked)

LinkedIsRead ==
    \A c \in Calls, v \in Views :
        Refreshed(c) /\ refreshes[c][v].stage = "answered" => Shows(c, refreshes[c][v].seen.rows)

RefreshedIsShown ==
    \A c \in Calls, v \in Views :
        Refreshed(c) /\ refreshes[c][v].stage = "done" /\ Current(c, v) => Shows(c, shown[v].rows)

LinkInv == CallsProgress /\ LinkedIsAssociated /\ LinkedIsRead /\ RefreshedIsShown

LEMMA InitLinkInv == Init => LinkInv
<1> SUFFICES ASSUME Init PROVE LinkInv
    OBVIOUS
<1>1. \A c \in Calls : /\ calls[c].ui = "idle" /\ calls[c].server = "idle"
                       /\ calls[c].told = "nothing" /\ calls[c].at = 0
    BY DEF Init
<1>2. revision = 0
    BY DEF Init
<1> QED
    BY <1>1, <1>2 DEF LinkInv, CallsProgress, LinkedIsAssociated, LinkedIsRead, RefreshedIsShown,
                      Refreshed

\* A step after which those that are not c are as before, and c has made no
\* write of the association store before.
LEMMA UnlinkedStays ==
    ASSUME TypeOK, NEW c \in Calls, \A d \in Calls : d # c => calls'[d] = calls[d],
           calls[c].at = 0 \/ calls'[c] = [calls[c] EXCEPT !.ui = calls'[c].ui],
           NEW d \in Calls, d # c \/ calls'[c] = [calls[c] EXCEPT !.ui = calls'[c].ui],
           Unlinked(d)
    PROVE  Unlinked(d)'
<1>1. calls[c] \in CallRecord /\ calls[d] \in CallRecord
    BY DEF TypeOK, CallRecord
<1>2. PICK e \in Calls : /\ calls[e].op = "unlink" /\ calls[e].change = calls[d].change
                         /\ calls[e].at > calls[d].at
    BY DEF Unlinked
<1>3. calls'[d].change = calls[d].change /\ calls'[d].at = calls[d].at
    BY <1>1 DEF CallRecord
<1>4. e # c \/ calls'[c] = [calls[c] EXCEPT !.ui = calls'[c].ui]
    BY <1>1, <1>2 DEF CallRecord
<1>5. calls'[e].op = calls[e].op /\ calls'[e].change = calls[e].change /\ calls'[e].at = calls[e].at
    BY <1>1, <1>4 DEF CallRecord
<1> QED
    BY <1>2, <1>3, <1>5 DEF Unlinked

\* A refresh that has ended is current after others have begun only if it was
\* before.
LEMMA CurrentBefore ==
    ASSUME TypeOK, TokensAreIssued, NEW r \in Refreshers, NEW vs \in SUBSET Views,
           HasBegun(r, vs), epoch' = epoch,
           NEW s \in Refreshers, NEW v \in Views, refreshes'[s][v].stage = "done", Current(s, v)'
    PROVE  refreshes'[s][v] = refreshes[s][v] /\ Current(s, v)
<1>1. ~(s = r /\ v \in vs) /\ refreshes'[s][v] = refreshes[s][v]
    BY DEF HasBegun
<1>2. Began(s, v)
    BY <1>1 DEF Began
<1>3. refreshes[s][v].token \in Token /\ versions[v] \in Nat
    BY <1>2 DEF TokensAreIssued, TypeOK
<1>4. refreshes[s][v].token.epoch = epoch => refreshes[s][v].token.version <= versions[v]
    BY <1>2 DEF TokensAreIssued
<1>5. /\ refreshes[s][v].token.epoch = epoch
      /\ refreshes[s][v].token.version = versions'[v]
    BY <1>1 DEF Current, IsCurrent
<1>6. versions'[v] = versions[v] \/ versions'[v] = versions[v] + 1
    BY DEF HasBegun
<1>7. versions'[v] = versions[v]
    BY <1>3, <1>4, <1>5, <1>6
<1> QED
    BY <1>1, <1>2, <1>5, <1>7 DEF Current, IsCurrent

\* A step of the association store by c, told or not.
LEMMA ServerLinkInv ==
    ASSUME IInv, LinkInv, NEW c \in Calls, ServerStep(c)
    PROVE  LinkInv'
<1>1. calls \in [Calls -> CallRecord] /\ revision \in Nat /\ linked \subseteq Changes
    BY DEF IInv, TypeOK, CallRecord
<1>2. UNCHANGED <<epoch, versions, shown, refreshes>>
    BY DEF ServerStep, CreateAtProvider, AnswerAssociated, AnswerUnassociated, Refuse, store
<1>3. calls[c].server \in {"asked", "made"}
    BY <1>1 DEF ServerStep, CreateAtProvider, AnswerAssociated, AnswerUnassociated, Refuse,
                AtAssociations, Associate
<1>4. calls[c].told = "nothing" /\ calls[c].at = 0 /\ ~(calls[c].ui \in {"refreshing", "returned"})
      /\ calls[c].ui # "idle"
    BY <1>3 DEF LinkInv, CallsProgress
<1>5. PICK stage \in {"made", "answered", "refused"}, told \in {"nothing", "linked", "unlinked"},
           at \in {0, revision'} :
        /\ Answer(c, stage, told, at)
        /\ stage = "made" => told = "nothing" /\ at = 0
        /\ at # 0 => Associate(c)
        /\ at = 0 => UNCHANGED <<linked, revision>> /\ told # "linked"
        /\ told = "linked" => calls[c].op # "unlink"
    <2>1. CASE CreateAtProvider(c)
        BY <2>1 DEF CreateAtProvider, server
    <2>2. CASE AnswerAssociated(c)
        <3>1. revision' # 0
            BY <1>1, <2>2 DEF AnswerAssociated, Associate
        <3>2. Answer(c, "answered", Told(calls[c].op, TRUE), revision') /\ Associate(c)
            BY <2>2 DEF AnswerAssociated
        <3>3. /\ Told(calls[c].op, TRUE) \in {"nothing", "linked", "unlinked"}
              /\ Told(calls[c].op, TRUE) = "linked" => calls[c].op # "unlink"
            BY DEF Told
        <3> QED
            BY <3>1, <3>2, <3>3
    <2>3. CASE AnswerUnassociated(c)
        <3>1. Told(calls[c].op, FALSE) = "unlinked"
            BY DEF Told
        <3>2. FailedAnswer(calls[c].op) \in {"answered", "refused"}
            BY DEF FailedAnswer
        <3>3. CASE Associate(c) /\ Answer(c, FailedAnswer(calls[c].op), "unlinked", revision')
            <4>1. revision' # 0
                BY <1>1, <3>3 DEF Associate
            <4> QED
                BY <3>2, <3>3, <4>1
        <3>4. CASE /\ Answer(c, FailedAnswer(calls[c].op), "unlinked", 0)
                   /\ UNCHANGED <<linked, revision>>
            BY <3>2, <3>4
        <3> QED
            BY <2>3, <3>1, <3>3, <3>4 DEF AnswerUnassociated, server
    <2>4. CASE Refuse(c)
        BY <2>4 DEF Refuse, server
    <2> QED
        BY <2>1, <2>2, <2>3, <2>4 DEF ServerStep
<1>6. /\ \A d \in Calls : d # c => calls'[d] = calls[d]
      /\ calls'[c].op = calls[c].op /\ calls'[c].change = calls[c].change
      /\ calls'[c].ui = calls[c].ui
      /\ calls'[c].server = stage /\ calls'[c].told = told /\ calls'[c].at = at
    BY <1>1, <1>5 DEF Answer, CallRecord
<1>7. at # 0 =>
        /\ revision' = revision + 1 /\ at = revision'
        /\ linked' = IF calls[c].op = "unlink" THEN linked \ {calls[c].change}
                     ELSE linked \cup {calls[c].change}
    BY <1>5 DEF Associate
<1>8. \A d \in Calls : d # c /\ Unlinked(d) => Unlinked(d)'
    BY <1>4, <1>6, UnlinkedStays DEF IInv
<1>9. CallsProgress'
    BY <1>1, <1>3, <1>4, <1>5, <1>6, <1>7 DEF LinkInv, CallsProgress, CallRecord
<1>10. LinkedIsAssociated'
    <2> SUFFICES ASSUME NEW d \in Calls, calls'[d].told = "linked"
                 PROVE  Shows(d, linked)'
        BY DEF LinkedIsAssociated
    <2>1. CASE d = c
        BY <1>5, <1>6, <1>7, <2>1 DEF Shows
    <2>2. CASE d # c
        <3>1. calls[d].told = "linked" /\ calls'[d] = calls[d] /\ Shows(d, linked)
            BY <1>6, <2>2 DEF LinkInv, LinkedIsAssociated
        <3>2. CASE calls[d].change \in linked /\ calls[d].change \notin linked'
            <4>1. calls[c].op = "unlink" /\ calls[c].change = calls[d].change /\ at = revision + 1
                BY <1>5, <1>7, <3>2
            <4>2. calls[d].at \in Nat /\ calls[d].at <= revision
                BY <1>1 DEF LinkInv, CallsProgress, CallRecord
            <4>3. Unlinked(d)'
                BY <1>1, <1>6, <3>1, <4>1, <4>2 DEF Unlinked
            <4> QED
                BY <4>3 DEF Shows
        <3> QED
            BY <1>8, <2>2, <3>1, <3>2 DEF Shows
    <2> QED
        BY <2>1, <2>2
<1>11. \A d \in Calls : Refreshed(d)' => /\ d # c /\ Refreshed(d)
                                          /\ \A rows : Shows(d, rows) => Shows(d, rows)'
    BY <1>4, <1>6, <1>8 DEF Refreshed, Shows
<1>12. LinkedIsRead'
    <2>1. ASSUME NEW d \in Calls, NEW v \in Views, Refreshed(d)', refreshes'[d][v].stage = "answered"
          PROVE  Shows(d, refreshes[d][v].seen.rows)'
        <3>1. PICK rows : rows = refreshes[d][v].seen.rows
            OBVIOUS
        <3>2. Shows(d, rows)'
            BY <1>2, <1>11, <2>1, <3>1 DEF LinkInv, LinkedIsRead
        <3> QED
            BY <1>2, <3>1, <3>2 DEF Shows
    <2> QED
        BY <2>1 DEF LinkedIsRead
<1>13. RefreshedIsShown'
    <2>1. ASSUME NEW d \in Calls, NEW v \in Views, Refreshed(d)', refreshes'[d][v].stage = "done",
                 Current(d, v)'
          PROVE  Shows(d, shown[v].rows)'
        <3>1. PICK rows : rows = shown[v].rows
            OBVIOUS
        <3>2. Current(d, v)
            BY <1>2, <2>1 DEF Current, Began, IsCurrent
        <3>3. Shows(d, rows)'
            BY <1>2, <1>11, <2>1, <3>1, <3>2 DEF LinkInv, RefreshedIsShown
        <3> QED
            BY <1>2, <3>1, <3>3 DEF Shows
    <2> QED
        BY <2>1 DEF RefreshedIsShown
<1> QED
    BY <1>9, <1>10, <1>12, <1>13 DEF LinkInv

\* A step that changes no call, and shows nothing that c has not read.
LEMMA QuietCalls ==
    ASSUME UNCHANGED <<calls, linked, revision>>, LinkInv,
           ASSUME NEW c \in Calls, NEW v \in Views, Refreshed(c),
                  refreshes'[c][v].stage = "answered"
           PROVE  Shows(c, refreshes'[c][v].seen.rows),
           ASSUME NEW c \in Calls, NEW v \in Views, Refreshed(c),
                  refreshes'[c][v].stage = "done", Current(c, v)'
           PROVE  Shows(c, shown'[v].rows)
    PROVE  LinkInv'
<1>1. \A c \in Calls : Refreshed(c)' <=> Refreshed(c)
    BY DEF Refreshed
<1>2. \A c \in Calls : Unlinked(c)' <=> Unlinked(c)
    BY DEF Unlinked
<1>3. \A c \in Calls : \A rows : Shows(c, rows) => Shows(c, rows)'
    BY <1>2 DEF Shows
<1>4. CallsProgress' /\ LinkedIsAssociated'
    BY <1>2 DEF LinkInv, CallsProgress, LinkedIsAssociated, Shows
<1>5. LinkedIsRead'
    <2> SUFFICES ASSUME NEW c \in Calls, NEW v \in Views, Refreshed(c)',
                        refreshes'[c][v].stage = "answered"
                 PROVE  Shows(c, refreshes[c][v].seen.rows)'
        BY DEF LinkedIsRead
    <2>1. PICK rows : rows = refreshes'[c][v].seen.rows
        OBVIOUS
    <2>2. Shows(c, rows)'
        BY <1>1, <1>3, <2>1
    <2> QED
        BY <2>1, <2>2 DEF Shows
<1>6. RefreshedIsShown'
    <2> SUFFICES ASSUME NEW c \in Calls, NEW v \in Views, Refreshed(c)',
                        refreshes'[c][v].stage = "done", Current(c, v)'
                 PROVE  Shows(c, shown[v].rows)'
        BY DEF RefreshedIsShown
    <2>1. PICK rows : rows = shown'[v].rows
        OBVIOUS
    <2>2. Shows(c, rows)'
        BY <1>1, <1>3, <2>1
    <2> QED
        BY <2>1, <2>2 DEF Shows
<1> QED
    BY <1>4, <1>5, <1>6 DEF LinkInv

LEMMA BrowserLinkInv ==
    ASSUME IInv, LinkInv, NEW c \in Calls, BrowserStep(c)
    PROVE  LinkInv'
<1>1. /\ calls \in [Calls -> CallRecord] /\ TypeOK /\ TokensAreIssued
      /\ c \in Refreshers /\ Calls \subseteq Refreshers
    BY DEF IInv, TypeOK, CallRecord, Refreshers
<1>2. UNCHANGED <<linked, revision, epoch, shown>>
    BY DEF BrowserStep, Ask, ReceiveAndRefresh, Return, ReceiveUnlinked, Throw, server, store
<1>3. PICK k : calls' = [calls EXCEPT ![c] = k]
    BY DEF BrowserStep, Ask, ReceiveAndRefresh, Return, ReceiveUnlinked, Throw
<1>4. calls'[c] = k /\ \A d \in Calls : d # c => calls'[d] = calls[d]
    BY <1>1, <1>3
<1>5. CASE \E op \in {"create", "link", "unlink"}, x \in Changes : Ask(c, op, x)
    <2>1. /\ calls[c].ui = "idle" /\ UNCHANGED <<versions, refreshes>>
          /\ k.told = "nothing" /\ k.at = 0 /\ k.server = "asked" /\ k.ui = "waiting"
        BY <1>1, <1>4, <1>5 DEF Ask, store
    <2>2. calls[c].told = "nothing" /\ calls[c].at = 0
        BY <2>1 DEF LinkInv, CallsProgress
    <2>3. \A d \in Calls : d # c /\ Unlinked(d) => Unlinked(d)'
        BY <1>1, <1>4, <2>2, UnlinkedStays
    <2>4. \A d \in Calls : d # c => \A rows : Shows(d, rows) => Shows(d, rows)'
        BY <1>4, <2>3 DEF Shows
    <2>5. CallsProgress'
        BY <1>1, <1>2, <1>4, <2>1, <2>2 DEF LinkInv, CallsProgress
    <2>6. \A d \in Calls : calls'[d].told = "linked" => d # c /\ calls'[d] = calls[d]
        BY <1>4, <2>1
    <2>7. LinkedIsAssociated'
        <3> SUFFICES ASSUME NEW d \in Calls, calls'[d].told = "linked"
                     PROVE  Shows(d, linked)'
            BY DEF LinkedIsAssociated
        <3>1. Shows(d, linked)
            BY <2>6 DEF LinkInv, LinkedIsAssociated
        <3> QED
            BY <1>2, <2>3, <2>6, <3>1 DEF Shows
    <2>8. LinkedIsRead'
        <3> SUFFICES ASSUME NEW d \in Calls, NEW v \in Views, Refreshed(d)',
                            refreshes'[d][v].stage = "answered"
                     PROVE  Shows(d, refreshes[d][v].seen.rows)'
            BY DEF LinkedIsRead
        <3>1. Refreshed(d) /\ d # c /\ calls'[d] = calls[d]
            BY <2>6 DEF Refreshed
        <3>2. Shows(d, refreshes[d][v].seen.rows)
            BY <2>1, <3>1 DEF LinkInv, LinkedIsRead
        <3> QED
            BY <2>1, <2>3, <3>1, <3>2 DEF Shows
    <2>9. RefreshedIsShown'
        <3> SUFFICES ASSUME NEW d \in Calls, NEW v \in Views, Refreshed(d)',
                            refreshes'[d][v].stage = "done", Current(d, v)'
                     PROVE  Shows(d, shown[v].rows)'
            BY DEF RefreshedIsShown
        <3>1. Refreshed(d) /\ d # c /\ calls'[d] = calls[d]
            BY <2>6 DEF Refreshed
        <3>2. Current(d, v)
            BY <1>2, <2>1 DEF Current, Began, IsCurrent
        <3>3. Shows(d, shown[v].rows)
            BY <2>1, <3>1, <3>2 DEF LinkInv, RefreshedIsShown
        <3> QED
            BY <1>2, <2>3, <3>1, <3>3 DEF Shows
    <2> QED
        BY <2>5, <2>7, <2>8, <2>9 DEF LinkInv
<1>6. CASE ~\E op \in {"create", "link", "unlink"}, x \in Changes : Ask(c, op, x)
    <2>1. /\ calls' = [calls EXCEPT ![c].ui = k.ui]
          /\ k.ui \in {"refreshing", "returned", "threw"}
          /\ k.ui \in {"refreshing", "returned"} => calls[c].server = "answered"
          /\ k.ui = "returned" =>
               calls[c].ui = "refreshing" \/ (calls[c].ui = "waiting" /\ calls[c].op = "unlink")
          /\ k.ui # "refreshing" => UNCHANGED <<versions, refreshes>>
          /\ k.ui = "refreshing" => HasBegun(c, Views)
        <3>1. CASE \E aborted \in BOOLEAN : ReceiveAndRefresh(c, aborted)
            <4>1. calls' = [calls EXCEPT ![c].ui = "refreshing"] /\ calls[c].server = "answered"
                BY <3>1 DEF ReceiveAndRefresh
            <4>2. HasBegun(c, Views)
                BY <1>1, <3>1, Begun DEF ReceiveAndRefresh
            <4>3. k.ui = "refreshing"
                BY <1>1, <1>4, <4>1 DEF CallRecord
            <4> QED
                BY <4>1, <4>2, <4>3
        <3>2. CASE Return(c)
            <4>1. /\ calls' = [calls EXCEPT ![c].ui = "returned"] /\ calls[c].ui = "refreshing"
                  /\ UNCHANGED <<versions, refreshes>>
                BY <3>2 DEF Return, store
            <4>2. k.ui = "returned" /\ calls[c].server = "answered"
                BY <1>1, <1>4, <4>1 DEF CallRecord, LinkInv, CallsProgress
            <4> QED
                BY <4>1, <4>2
        <3>3. CASE ReceiveUnlinked(c)
            <4>1. /\ calls' = [calls EXCEPT ![c].ui = "returned"] /\ calls[c].ui = "waiting"
                  /\ calls[c].server = "answered" /\ calls[c].op = "unlink"
                  /\ UNCHANGED <<versions, refreshes>>
                BY <3>3 DEF ReceiveUnlinked, store
            <4>2. k.ui = "returned"
                BY <1>1, <1>4, <4>1 DEF CallRecord
            <4> QED
                BY <4>1, <4>2
        <3>4. CASE Throw(c)
            <4>1. /\ calls' = [calls EXCEPT ![c].ui = "threw"] /\ UNCHANGED <<versions, refreshes>>
                BY <3>4 DEF Throw, store
            <4>2. k.ui = "threw"
                BY <1>1, <1>4, <4>1 DEF CallRecord
            <4> QED
                BY <4>1, <4>2
        <3> QED
            BY <1>6, <3>1, <3>2, <3>3, <3>4 DEF BrowserStep
    <2>2. /\ calls'[c] = [calls[c] EXCEPT !.ui = calls'[c].ui] /\ calls'[c].ui = k.ui
          /\ \A d \in Calls : /\ calls'[d].op = calls[d].op /\ calls'[d].change = calls[d].change
                              /\ calls'[d].at = calls[d].at /\ calls'[d].told = calls[d].told
                              /\ calls'[d].server = calls[d].server
        BY <1>1, <2>1 DEF CallRecord
    <2>3. \A d \in Calls : Unlinked(d) => Unlinked(d)'
        BY <1>1, <1>4, <2>2, UnlinkedStays
    <2>4. CallsProgress'
        BY <1>1, <1>2, <1>4, <2>1, <2>2 DEF LinkInv, CallsProgress
    <2>5. LinkedIsAssociated'
        BY <1>2, <2>2, <2>3 DEF LinkInv, LinkedIsAssociated, Shows
    <2>6. \A d \in Calls : Refreshed(d)' => Refreshed(d) \/ (d = c /\ k.ui = "refreshing")
        BY <1>4, <2>1, <2>2 DEF Refreshed, LinkInv, CallsProgress
    <2>7. ASSUME NEW d \in Calls, NEW v \in Views, Refreshed(d)',
                 refreshes'[d][v].stage \in {"answered", "done"}
          PROVE  /\ Refreshed(d) /\ refreshes'[d][v] = refreshes[d][v]
                 /\ refreshes'[d][v].stage = "done" /\ Current(d, v)' => Current(d, v)
        <3>1. CASE k.ui = "refreshing"
            <4>1. HasBegun(c, Views) /\ epoch' = epoch
                BY <1>2, <2>1, <3>1
            <4>2. d # c /\ refreshes'[d][v] = refreshes[d][v]
                BY <1>1, <2>7, <4>1 DEF HasBegun
            <4>3. refreshes'[d][v].stage = "done" /\ Current(d, v)' => Current(d, v)
                BY <1>1, <4>1, CurrentBefore
            <4> QED
                BY <2>6, <2>7, <4>2, <4>3
        <3>2. CASE k.ui # "refreshing"
            <4>1. UNCHANGED <<versions, refreshes>>
                BY <2>1, <3>2
            <4>2. Current(d, v)' <=> Current(d, v)
                BY <1>2, <4>1 DEF Current, Began, IsCurrent
            <4> QED
                BY <2>6, <2>7, <3>2, <4>1, <4>2
        <3> QED
            BY <3>1, <3>2
    <2>8. LinkedIsRead'
        <3> SUFFICES ASSUME NEW d \in Calls, NEW v \in Views, Refreshed(d)',
                            refreshes'[d][v].stage = "answered"
                     PROVE  Shows(d, refreshes[d][v].seen.rows)'
            BY DEF LinkedIsRead
        <3>1. Refreshed(d) /\ refreshes'[d][v] = refreshes[d][v]
            BY <2>7
        <3>2. Shows(d, refreshes[d][v].seen.rows)
            BY <3>1 DEF LinkInv, LinkedIsRead
        <3> QED
            BY <2>2, <2>3, <3>1, <3>2 DEF Shows
    <2>9. RefreshedIsShown'
        <3> SUFFICES ASSUME NEW d \in Calls, NEW v \in Views, Refreshed(d)',
                            refreshes'[d][v].stage = "done", Current(d, v)'
                     PROVE  Shows(d, shown[v].rows)'
            BY DEF RefreshedIsShown
        <3>1. Refreshed(d) /\ refreshes'[d][v] = refreshes[d][v] /\ Current(d, v)
            BY <2>7
        <3>2. Shows(d, shown[v].rows)
            BY <3>1 DEF LinkInv, RefreshedIsShown
        <3> QED
            BY <1>2, <2>2, <2>3, <3>2 DEF Shows
    <2> QED
        BY <2>4, <2>5, <2>8, <2>9 DEF LinkInv
<1> QED
    BY <1>5, <1>6

\* A step of the refresh of view v by r leaves it as f: an answer that holds the associations
\* of now, a failure, or the commit of an earlier answer.
LeavesRefresh(f, r, v) ==
    /\ refreshes' = [refreshes EXCEPT ![r] = [@ EXCEPT ![v] = f]]
    /\ f.stage \in {"answered", "done", "failed"}
    /\ f.stage = "answered" => f.seen.rows = linked /\ shown' = shown
    /\ f.stage = "failed" => shown' = shown
    /\ f.stage = "done" =>
         /\ refreshes[r][v].stage = "answered" /\ f.token = refreshes[r][v].token
         /\ shown' = IF IsCurrent(v, refreshes[r][v].token)
                     THEN [shown EXCEPT ![v] = refreshes[r][v].seen] ELSE shown

LEMMA RefreshLinkInv ==
    ASSUME IInv, LinkInv, NEW r \in Refreshers, NEW v \in Views, RefreshStep(r, v)
    PROVE  LinkInv'
<1>1. /\ refreshes \in [Refreshers -> [Views -> RefreshRecord]]
      /\ shown \in [Views -> Snapshot \cup {Nothing}] /\ OneIsCurrent /\ Calls \subseteq Refreshers
    BY DEF IInv, TypeOK, RefreshRecord, Refreshers
<1>2. UNCHANGED <<calls, linked, revision, epoch, versions>>
    BY DEF RefreshStep, Read, FailRefresh, Commit, server, store
<1>3. PICK f : LeavesRefresh(f, r, v)
    <2>1. CASE Read(r, v)
        <3> DEFINE old == refreshes[r][v]
                   g == [stage |-> "answered", token |-> old.token,
                         seen |-> [rows |-> linked, at |-> revision, epoch |-> old.token.epoch]]
        <3>1. refreshes' = [refreshes EXCEPT ![r] = [@ EXCEPT ![v] = g]] /\ shown' = shown
            BY <2>1 DEF Read, store
        <3>2. g.stage = "answered" /\ g.seen.rows = linked
            OBVIOUS
        <3> HIDE DEF g
        <3>3. LeavesRefresh(g, r, v)
            BY <3>1, <3>2 DEF LeavesRefresh
        <3> QED
            BY <3>3
    <2>2. CASE FailRefresh(r, v)
        <3>1. refreshes' = [refreshes EXCEPT ![r] = [@ EXCEPT ![v] = Failed]] /\ shown' = shown
            BY <2>2 DEF FailRefresh, store
        <3>2. Failed.stage = "failed"
            BY DEF Failed, Idle
        <3>3. LeavesRefresh(Failed, r, v)
            BY <3>1, <3>2 DEF LeavesRefresh
        <3> QED
            BY <3>3
    <2>3. CASE Commit(r, v)
        <3> DEFINE old == refreshes[r][v]
                   g == [stage |-> "done", token |-> old.token, seen |-> Nothing]
        <3>1. /\ refreshes' = [refreshes EXCEPT ![r] = [@ EXCEPT ![v] = g]]
              /\ old.stage = "answered"
              /\ shown' = IF IsCurrent(v, old.token) THEN [shown EXCEPT ![v] = old.seen] ELSE shown
            BY <2>3 DEF Commit
        <3>2. g.stage = "done" /\ g.token = old.token
            OBVIOUS
        <3> HIDE DEF g
        <3>3. LeavesRefresh(g, r, v)
            BY <3>1, <3>2 DEF LeavesRefresh
        <3> QED
            BY <3>3
    <2> QED
        BY <2>1, <2>2, <2>3 DEF RefreshStep
<1>4. \A s \in Refreshers, w \in Views :
         refreshes'[s][w] = IF s = r /\ w = v THEN f ELSE refreshes[s][w]
    BY <1>1, <1>3 DEF LeavesRefresh
<1>5. ASSUME NEW c \in Calls, NEW w \in Views, Refreshed(c), refreshes'[c][w].stage = "answered"
      PROVE  Shows(c, refreshes'[c][w].seen.rows)
    <2>1. CASE c = r /\ w = v
        <3>1. refreshes'[c][w].seen.rows = linked
            BY <1>3, <1>4, <1>5, <2>1 DEF LeavesRefresh
        <3>2. Shows(c, linked)
            BY <1>5 DEF LinkInv, LinkedIsAssociated, Refreshed
        <3> QED
            BY <3>1, <3>2
    <2>2. CASE ~(c = r /\ w = v)
        BY <1>1, <1>4, <1>5, <2>2 DEF LinkInv, LinkedIsRead
    <2> QED
        BY <2>1, <2>2
<1>6. ASSUME NEW c \in Calls, NEW w \in Views, Refreshed(c), refreshes'[c][w].stage = "done",
             Current(c, w)'
      PROVE  Shows(c, shown'[w].rows)
    <2>1. CASE c = r /\ w = v
        <3>1. f.stage = "done" /\ refreshes[r][v].stage = "answered"
            BY <1>3, <1>4, <1>6, <2>1 DEF LeavesRefresh
        <3>2. IsCurrent(v, refreshes[r][v].token)
            BY <1>2, <1>3, <1>4, <1>6, <2>1, <3>1 DEF Current, IsCurrent, LeavesRefresh
        <3>3. shown'[v] = refreshes[r][v].seen
            BY <1>1, <1>3, <3>1, <3>2 DEF LeavesRefresh
        <3> QED
            BY <1>6, <2>1, <3>1, <3>3 DEF LinkInv, LinkedIsRead
    <2>2. CASE ~(c = r /\ w = v)
        <3>1. refreshes'[c][w] = refreshes[c][w] /\ Current(c, w)
            BY <1>1, <1>2, <1>4, <1>6, <2>2 DEF Current, Began, IsCurrent
        <3>2. Shows(c, shown[w].rows)
            BY <1>6, <3>1 DEF LinkInv, RefreshedIsShown
        <3>3. shown'[w] = shown[w]
            <4>1. CASE w # v
                BY <1>1, <1>3, <4>1 DEF LeavesRefresh
            <4>2. CASE w = v
                <5>1. ~Current(r, v)
                    BY <1>1, <2>2, <3>1, <4>2 DEF OneIsCurrent
                <5>2. f.stage = "done" => ~IsCurrent(v, refreshes[r][v].token)
                    BY <1>3, <5>1 DEF Current, Began, LeavesRefresh
                <5> QED
                    BY <1>3, <5>2 DEF LeavesRefresh
            <4> QED
                BY <4>1, <4>2
        <3> QED
            BY <3>2, <3>3
    <2> QED
        BY <2>1, <2>2
<1> QED
    BY <1>2, <1>5, <1>6, QuietCalls

LEMMA HostLinkInv ==
    ASSUME IInv, LinkInv, NEW v \in HostViews, NEW aborted \in BOOLEAN, Refresh(v, aborted)
    PROVE  LinkInv'
<1>1. /\ TypeOK /\ TokensAreIssued /\ Host \in Refreshers /\ {v} \in SUBSET Views
      /\ Calls \subseteq Refreshers /\ Host \notin Calls
    BY HostIsNoCall DEF IInv, Refreshers
<1>2. UNCHANGED <<calls, linked, revision, epoch, shown>>
    BY DEF Refresh, server
<1>3. HasBegun(Host, {v})
    BY <1>1, Begun DEF Refresh
<1>4. \A c \in Calls, w \in Views : refreshes'[c][w] = refreshes[c][w]
    BY <1>1, <1>3 DEF HasBegun
<1>5. \A c \in Calls, w \in Views :
         refreshes'[c][w].stage = "done" /\ Current(c, w)' => Current(c, w)
    BY <1>1, <1>2, <1>3, CurrentBefore
<1> QED
    BY <1>2, <1>4, <1>5, QuietCalls DEF LinkInv, LinkedIsRead, RefreshedIsShown

LEMMA DestroyLinkInv ==
    ASSUME IInv, LinkInv, Destroy
    PROVE  LinkInv'
<1>1. UNCHANGED <<calls, linked, revision, refreshes>> /\ epoch' = epoch + 1 /\ epoch \in Nat
    BY DEF Destroy, server, IInv, TypeOK
<1>2. Calls \subseteq Refreshers /\ TokensAreIssued
    BY DEF Refreshers, IInv
<1>3. ASSUME NEW c \in Calls, NEW v \in Views PROVE ~Current(c, v)'
    BY <1>1, <1>2 DEF TokensAreIssued, Token, Current, Began, IsCurrent
<1> QED
    BY <1>1, <1>3, QuietCalls DEF LinkInv, LinkedIsRead

LEMMA StepLinkInv == IInv /\ LinkInv /\ [Next]_vars => LinkInv'
<1> SUFFICES ASSUME IInv, LinkInv, [Next]_vars PROVE LinkInv'
    OBVIOUS
<1>1. CASE UNCHANGED vars
    <2>1. UNCHANGED <<calls, linked, revision, epoch, versions, shown, refreshes>>
        BY <1>1 DEF vars, server, store
    <2>2. \A c \in Calls, v \in Views : Current(c, v)' <=> Current(c, v)
        BY <2>1 DEF Current, Began, IsCurrent
    <2> QED
        BY <2>1, <2>2, QuietCalls DEF LinkInv, LinkedIsRead, RefreshedIsShown
<1> QED
    BY <1>1, ServerLinkInv, BrowserLinkInv, RefreshLinkInv, HostLinkInv, DestroyLinkInv DEF Next

\* A change request that was told to be linked is shown after the refresh of
\* the call that linked it, unless an unlink came after (refreshAfterMutation).
THEOREM LinkedShows == Spec => []LinkedIsShown
<1>1. LinkInv => LinkedIsShown
    BY DEF LinkInv, RefreshedIsShown, LinkedIsShown, Refreshed, Shows, Unlinked, Current, Began
<1> QED
    BY <1>1, InitLinkInv, StepLinkInv, Inductive, PTL DEF Spec
=============================================================================
