--------------------------- MODULE ChangeRequests ---------------------------
\* The source-control recipe: the server's actions that create, link, unlink
\* and list change requests (server/recipe.go), and the browser's side that
\* calls them and publishes what it reads (ui/register.ts, ui/review-store.ts).
\* One workspace and one task. The provider, the association store and the
\* transport are external: each may fail, an answer may be lost while the
\* server goes on, and answers come in any order.
EXTENDS Naturals

CONSTANTS
    Calls,          \* mutations asked for in the browser
    Host,           \* the host, which asks for refreshes too
    Views,          \* the two snapshot stores: reviews of a task, associations
    HostViews,      \* the views it asks for, one refresh of each at a time
    Changes,        \* identities of change requests
    Nothing,        \* no value
    MaxVersion,     \* bound on refreshes of a view in one epoch
    MaxUnloads      \* bound on teardowns

ASSUME HostIsNoCall == Host \notin Calls /\ HostViews \subseteq Views

VARIABLES
    linked,         \* server: the change requests associated with the task
    revision,       \* number of writes of the association store
    calls,          \* each mutation, at the server and in the browser
    epoch,          \* ui: teardowns of the snapshot stores
    versions,       \* ui: refreshes begun of each view
    shown,          \* ui: the snapshot each view publishes
    refreshes       \* ui: the refreshes in flight

server == <<linked, revision>>
store == <<epoch, versions, shown>>
vars == <<linked, revision, calls, epoch, versions, shown, refreshes>>

Refreshers == Calls \cup {Host}

Idle == [stage |-> "idle", token |-> Nothing, seen |-> Nothing]
Failed == [Idle EXCEPT !.stage = "failed"]

Init ==
    /\ linked = {}
    /\ revision = 0
    /\ calls = [c \in Calls |-> [op |-> "none", change |-> Nothing, told |-> "nothing",
                                 at |-> 0, server |-> "idle", ui |-> "idle"]]
    /\ epoch = 0
    /\ versions = [v \in Views |-> 0]
    /\ shown = [v \in Views |-> Nothing]
    /\ refreshes = [r \in Refreshers |-> [v \in Views |-> Idle]]

-----------------------------------------------------------------------------
\* The snapshot store (createSnapshotStore).

\* beginRefresh for the views vs by r. The version is taken before the signal
\* is looked at (throwIfAborted): an aborted refresh has taken one too.
BeginRefresh(r, vs, aborted) ==
    /\ \A v \in vs : versions[v] < MaxVersion
    /\ versions' = [v \in Views |-> IF v \in vs THEN versions[v] + 1 ELSE versions[v]]
    /\ refreshes' = [refreshes EXCEPT ![r] = [v \in Views |->
          IF v \in vs
          THEN IF aborted THEN Failed
               ELSE [stage |-> "asked", seen |-> Nothing,
                     token |-> [epoch |-> epoch, version |-> versions'[v]]]
          ELSE @[v]]]

\* Mutants: the epoch is not compared; the version is not compared.
CurrentInAnyEpoch(v, token) == token.version = versions[v]
CurrentInAnyOrder(v, token) == token.epoch = epoch

\* commit publishes nothing that an unload or a newer refresh has overtaken.
IsCurrent(v, token) == token.epoch = epoch /\ token.version = versions[v]

\* clear, of both stores (destroy).
Destroy ==
    /\ epoch < MaxUnloads
    /\ epoch' = epoch + 1
    /\ versions' = [v \in Views |-> 0]
    /\ shown' = [v \in Views |-> Nothing]
    /\ UNCHANGED <<server, calls, refreshes>>

-----------------------------------------------------------------------------
\* Refreshes (refreshReviews, refreshAssociations).

\* The host refreshes one view.
Refresh(v, aborted) ==
    /\ refreshes[Host][v].stage \in {"idle", "done", "failed"}
    /\ BeginRefresh(Host, {v}, aborted)
    /\ UNCHANGED <<server, calls, epoch, shown>>

\* The server lists what is associated at that moment (getReviews,
\* getAssociations).
Read(r, v) ==
    /\ refreshes[r][v].stage = "asked"
    /\ LET token == refreshes[r][v].token
       IN refreshes' = [refreshes EXCEPT ![r][v] =
             [stage |-> "answered", token |-> token,
              seen |-> [rows |-> linked, at |-> revision, epoch |-> token.epoch]]]
    /\ UNCHANGED <<server, calls, store>>

\* The listing fails, its answer is lost, or the signal is aborted before the
\* answer is published.
FailRefresh(r, v) ==
    /\ refreshes[r][v].stage \in {"asked", "answered"}
    /\ refreshes' = [refreshes EXCEPT ![r][v] = Failed]
    /\ UNCHANGED <<server, calls, store>>

Commit(r, v) ==
    /\ refreshes[r][v].stage = "answered"
    /\ refreshes' = [refreshes EXCEPT ![r][v] =
          [stage |-> "done", token |-> refreshes[r][v].token, seen |-> Nothing]]
    /\ shown' = IF IsCurrent(v, refreshes[r][v].token)
                THEN [shown EXCEPT ![v] = refreshes[r][v].seen]
                ELSE shown
    /\ UNCHANGED <<server, calls, epoch, versions>>

-----------------------------------------------------------------------------
\* Mutations at the server.

\* at is the write of the association store the call made, 0 for none.
Answer(c, stage, told, at) ==
    calls' = [calls EXCEPT ![c].server = stage, ![c].told = told, ![c].at = at]

\* ChangeRequests.Create made the change request and told its URL.
CreateAtProvider(c) ==
    /\ calls[c].op = "create"
    /\ calls[c].server = "asked"
    /\ Answer(c, "made", "nothing", 0)
    /\ UNCHANGED <<server, store, refreshes>>

\* The association store is next: after the provider's answer for a create
\* (createChangeRequest), after the reference was resolved for a link
\* (linkChangeRequest), at once for an unlink (unlinkChangeRequest).
AtAssociations(c) ==
    calls[c].server = (IF calls[c].op = "create" THEN "made" ELSE "asked")

\* Associations.Link or Associations.Unlink.
Associate(c) ==
    /\ AtAssociations(c)
    /\ linked' = IF calls[c].op = "unlink" THEN linked \ {calls[c].change}
                 ELSE linked \cup {calls[c].change}
    /\ revision' = revision + 1

\* Mutant: a failure to store does not take back what the answer began with.
LinkedFromTheStart(op, stored) == IF op = "unlink" THEN "unlinked" ELSE "linked"

\* What the answer says of the association.
Told(op, stored) == IF op # "unlink" /\ stored THEN "linked" ELSE "unlinked"

AnswerAssociated(c) ==
    /\ Associate(c)
    /\ Answer(c, "answered", Told(calls[c].op, TRUE), revision')
    /\ UNCHANGED <<store, refreshes>>

\* The association store reports an error, having changed or not, or the
\* identity of a created change request is incomplete. What was created is
\* answered with its URL and as not linked; a link or an unlink is an error.
FailedAnswer(op) == IF op = "create" THEN "answered" ELSE "refused"

AnswerUnassociated(c) ==
    /\ \/ /\ Associate(c)
          /\ Answer(c, FailedAnswer(calls[c].op), Told(calls[c].op, FALSE), revision')
       \/ /\ AtAssociations(c)
          /\ Answer(c, FailedAnswer(calls[c].op), Told(calls[c].op, FALSE), 0)
          /\ UNCHANGED server
    /\ UNCHANGED <<store, refreshes>>

\* Any error before: the context, the repository, the reference, the provider.
Refuse(c) ==
    /\ calls[c].server = "asked"
    /\ Answer(c, "refused", "nothing", 0)
    /\ UNCHANGED <<server, store, refreshes>>

-----------------------------------------------------------------------------
\* Mutations in the browser.

\* A created change request is new; one that is unlinked is one of those shown.
MayAsk(op, x) ==
    CASE op = "create" -> x \notin linked /\ \A c \in Calls : calls[c].change # x
      [] op = "link" -> TRUE
      [] op = "unlink" -> \E v \in Views : shown[v] # Nothing /\ x \in shown[v].rows

Ask(c, op, x) ==
    /\ calls[c].ui = "idle"
    /\ MayAsk(op, x)
    /\ calls' = [calls EXCEPT ![c] = [op |-> op, change |-> x, told |-> "nothing",
                                      at |-> 0, server |-> "asked", ui |-> "waiting"]]
    /\ UNCHANGED <<server, store, refreshes>>

\* The answer of create or link is known: both views are refreshed with the
\* signal of the mutation (refreshAfterMutation).
ReceiveAndRefresh(c, aborted) ==
    /\ calls[c].ui = "waiting"
    /\ calls[c].server = "answered"
    /\ calls[c].op \in {"create", "link"}
    /\ calls' = [calls EXCEPT ![c].ui = "refreshing"]
    /\ BeginRefresh(c, Views, aborted)
    /\ UNCHANGED <<server, epoch, shown>>

\* Promise.all ends with the last refresh or at the first that fails; what
\* then happens to the other is not awaited. Either way the outcome is told.
Return(c) ==
    /\ calls[c].ui = "refreshing"
    /\ \/ \A v \in Views : refreshes[c][v].stage = "done"
       \/ \E v \in Views : refreshes[c][v].stage = "failed"
    /\ calls' = [calls EXCEPT ![c].ui = "returned"]
    /\ UNCHANGED <<server, store, refreshes>>

\* The answer of unlink is known: nothing is refreshed.
ReceiveUnlinked(c) ==
    /\ calls[c].ui = "waiting"
    /\ calls[c].op = "unlink"
    /\ calls[c].server = "answered"
    /\ calls' = [calls EXCEPT ![c].ui = "returned"]
    /\ UNCHANGED <<server, store, refreshes>>

\* The answer is an error, or is lost, or the signal is aborted: the server
\* may still be at work.
Throw(c) ==
    /\ calls[c].ui = "waiting"
    /\ calls' = [calls EXCEPT ![c].ui = "threw"]
    /\ UNCHANGED <<server, store, refreshes>>

-----------------------------------------------------------------------------
ServerStep(c) ==
    \/ CreateAtProvider(c)
    \/ AnswerAssociated(c)
    \/ AnswerUnassociated(c)
    \/ Refuse(c)

BrowserStep(c) ==
    \/ \E op \in {"create", "link", "unlink"}, x \in Changes : Ask(c, op, x)
    \/ \E aborted \in BOOLEAN : ReceiveAndRefresh(c, aborted)
    \/ Return(c)
    \/ ReceiveUnlinked(c)
    \/ Throw(c)

RefreshStep(r, v) ==
    \/ Read(r, v)
    \/ FailRefresh(r, v)
    \/ Commit(r, v)

Next ==
    \/ \E c \in Calls : ServerStep(c) \/ BrowserStep(c)
    \/ \E r \in Refreshers, v \in Views : RefreshStep(r, v)
    \/ \E v \in HostViews, aborted \in BOOLEAN : Refresh(v, aborted)
    \/ Destroy

Spec == Init /\ [][Next]_vars

-----------------------------------------------------------------------------
Token == [epoch: Nat, version: Nat]
Snapshot == [rows: SUBSET Changes, at: Nat, epoch: Nat]

TypeOK ==
    /\ linked \subseteq Changes
    /\ revision \in Nat
    /\ calls \in [Calls ->
          [op: {"none", "create", "link", "unlink"}, change: Changes \cup {Nothing},
           told: {"nothing", "linked", "unlinked"}, at: Nat,
           server: {"idle", "asked", "made", "answered", "refused"},
           ui: {"idle", "waiting", "refreshing", "returned", "threw"}]]
    /\ epoch \in Nat
    /\ versions \in [Views -> Nat]
    /\ shown \in [Views -> Snapshot \cup {Nothing}]
    /\ refreshes \in [Refreshers -> [Views ->
          [stage: {"idle", "asked", "answered", "done", "failed"},
           token: Token \cup {Nothing}, seen: Snapshot \cup {Nothing}]]]

\* What a view shows is never replaced by an older reading of the server, in
\* whatever order the answers arrive (review-store.ts: version tokens reject
\* out-of-order results).
SnapshotsNeverGoBack ==
    [][\A v \in Views :
          shown[v] # Nothing /\ shown'[v] # Nothing => shown'[v].at >= shown[v].at]_vars

\* After a teardown nothing is shown that was asked for before it, although
\* the versions start again (review-store.ts: epoch changes reject every
\* result started before unload).
NothingFromBeforeUnload ==
    \A v \in Views : shown[v] # Nothing => shown[v].epoch = epoch

\* When a create or a link that was told "linked" has refreshed a view, and no
\* newer refresh has begun since, the view shows its change request, unless an
\* unlink of it has reached the store (recipe.go: linked; register.ts:
\* refreshAfterMutation).
LinkedIsShown ==
    \A c \in Calls, v \in Views :
       (/\ calls[c].ui \in {"refreshing", "returned"}
        /\ calls[c].told = "linked"
        /\ refreshes[c][v].stage = "done"
        /\ IsCurrent(v, refreshes[c][v].token))
       => \/ calls[c].change \in shown[v].rows
          \/ \E d \in Calls : /\ calls[d].op = "unlink"
                              /\ calls[d].change = calls[c].change
                              /\ calls[d].at > calls[c].at

=============================================================================
