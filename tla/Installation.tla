---------------------------- MODULE Installation ----------------------------
(***************************************************************************)
(* One installation of the GitHub App: users connect it through the setup  *)
(* callback, disconnect it, and export under it, while GitHub's lifecycle  *)
(* deliveries arrive late, again, or in another order                      *)
(* (github_install_service, routers/integrations).  Two users may take     *)
(* part in the installation's account, and connect it one after the other. *)
(*                                                                         *)
(* A row number stands for the row's uuid; 0 is no row.  The database's    *)
(* unique key on GitHub's number and the foreign key of the pushes are the *)
(* guards of Bind and PrepareExport.                                       *)
(***************************************************************************)
EXTENDS Naturals, Sequences, SequencesExt

CONSTANTS
    User,           \* each with a workspace, and a push once it is exported
    Tab,            \* browser tabs that go through the setup
    MaxStarts,      \* one-time states that are issued, or may be used twice
    MaxChanges,     \* what happens to the installation and its members on GitHub
    MaxReplays,     \* deliveries processed out of order, or a second time
    MaxFaults       \* GitHub calls and adoptions that fail

VARIABLES
    app,            \* GitHub: the installation's state and who takes part in it
    deliveries,     \* lifecycle events that wait for the worker
    states,         \* one-time states in Redis: [user, hop]
    tab,            \* the setup request of a tab
    inst,           \* the github_installations row
    ids,            \* rows inserted so far
    pushed,         \* the integration_pushes row of each user's workspace
    prep,           \* the row that a running export request has loaded
    confirmed,      \* history: the users GitHub confirmed, by row
    rebound,        \* history: the row passed from one user to another
    astray,         \* history: the row may lag behind GitHub by design
    used            \* history: [starts, changes, replays, faults]

vars == <<app, deliveries, states, tab, inst, ids, pushed, prep, confirmed, rebound, astray, used>>

NoRow == [id |-> 0, user |-> "none", suspended |-> FALSE]
NoTab == [pc |-> "idle", user |-> "none", hop |-> 0, known |-> 0]

Init ==
    /\ app = [state |-> "present", members |-> User]
    /\ deliveries = <<>> /\ states = {}
    /\ tab = [t \in Tab |-> NoTab]
    /\ inst = NoRow /\ ids = 0
    /\ pushed = [u \in User |-> [at |-> 0, detached |-> FALSE, status |-> "none"]]
    /\ prep = [u \in User |-> 0]
    /\ confirmed = {} /\ rebound = FALSE /\ astray = FALSE
    /\ used = [starts |-> 0, changes |-> 0, replays |-> 0, faults |-> 0]

Use(what) == used' = [used EXCEPT ![what] = @ + 1]
Fault == used.faults < MaxFaults /\ Use("faults")
Quiet == UNCHANGED used

-----------------------------------------------------------------------------
(***************************************************************************)
(* The setup callback.                                                     *)
(***************************************************************************)
\* The install page: a one-time state that names the signed-in user.
BuildInstallUrl(u) ==
    /\ used.starts < MaxStarts /\ Use("starts")
    /\ states' = states \cup {[user |-> u, hop |-> 1]}
    /\ UNCHANGED <<app, deliveries, tab, inst, ids, pushed, prep, confirmed, rebound, astray>>

StateExpires ==
    /\ \E s \in states : states' = states \ {s}
    /\ UNCHANGED <<app, deliveries, tab, inst, ids, pushed, prep, confirmed, rebound, astray, used>>

\* A state of either hop is read and then deleted, in two commands, so that a
\* request that is sent twice may find it twice; a verify state names the user
\* whose code is awaited.
Twice == used.starts < MaxStarts /\ Use("starts")
Found(t, s) == tab[t].pc = "read" /\ tab[t].user = s.user /\ tab[t].hop = s.hop
Read(t, s) ==
    /\ tab[t].pc = "idle" /\ app.state # "gone" /\ s \in states
    /\ IF \E x \in Tab : Found(x, s) THEN Twice ELSE Quiet
    /\ tab' = [tab EXCEPT ![t] = [pc |-> "read", user |-> s.user, hop |-> s.hop, known |-> 0]]
    /\ UNCHANGED <<app, deliveries, states, inst, ids, pushed, prep, confirmed, rebound, astray>>

\* A state that is not deleted lives on until it expires.
Consumed(s, deleted) == IF deleted THEN states \ {s} ELSE states
IsVerifyState(s) == s.hop = 2
VerifyState(s) == [user |-> s.user, hop |-> 2]

\* An arrival whose state was known goes on, also when another one has used it
\* up in between; any other arrival is refused and changes nothing.  GitHub
\* redirects with a code, or without one and then a second hop asks for it, or
\* without an installation when an admin must approve the request.
Arrive(t) ==
    \E code \in BOOLEAN, request \in BOOLEAN, deleted \in BOOLEAN :
       LET s == [user |-> tab[t].user, hop |-> tab[t].hop]
           refused == IF IsVerifyState(s) THEN ~code ELSE request
       IN /\ tab[t].pc = "read"
          /\ IF deleted THEN Quiet ELSE Twice
          /\ states' = Consumed(s, deleted) \cup
                IF ~IsVerifyState(s) /\ ~refused /\ ~code THEN {VerifyState(s)} ELSE {}
          /\ tab' = [tab EXCEPT ![t] =
                IF ~refused /\ code THEN [NoTab EXCEPT !.pc = "verify", !.user = s.user] ELSE NoTab]
          /\ UNCHANGED <<app, deliveries, inst, ids, pushed, prep, confirmed, rebound, astray>>

\* GitHub lists the installations of the code's holder, at this moment.
Listed(u) == app.state # "gone" /\ u \in app.members

\* GitHub does not answer, or not with a token.
ExchangeFails == Fault

\* A code that cannot be exchanged or a list that cannot be read is a refusal.
Verify(t) ==
    /\ tab[t].pc = "verify"
    /\ \/ /\ Listed(tab[t].user) /\ Quiet
          /\ tab' = [tab EXCEPT ![t].pc = "lookup"]
          /\ confirmed' = confirmed \cup {tab[t].user}
       \/ /\ ~Listed(tab[t].user) /\ Quiet
          /\ tab' = [tab EXCEPT ![t] = NoTab] /\ UNCHANGED confirmed
       \/ /\ ExchangeFails
          /\ tab' = [tab EXCEPT ![t] = NoTab] /\ UNCHANGED confirmed
    /\ UNCHANGED <<app, deliveries, states, inst, ids, pushed, prep, rebound, astray>>

\* fetch_installation_account, then the row is read.
Lookup(t) ==
    /\ tab[t].pc = "lookup"
    /\ \/ /\ app.state # "gone" /\ Quiet
          /\ tab' = [tab EXCEPT ![t].pc = "bind", ![t].known = inst.id]
       \/ /\ app.state = "gone" /\ Quiet
          /\ tab' = [tab EXCEPT ![t] = NoTab]
       \/ /\ Fault
          /\ tab' = [tab EXCEPT ![t] = NoTab]
    /\ UNCHANGED <<app, deliveries, states, inst, ids, pushed, prep, confirmed, rebound, astray>>

Adopt(u, row) ==
    [pushed EXCEPT ![u] = IF @.detached THEN [@ EXCEPT !.at = row, !.detached = FALSE] ELSE @]

\* One transaction: the row, and in a savepoint that may fail alone the pushes
\* that this user's earlier row left behind.  A row that was inserted or
\* deleted since the read ends the request with nothing written.
Bind(t) ==
    LET u == tab[t].user  row == IF inst.id = 0 THEN ids + 1 ELSE inst.id IN
    /\ tab[t].pc = "bind"
    /\ tab' = [tab EXCEPT ![t] = NoTab]
    /\ IF tab[t].known # inst.id
       THEN Quiet /\ UNCHANGED <<inst, ids, pushed, rebound, astray>>
       ELSE /\ inst' = [id |-> row, user |-> u, suspended |-> FALSE]
            /\ ids' = IF inst.id = 0 THEN row ELSE ids
            /\ \/ pushed' = Adopt(u, row) /\ Quiet
               \/ pushed' = pushed /\ Fault
            /\ rebound' = (rebound \/ inst.user \notin {"none", u})
            /\ astray' = (astray \/ app.state # "present" \/ deliveries # <<>>)
    /\ UNCHANGED <<app, deliveries, states, prep, confirmed>>

-----------------------------------------------------------------------------
(***************************************************************************)
(* Disconnecting, and the exports of the users.                            *)
(***************************************************************************)
Stale(p) == IF p.status \in {"none", "failed"} THEN p ELSE [p EXCEPT !.status = "stale"]

\* _detach_and_stale_pushes: GitHub's number is kept with every push of the row.
Detached == [u \in User |->
    IF pushed[u].at = inst.id THEN [Stale(pushed[u]) EXCEPT !.at = 0, !.detached = TRUE] ELSE pushed[u]]

Revoke(u) ==
    /\ inst.id # 0 /\ inst.user = u
    /\ pushed' = Detached /\ inst' = NoRow
    /\ UNCHANGED <<app, deliveries, states, tab, ids, prep, confirmed, rebound, astray, used>>

\* load_owned_installation and the check for a suspension.
LoadOwned(u) ==
    /\ prep[u] = 0 /\ pushed[u].status # "pending"
    /\ inst.id # 0 /\ inst.user = u /\ ~inst.suspended
    /\ prep' = [prep EXCEPT ![u] = inst.id]
    /\ UNCHANGED <<app, deliveries, states, tab, inst, ids, pushed, confirmed, rebound, astray, used>>

\* prepare_export_push; the foreign key refuses a row that is gone.
PrepareExport(u) ==
    /\ prep[u] # 0
    /\ prep' = [prep EXCEPT ![u] = 0]
    /\ pushed' = IF prep[u] = inst.id
                 THEN [pushed EXCEPT ![u] = [at |-> inst.id, detached |-> FALSE, status |-> "pending"]]
                 ELSE pushed
    /\ UNCHANGED <<app, deliveries, states, tab, inst, ids, confirmed, rebound, astray, used>>

\* The job: a push without a row fails, else GitHub decides.
RunExport(u) ==
    /\ pushed[u].status \in {"pending", "stale"}
    /\ LET ok == pushed[u].at # 0 /\ app.state = "present" IN
       pushed' = [pushed EXCEPT ![u].status = IF ok THEN "completed" ELSE "failed"]
    /\ pushed' # pushed
    /\ UNCHANGED <<app, deliveries, states, tab, inst, ids, prep, confirmed, rebound, astray, used>>

-----------------------------------------------------------------------------
(***************************************************************************)
(* GitHub, and its deliveries.                                             *)
(***************************************************************************)
Change(action) ==
    /\ used.changes < MaxChanges /\ Use("changes")
    /\ app' = [app EXCEPT !.state = CASE action = "suspend"   -> "suspended"
                                      [] action = "unsuspend" -> "present"
                                      [] action = "deleted"   -> "gone"]
    /\ deliveries' = Append(deliveries, action)
    \* what a setup reads before this change it may write after it
    /\ astray' = (astray \/ \E t \in Tab : tab[t].pc = "bind")
    /\ UNCHANGED <<states, tab, inst, ids, pushed, prep, confirmed, rebound>>

GitHubActs ==
    \/ app.state = "present" /\ Change("suspend")
    \/ app.state = "suspended" /\ Change("unsuspend")
    \/ app.state # "gone" /\ Change("deleted")
    \/ /\ used.changes < MaxChanges /\ Use("changes")
       /\ \E u \in app.members : app' = [app EXCEPT !.members = @ \ {u}]
       /\ UNCHANGED <<deliveries, states, tab, inst, ids, pushed, prep, confirmed, rebound, astray>>

\* apply_installation_event.
Apply(action) ==
    CASE inst.id = 0 -> UNCHANGED <<inst, pushed>>
      [] inst.id # 0 /\ action = "suspend" ->
            /\ inst' = [inst EXCEPT !.suspended = TRUE]
            /\ pushed' = [u \in User |-> IF pushed[u].at = inst.id THEN Stale(pushed[u]) ELSE pushed[u]]
      [] inst.id # 0 /\ action = "unsuspend" ->
            inst' = [inst EXCEPT !.suspended = FALSE] /\ UNCHANGED pushed
      [] inst.id # 0 /\ action = "deleted" -> inst' = NoRow /\ pushed' = Detached

\* Jobs overtake each other, and one whose worker was lost after its commit
\* runs again.
Deliver ==
    \E i \in DOMAIN deliveries, again \in BOOLEAN :
       LET regular == i = 1 /\ ~again IN
       /\ regular \/ used.replays < MaxReplays
       /\ IF regular THEN Quiet ELSE Use("replays")
       /\ Apply(deliveries[i])
       /\ deliveries' = IF again THEN deliveries ELSE RemoveAt(deliveries, i)
       /\ astray' = (astray \/ ~regular)
       /\ UNCHANGED <<app, states, tab, ids, prep, confirmed, rebound>>

\* installation_repositories: the repository of one push is taken away.
RepositoryRemoved(u) ==
    /\ inst.id # 0 /\ pushed[u].at = inst.id
    /\ used.changes < MaxChanges /\ Use("changes")
    /\ pushed' = [pushed EXCEPT ![u] = Stale(@)]
    /\ UNCHANGED <<app, deliveries, states, tab, inst, ids, prep, confirmed, rebound, astray>>

Next ==
    \/ \E u \in User : BuildInstallUrl(u) \/ Revoke(u) \/ LoadOwned(u) \/ PrepareExport(u)
                          \/ RunExport(u) \/ RepositoryRemoved(u)
    \/ \E t \in Tab : (\E s \in states : Read(t, s)) \/ Arrive(t) \/ Verify(t) \/ Lookup(t) \/ Bind(t)
    \/ StateExpires \/ GitHubActs \/ Deliver

-----------------------------------------------------------------------------
\* An installation is shown only to users whom GitHub confirmed.
BoundConfirmed == inst.id # 0 => inst.user \in confirmed

\* No push is stranded: one that was exported points at the row that exists,
\* or keeps GitHub's number until a row comes back.
NoneStranded ==
    \A u \in User : pushed[u].status # "none" =>
       IF pushed[u].detached THEN pushed[u].at = 0 ELSE pushed[u].at = inst.id /\ inst.id # 0

\* Unless the row itself was passed on, a push syncs under its own user's row.
OwnRow ==
    ~rebound => \A u \in User : pushed[u].at # 0 => inst.user = u

\* Once the deliveries are processed, the row says what GitHub says, unless
\* they ran out of order or a setup was under way.
RowFollows ==
    (deliveries = <<>> /\ ~astray) =>
       /\ inst.id # 0 => app.state # "gone"
       /\ inst.id # 0 => (inst.suspended <=> app.state = "suspended")
=============================================================================
