------------------------------ MODULE Sessions ------------------------------
(***************************************************************************)
(* Signing in and staying signed in: the OAuth callback and the rotation   *)
(* of refresh tokens in Redis (auth_service.py).  Every Redis command is a *)
(* step of its own.                                                        *)
(***************************************************************************)
EXTENDS Integers, FiniteSets

CONSTANTS
    Tab,            \* refreshes in one browser, which share its cookie
    Callback,       \* OAuth callbacks of one person
    StateOf,        \* callback -> the OAuth state it presents
    MaxToken,       \* bound: refresh tokens issued
    MaxCrashes      \* bound: processes that die in a rotation

VARIABLES
    states,         \* OAuth states not yet redeemed
    users, bonus,   \* rows of the person, sign-up bonuses granted
    live,           \* session:<jti> keys
    index,          \* user_sessions:<user>
    consumed,       \* session_consumed:<jti>: the successor, 0 when absent
    cookie,         \* the refresh token of the browser, 0 when absent
    req,            \* the requests
    issued,         \* tokens issued so far
    past,           \* tokens whose grace is over or whose rotation died
    ended,          \* tokens that a logout or a revocation deleted
    missed,         \* sessions tracked between the two reads of a revocation
    deaths

vars == <<states, users, bonus, live, index, consumed, cookie, req, issued, past, ended,
          missed, deaths>>
sessionVars == <<live, index, consumed, cookie, issued, past, ended, missed, deaths>>

Request == Tab \cup Callback
Idle == [at |-> "idle", tok |-> 0, new |-> 0, seen |-> {}, why |-> {}]

Init ==
    /\ states = {StateOf[c] : c \in Callback} /\ users = 0 /\ bonus = 0
    /\ live = {} /\ index = {} /\ consumed = [t \in 1..MaxToken |-> 0] /\ cookie = 0
    /\ req = [r \in Request |-> Idle] /\ issued = 0
    /\ past = {} /\ ended = {} /\ missed = {} /\ deaths = 0

Goes(r, at) == req' = [req EXCEPT ![r].at = at]

(***************************************************************************)
(* The OAuth callback.                                                     *)
(***************************************************************************)
\* The state is redeemed before the cookie is compared with it.
Redeem(c, bound) ==
    /\ req[c].at = "idle"
    /\ states' = states \ {StateOf[c]}
    /\ Goes(c, IF StateOf[c] \in states /\ bound THEN "select" ELSE "refused")
    /\ UNCHANGED <<users, bonus, sessionVars>>

SelectUser(c) ==
    /\ req[c].at = "select"
    /\ Goes(c, IF users > 0 THEN "update" ELSE "insert")
    /\ UNCHANGED <<states, users, bonus, sessionVars>>

\* The bonus is in the transaction of the insert, which google_id admits once.
Upsert(c) ==
    /\ req[c].at \in {"insert", "update"}
    /\ IF req[c].at = "insert" /\ users > 0
       THEN Goes(c, "refused") /\ UNCHANGED <<users, bonus>>
       ELSE /\ Goes(c, "issue")
            /\ users' = 1
            /\ bonus' = IF req[c].at = "insert" THEN bonus + 1 ELSE bonus
    /\ UNCHANGED <<states, sessionVars>>

(***************************************************************************)
(* A new session, for a callback or for a rotation.                        *)
(***************************************************************************)
StoreSession(r) ==
    /\ req[r].at = "issue" /\ issued < MaxToken
    /\ issued' = issued + 1 /\ live' = live \cup {issued + 1}
    /\ req' = [req EXCEPT ![r].at = "track", ![r].new = issued + 1]
    /\ UNCHANGED <<states, users, bonus, index, consumed, cookie, past, ended, missed, deaths>>

TrackSession(r) ==
    /\ req[r].at = "track"
    /\ index' = index \cup {req[r].new}
    /\ missed' = IF \E q \in Request : req[q].at = "killed" THEN missed \cup {req[r].new} ELSE missed
    /\ Goes(r, IF r \in Callback THEN "answer" ELSE "remember")
    /\ UNCHANGED <<states, users, bonus, live, consumed, cookie, issued, past, ended, deaths>>

(***************************************************************************)
(* POST /auth/refresh.                                                     *)
(***************************************************************************)
Refresh(r) ==
    /\ req[r].at = "idle" /\ cookie # 0
    /\ req' = [req EXCEPT ![r] = [Idle EXCEPT !.at = "look", !.tok = cookie]]
    /\ UNCHANGED <<states, users, bonus, sessionVars>>

Look(r) ==
    /\ req[r].at = "look"
    /\ Goes(r, IF req[r].tok \in live THEN "delete" ELSE "replay")
    /\ UNCHANGED <<states, users, bonus, sessionVars>>

DeleteSession(r) ==
    /\ req[r].at = "delete"
    /\ live' = live \ {req[r].tok} /\ Goes(r, "untrack")
    /\ UNCHANGED <<states, users, bonus, index, consumed, cookie, issued, past, ended, missed, deaths>>

UntrackSession(r) ==
    /\ req[r].at = "untrack"
    /\ index' = index \ {req[r].tok} /\ Goes(r, "issue")
    /\ UNCHANGED <<states, users, bonus, live, consumed, cookie, issued, past, ended, missed, deaths>>

M_StoreConsumed(r) ==
    /\ req[r].at = "remember"
    /\ Goes(r, "answer")
    /\ UNCHANGED <<states, users, bonus, sessionVars>>
StoreConsumed(r) ==
    /\ req[r].at = "remember"
    /\ consumed' = [consumed EXCEPT ![req[r].tok] = req[r].new]
    /\ past' = past \ {req[r].tok}
    /\ Goes(r, "answer")
    /\ UNCHANGED <<states, users, bonus, live, index, cookie, issued, ended, missed, deaths>>

\* A token that was exchanged less than its grace ago gives its successor.
Rotating(t) == \E r \in Tab : req[r].tok = t /\ req[r].at \in {"untrack", "issue", "track", "remember"}
Replay(r) ==
    LET t == req[r].tok
        next == consumed[t]
        why == {c \in {"rotating"} : Rotating(t)} \cup {c \in {"past"} : t \in past}
               \cup {c \in {"ended"} : t \in ended \/ next \in ended}
               \cup {c \in {"moved"} : next # 0 /\ next \notin live}
    IN /\ req[r].at = "replay"
       /\ req' = [req EXCEPT ![r] = IF next # 0 /\ next \in live
                                    THEN [@ EXCEPT !.at = "answer", !.new = next]
                                    ELSE [@ EXCEPT !.at = "list", !.why = why]]
       /\ UNCHANGED <<states, users, bonus, sessionVars>>

\* The answer sets the cookie, if it arrives.
Answer(r) ==
    /\ req[r].at = "answer"
    /\ cookie' \in {cookie, req[r].new}
    /\ req' = [req EXCEPT ![r] = IF r \in Tab THEN Idle ELSE [@ EXCEPT !.at = "signed in"]]
    /\ UNCHANGED <<states, users, bonus, live, index, consumed, issued, past, ended, missed, deaths>>

\* Reuse: every tracked session of the user is deleted.
ListSessions(r) ==
    /\ req[r].at = "list"
    /\ req' = [req EXCEPT ![r].at = "kill", ![r].seen = index]
    /\ UNCHANGED <<states, users, bonus, sessionVars>>

DeleteListed(r) ==
    /\ req[r].at = "kill"
    /\ live' = live \ req[r].seen /\ ended' = ended \cup req[r].seen
    /\ missed' = missed \cup ((index \ req[r].seen) \cap live)
    /\ Goes(r, "killed")
    /\ UNCHANGED <<states, users, bonus, index, consumed, cookie, issued, past, deaths>>

DropIndex(r) ==
    /\ req[r].at = "killed"
    /\ index' = {} /\ Goes(r, "signed out")
    /\ UNCHANGED <<states, users, bonus, live, consumed, cookie, issued, past, ended, missed, deaths>>

\* POST /auth/logout, or the seven days of the cookie: the token is deleted.
Logout ==
    /\ cookie # 0
    /\ live' = live \ {cookie} /\ index' = index \ {cookie} /\ ended' = ended \cup {cookie}
    /\ cookie' = 0
    /\ UNCHANGED <<states, users, bonus, consumed, req, issued, past, missed, deaths>>

GraceEnds(t) ==
    /\ consumed[t] # 0
    /\ consumed' = [consumed EXCEPT ![t] = 0] /\ past' = past \cup {t}
    /\ UNCHANGED <<states, users, bonus, live, index, cookie, req, issued, ended, missed, deaths>>

Crash(r) ==
    /\ r \in Tab /\ req[r].at \in {"untrack", "issue", "track", "remember"} /\ deaths < MaxCrashes
    /\ deaths' = deaths + 1 /\ past' = past \cup {req[r].tok}
    /\ missed' = IF req[r].at = "track" THEN missed \cup {req[r].new} ELSE missed
    /\ req' = [req EXCEPT ![r] = Idle]
    /\ UNCHANGED <<states, users, bonus, live, index, consumed, cookie, issued, ended>>

Next ==
    \/ \E c \in Callback : (\E b \in BOOLEAN : Redeem(c, b)) \/ SelectUser(c) \/ Upsert(c)
    \/ \E r \in Request : StoreSession(r) \/ TrackSession(r) \/ Answer(r) \/ Crash(r)
    \/ \E r \in Tab : \/ Refresh(r) \/ Look(r) \/ DeleteSession(r) \/ UntrackSession(r)
                      \/ StoreConsumed(r) \/ Replay(r)
                      \/ ListSessions(r) \/ DeleteListed(r) \/ DropIndex(r)
    \/ Logout
    \/ \E t \in 1..MaxToken : GraceEnds(t)

(***************************************************************************)
(* Properties.                                                             *)
(***************************************************************************)
\* One person signs up once and gets one bonus, whatever callbacks overlap,
\* and a state is redeemed by one callback (_upsert_google_user,
\* handle_callback).
SignedUpOnce ==
    /\ users <= 1 /\ bonus = users
    /\ \A c, d \in Callback : c # d /\ StateOf[c] = StateOf[d] =>
          {req[c].at, req[d].at} \cap {"idle", "refused"} # {}

\* A person is signed out everywhere only for a cause: the token was presented
\* while its own exchange was under way, after its grace, after a crash in the
\* exchange, or when its successor was exchanged or ended in turn.  A refresh
\* whose answer was lost can be repeated within the grace (refresh_tokens,
\* _maybe_replay_recent_refresh).
SignedOutForCause == \A r \in Tab : req[r].at \in {"list", "kill", "killed", "signed out"} => req[r].why # {}

\* Every live session is tracked, so that a revocation reaches it, but those
\* being stored and those that were tracked during a revocation or were cut
\* off by a crash (_store_refresh_session, _revoke_all_user_sessions).
SessionsTracked ==
    live \subseteq index \cup missed \cup {req[r].new : r \in {q \in Request : req[q].at = "track"}}

=============================================================================
