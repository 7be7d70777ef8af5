------------------------------ MODULE RateLimit ------------------------------
(***************************************************************************)
(* What a request passes before it reaches a router: the CSRF nonce        *)
(* (middleware/csrf.py, services/security/csrf.py) and then the sliding    *)
(* windows of every tier its path belongs to (middleware/rate_limit.py),   *)
(* in Redis, or in the process while Redis is not there or fails.          *)
(***************************************************************************)
EXTENDS Integers, Sequences, FiniteSets, SequencesExt

CONSTANTS
    Req,            \* requests
    Inputs,         \* what a request may be: [kind, ip, user, nonce]
    LimitOf(_), WindowOf(_),    \* of a tier
    Sensitive,      \* kinds of request that fail closed
    MaxKeys, EvictBatch,        \* of the windows in the process
    MaxClock,       \* bound: time
    MaxOutages      \* bound: Redis commands that fail

VARIABLES
    now,
    ready,          \* the lifespan has connected Redis
    nonces,         \* the CSRF nonces that were claimed
    redisWin,       \* key -> the times in its Redis window
    trimmed,        \* history: the latest clock that its window was trimmed by
    localWin,       \* the windows of the process, oldest key first
    call,           \* the requests
    passed,         \* every check that let a request pass: [win, key, at, by, late]
    evicted,        \* keys whose window was evicted
    admitted,       \* how often each nonce was accepted
    failures

vars == <<now, ready, nonces, redisWin, trimmed, localWin, call, passed, evicted, admitted, failures>>

(***************************************************************************)
(* The tiers, by the kind of request that they are for.                    *)
(***************************************************************************)
IpTiers == {"public_view", "storyboard_public_view", "storyboard_download_ip"}
WorkTiers == {"generation", "github_export", "github_repo_list", "github_sync",
    "github_increment_push", "clarify", "pdf_export", "agent_instructions"}
OtherTiers == {"share_toggle", "billing_checkout", "billing_admin_correction", "storyboard_generate",
    "storyboard_section_regenerate", "storyboard_share_toggle", "storyboard_download_user"}

When(cond, s) == IF cond THEN s ELSE <<>>
\* The windows a request is checked against, in order.  A webhook has its own
\* backstop and no other; a tier whose limit is 0 is off.
AddressChecks(q) ==
    <<<<"ip", q.ip>>>> \o When(q.kind \in IpTiers, <<<<q.kind, q.ip>>>>)
LoginChecks(q) == When(q.kind = "login", <<<<"login", q.ip>>, <<"login_hourly", q.ip>>>>)
WorkChecks(q) ==
    When(q.user # "", <<<<"user", q.user>>>>)
    \o When(q.user # "" /\ q.kind \in WorkTiers /\ LimitOf(q.kind) > 0, <<<<q.kind, q.user>>>>)
OtherChecks(q) == When(q.user # "" /\ q.kind \in OtherTiers, <<<<q.kind, q.user>>>>)
Checks(q) ==
    CASE q.kind = "health" -> <<>>
      [] q.kind = "webhook" -> <<<<"webhook", q.ip>>>>
      [] OTHER -> AddressChecks(q) \o LoginChecks(q) \o WorkChecks(q) \o OtherChecks(q)

Keys == UNION {ToSet(Checks(q)) : q \in Inputs}
Idle == [at |-> "idle", q |-> "none", todo |-> <<>>, win |-> "redis", clock |-> 0, open |-> FALSE]

Init ==
    /\ now = 0 /\ ready = FALSE /\ nonces = {}
    /\ redisWin = [k \in Keys |-> <<>>] /\ trimmed = [k \in Keys |-> 0] /\ localWin = <<>>
    /\ call = [r \in Req |-> Idle]
    /\ passed = {} /\ evicted = {} /\ failures = 0
    /\ admitted = [n \in {q.nonce : q \in Inputs} |-> 0]

(***************************************************************************)
(* CSRF: a nonce is claimed once.                                          *)
(***************************************************************************)
Needs(q) == q.nonce # ""
Enter(r, q) == call' = [call EXCEPT ![r] = [Idle EXCEPT !.at = IF Needs(q) THEN "csrf" ELSE "arrived", !.q = q]]

Arrive(r, q) ==
    /\ call[r].at = "idle"
    /\ Enter(r, q)
    /\ UNCHANGED <<now, ready, nonces, redisWin, trimmed, localWin, passed, evicted, admitted, failures>>

ClaimNonce(r) ==
    LET n == call[r].q.nonce IN
    /\ call[r].at = "csrf" /\ ready
    /\ nonces' = nonces \cup {n}
    /\ admitted' = [admitted EXCEPT ![n] = IF n \in nonces THEN @ ELSE @ + 1]
    /\ call' = [call EXCEPT ![r].at = IF n \in nonces THEN "refused" ELSE "arrived"]
    /\ UNCHANGED <<now, ready, redisWin, trimmed, localWin, passed, evicted, failures>>

\* Without Redis a sensitive request is refused, any other passes.
NonceUnchecked(r) ==
    LET open == call[r].q.kind \notin Sensitive IN
    /\ call[r].at = "csrf"
    /\ ~ready \/ failures < MaxOutages
    /\ failures' = IF ready THEN failures + 1 ELSE failures
    /\ call' = [call EXCEPT ![r].at = IF open THEN "arrived" ELSE "refused", ![r].open = open]
    /\ UNCHANGED <<now, ready, nonces, redisWin, trimmed, localWin, passed, evicted, admitted>>

(***************************************************************************)
(* The windows.                                                            *)
(***************************************************************************)
Fresh(times, tier, clock) == SelectSeq(times, LAMBDA t : t > clock - WindowOf(tier))
\* The last check lets the request through.
To(r, todo) == [call[r] EXCEPT !.at = IF todo = <<>> THEN "served" ELSE "checking", !.todo = todo, !.clock = 0]
Pass(r, k, clock, late) ==
    passed' = passed \cup {[win |-> call[r].win, key |-> k, at |-> clock, by |-> r, late |-> late]}

\* A request decides once where its windows are.
Begin(r) ==
    /\ call[r].at = "arrived"
    /\ call' = [call EXCEPT ![r] = [To(r, Checks(call[r].q)) EXCEPT !.win = IF ready THEN "redis" ELSE "local"]]
    /\ UNCHANGED <<now, ready, nonces, redisWin, trimmed, localWin, passed, evicted, admitted, failures>>

\* The process reads its clock before it asks Redis.
ReadClock(r) ==
    /\ call[r].at = "checking" /\ call[r].win = "redis"
    /\ call' = [call EXCEPT ![r].at = "asking", ![r].clock = now]
    /\ UNCHANGED <<now, ready, nonces, redisWin, trimmed, localWin, passed, evicted, admitted, failures>>

\* One Lua script: trim, count, and add unless the window is full, all by the
\* clock that the process has read.
CheckRedis(r) ==
    LET k == Head(call[r].todo)
        at == call[r].clock
        times == Fresh(redisWin[k], k[1], at)
    IN /\ call[r].at = "asking"
       /\ redisWin' = [redisWin EXCEPT ![k] = IF Len(times) >= LimitOf(k[1]) THEN times ELSE Append(times, at)]
       /\ trimmed' = [trimmed EXCEPT ![k] = IF at > @ THEN at ELSE @]
       /\ IF Len(times) >= LimitOf(k[1])
          THEN call' = [call EXCEPT ![r].at = "limited"] /\ UNCHANGED passed
          ELSE call' = [call EXCEPT ![r] = To(r, Tail(@.todo))] /\ Pass(r, k, at, at < trimmed[k])
       /\ UNCHANGED <<now, ready, nonces, localWin, evicted, admitted, failures>>

\* A failing command starts all checks over, in the process.
RedisFails(r) ==
    /\ call[r].at = "asking"
    /\ failures < MaxOutages /\ failures' = failures + 1
    /\ call' = [call EXCEPT ![r].at = "checking", ![r].clock = 0, ![r].win = "local", ![r].todo = Checks(call[r].q)]
    /\ UNCHANGED <<now, ready, nonces, redisWin, trimmed, localWin, passed, evicted, admitted>>

\* A key keeps its place among the windows of the process; beyond MaxKeys the
\* oldest keys are evicted, whatever is in their windows.
LocalTimes(k) == LET at == {i \in DOMAIN localWin : localWin[i].key = k} IN
    IF at = {} THEN <<>> ELSE localWin[CHOOSE i \in at : TRUE].times
Written(k, times) ==
    IF \E i \in DOMAIN localWin : localWin[i].key = k
    THEN [i \in DOMAIN localWin |-> IF localWin[i].key = k THEN [key |-> k, times |-> times] ELSE localWin[i]]
    ELSE Append(localWin, [key |-> k, times |-> times])
CheckLocal(r) ==
    LET k == Head(call[r].todo)
        times == Fresh(LocalTimes(k), k[1], now)
        full == Len(times) >= LimitOf(k[1])
        wins == Written(k, IF full THEN times ELSE Append(times, now))
        over == ~full /\ Len(wins) > MaxKeys
    IN /\ call[r].at = "checking" /\ call[r].win = "local"
       /\ localWin' = IF over THEN SubSeq(wins, EvictBatch + 1, Len(wins)) ELSE wins
       /\ evicted' = IF over THEN evicted \cup {wins[i].key : i \in 1..EvictBatch} ELSE evicted
       /\ IF full THEN call' = [call EXCEPT ![r].at = "limited"] /\ UNCHANGED passed
          ELSE call' = [call EXCEPT ![r] = To(r, Tail(@.todo))] /\ Pass(r, k, now, FALSE)
       /\ UNCHANGED <<now, ready, nonces, redisWin, trimmed, admitted, failures>>

Startup ==
    /\ ~ready /\ ready' = TRUE
    /\ UNCHANGED <<now, nonces, redisWin, trimmed, localWin, call, passed, evicted, admitted, failures>>
Tick ==
    /\ now < MaxClock /\ now' = now + 1
    /\ UNCHANGED <<ready, nonces, redisWin, trimmed, localWin, call, passed, evicted, admitted, failures>>

Next ==
    \/ \E r \in Req : \/ \E q \in Inputs : Arrive(r, q)
                      \/ ClaimNonce(r) \/ NonceUnchecked(r) \/ Begin(r)
                      \/ ReadClock(r) \/ CheckRedis(r) \/ RedisFails(r) \/ CheckLocal(r)
    \/ Startup \/ Tick

(***************************************************************************)
(* Properties.                                                             *)
(***************************************************************************)
\* In no stretch of a tier's window do more requests pass a key than its
\* limit, in Redis and in the process each, whatever requests overlap, unless
\* the key was evicted from the process, and but for a request whose script
\* ran after that of a later clock, which had trimmed what it should have
\* counted (sliding_window_check, _local_sliding_window_check).
WithinLimit ==
    \A p \in passed :
        p.win = "redis" \/ p.key \notin evicted =>
            Cardinality({x \in passed : /\ x.win = p.win /\ x.key = p.key
                                        /\ ~x.late /\ x.at <= p.at /\ x.at > p.at - WindowOf(p.key[1])})
                <= LimitOf(p.key[1])

\* A served request passed every one of its windows in one place, also when
\* Redis failed between two of them (dispatch).
CheckedInFull ==
    \A r \in Req : call[r].at = "served" =>
        \A k \in ToSet(Checks(call[r].q)) : \E p \in passed : p.by = r /\ p.key = k /\ p.win = call[r].win

\* A nonce admits one request; others pass with it only unchecked, and none
\* of those is sensitive (verify_csrf_token).
NonceOnce ==
    /\ \A n \in DOMAIN admitted : admitted[n] <= 1
    /\ \A r \in Req : call[r].at # "refused" /\ call[r].open => call[r].q.kind \notin Sensitive

=============================================================================
