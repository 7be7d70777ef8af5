---------------------------- MODULE ModelRouting ----------------------------
(***************************************************************************)
(* Which model a call runs on: the catalog (model_catalog.py), the tier    *)
(* policies of the pipeline (stage_manager.py, tier_policy.py), the router *)
(* over the configured providers whose circuit is closed (routing.py), and *)
(* the routes that a generation falls back to while its calls fail.        *)
(*                                                                         *)
(* An operation is one of "core" (the four stages and regenerate.full,     *)
(* which the catalog and the policies never tell apart), "deck",           *)
(* "section", "focused", "summary" and "score".                            *)
(***************************************************************************)
EXTENDS Integers, Sequences, FiniteSets

CONSTANTS
    Priority,       \* llm_provider_priority
    Signals,        \* what the classifier sees of a request
    Threshold,      \* failures in a row that open a provider's circuit
    MaxFailures     \* calls of one generation that fail

VARIABLES
    asks,           \* the request: operation, mode, signals; and the deployment's flags
    configured,     \* the providers with a key
    fails,          \* the recent failures of each provider, up to Threshold
    attempt,        \* the route that runs, and None when the generation gave up
    tried,          \* the routes that failed
    refused,        \* the providers that were skipped while their circuit was open
    barred,         \* the providers that timed out, refused the key or limited the rate
    final           \* the call is over: it was served, or failed for good

vars == <<asks, configured, fails, attempt, tried, refused, barred, final>>

Provider == {Priority[n] : n \in DOMAIN Priority}
None == [provider |-> "none", tier |-> "none"]

-----------------------------------------------------------------------------
(***************************************************************************)
(* The catalog: what each entry is recommended for, and the default of.    *)
(* Entries of a provider that agree in all of this are one.  Preview and   *)
(* deprecated entries are never routed to.                                 *)
(***************************************************************************)
Artifact == {"core", "deck"}
Edit == {"section", "focused"}
Any == Artifact \cup Edit \cup {"summary", "score"}

Entry(p, tier, status, for, default) ==
    [provider |-> p, tier |-> tier, status |-> status, for |-> for, default |-> default]

Catalog == {
    Entry("anthropic",  "strong", "active",     Artifact,                       {}),
    Entry("anthropic",  "mid",    "active",     Artifact \cup Edit,             {"deck", "section"}),
    Entry("anthropic",  "small",  "active",     Any,                            Any),
    Entry("anthropic",  "strong", "deprecated", {"summary"},                    {}),
    Entry("anthropic",  "mid",    "deprecated", {"summary"},                    {}),
    Entry("openai",     "strong", "active",     Artifact,                       {}),
    Entry("openai",     "mid",    "active",     Artifact \cup Edit,             {"deck", "section"}),
    Entry("openai",     "mini",   "active",     Any,                            Any),
    Entry("openai",     "strong", "deprecated", {"summary"},                    {}),
    Entry("openai",     "mini",   "deprecated", {"summary"},                    {}),
    Entry("google",     "mid",    "active",     Artifact \cup Edit,             Artifact \cup Edit),
    Entry("google",     "small",  "active",     {"focused", "summary", "score"}, {"focused", "summary", "score"}),
    Entry("google",     "strong", "preview",    Artifact,                       {}),
    Entry("google",     "mid",    "preview",    {"core", "section"},            {}),
    Entry("google",     "strong", "deprecated", {"summary"},                    {}),
    Entry("google",     "mid",    "deprecated", {"summary"},                    {}),
    Entry("google",     "small",  "deprecated", {"summary"},                    {}),
    Entry("openrouter", "mid",    "active",     Any,                            Any),
    Entry("openrouter", "strong", "active",     Artifact,                       {}),
    Entry("openrouter", "strong", "deprecated", {"core"},                       {}),
    Entry("openrouter", "mid",    "deprecated", {"core"},                       {}),
    Entry("openrouter", "small",  "deprecated", {"core"},                       {})}

REQUIRED_PROVIDERS == {"anthropic", "openai", "google", "openrouter"}

Rank(tier) == CASE tier = "none" -> -1 [] tier \in {"small", "mini"} -> 0 [] tier = "mid" -> 1 [] tier = "strong" -> 2

Ladder(p) ==
    CASE p = "anthropic" -> <<"small", "mid", "strong">>
      [] p = "openai"    -> <<"mini", "mid", "strong">>
      [] OTHER           -> <<"mid", "strong">>

\* _validate_entry: it recommends something, and is the default only of what it
\* recommends and only while it is active.
EntryValid(e) ==
    /\ e.provider \in REQUIRED_PROVIDERS
    /\ e.tier \in {"strong", "mid", "mini", "small", "judge", "embedding"}
    /\ e.for # {} /\ e.for \subseteq Any /\ e.default \subseteq e.for
    /\ e.status \in {"deprecated", "preview"} => e.default = {}

Defaults(p, op) == {e \in Catalog : e.provider = p /\ e.status = "active" /\ op \in e.default}

\* validate_core_generation_ladder: cheapest first, and one model runs on the
\* first tier.
LadderValid(p) ==
    /\ Len(Ladder(p)) >= 2
    /\ \A n \in 1..Len(Ladder(p)) - 1 : Rank(Ladder(p)[n]) < Rank(Ladder(p)[n + 1])
    /\ Cardinality({e \in Defaults(p, "core") : e.tier = Ladder(p)[1]}) = 1

\* validate_model_catalog, and JUDGE_MODELS, which raises for a provider without
\* a default for eval.score: what the start-up of a process checks.
CatalogValid ==
    /\ \A e \in Catalog : EntryValid(e)
    /\ \A p \in REQUIRED_PROVIDERS :
          Cardinality(Defaults(p, "core")) = 1 /\ LadderValid(p) /\ Defaults(p, "score") # {}

\* _model_for_operation: the tier has an active model for the operation.
ModelFor(p, tier, op) ==
    \E e \in Catalog : e.provider = p /\ e.tier = tier /\ e.status = "active" /\ op \in e.for

-----------------------------------------------------------------------------
(***************************************************************************)
(* The policies: a first tier, and the one to take without a model for it. *)
(***************************************************************************)
MidFirst == <<"mid", "strong">>

\* generation_tier_policy, over core_generation_tier_policy.
CheapPolicy(p) == IF asks.cheap THEN <<Ladder(p)[1], Ladder(p)[2]>> ELSE MidFirst

\* _generation_tier_policy_for.
SmallEdits(p, mode) == IF mode = "demo" THEN MidFirst ELSE CheapPolicy(p)

\* The tables of the full artifacts: the same rows for both modes and every provider.
ArtifactPolicy(mode) == <<"strong", "mid">>

(***************************************************************************)
(* The complexity classifier: a score of the request, and the tier that    *)
(* the score asks for at least.                                            *)
(***************************************************************************)
\* classify_complexity.
Score(s) ==
      (IF s.regulated THEN 3 ELSE 0)
    + (CASE s.size = "very_long" -> 2 [] s.size = "long" -> 1 [] OTHER -> 0)
    + (IF s.size # "short" /\ s.ambiguous THEN 1 ELSE 0)
    + (IF s.upstream >= 3 THEN 2 ELSE IF s.upstream = 2 THEN 1 ELSE 0)
    + (IF s.ids >= 30 THEN 2 ELSE IF s.ids >= 15 THEN 1 ELSE 0)
    + (IF s.blocked THEN 3 ELSE 0)
    + (IF s.stage \in {"harness", "tasks"} THEN 1 ELSE 0)
    + (IF s.complexTemplate THEN 2 ELSE 0)

\* _score_to_level.
FloorOf(s) == IF Score(s) >= 6 THEN "strong" ELSE IF Score(s) >= 3 THEN "mid" ELSE "none"

\* raise_tier_to_floor.
Raised(tier, floor) == IF floor = "none" \/ Rank(floor) <= Rank(tier) THEN tier ELSE floor

\* _apply_complexity_floor.
WithFloor(policy) ==
    LET raised == Raised(policy[1], FloorOf(asks.signals))
    IN IF ~asks.complexity \/ ~asks.cheap \/ raised = policy[1] THEN policy ELSE <<raised, "mid">>

\* _route_for_refine: a regenerated stage as a fresh one, an edit on the cheap tiers.
RefinePolicy(p, mode) ==
    IF asks.op = "core" THEN WithFloor(ArtifactPolicy(mode)) ELSE SmallEdits(p, mode)

\* _resolve_storyboard_primary_route.
DeckPolicy(p) == IF asks.forceMid THEN MidFirst ELSE CheapPolicy(p)

\* _route_for_stage_generation, _route_for_refine and the deck's own policy.
Policy(p, mode) ==
    CASE asks.op = "core" -> WithFloor(ArtifactPolicy(mode))
      [] asks.op = "deck" -> DeckPolicy(p)
      [] OTHER            -> RefinePolicy(p, mode)

-----------------------------------------------------------------------------
(***************************************************************************)
(* The router.                                                             *)
(***************************************************************************)
\* _route_for_provider.
RouteOn(p, policy, op) ==
    IF ModelFor(p, policy[1], op) THEN [provider |-> p, tier |-> policy[1]]
    ELSE IF ModelFor(p, policy[2], op) THEN [provider |-> p, tier |-> policy[2]]
    ELSE None

\* _circuit_open.
Down(f) == {p \in Provider : f[p] >= Threshold}

\* is_provider_configured and can_route.
Routable(p, down) == p \in configured /\ p \notin down

First(fit) == IF fit = {} THEN "none" ELSE Priority[CHOOSE n \in fit : \A m \in fit : n <= m]

\* resolve_platform_route_by_provider: the first provider in the priority that
\* has a route.
Resolve(policy, op, excluded, down) ==
    LET p == First({n \in DOMAIN Priority :
                 /\ Priority[n] \notin excluded /\ Routable(Priority[n], down)
                 /\ RouteOn(Priority[n], policy[Priority[n]], op) # None})
    IN IF p = "none" THEN None ELSE RouteOn(p, policy[p], op)

\* resolve_platform_judge_route: the first provider that can judge, that is the
\* first with a key and a closed circuit; JUDGE_MODELS has an entry for each.
JudgeOf(p) == Defaults(p, "score") # {}
JudgeRoute == First({n \in DOMAIN Priority : Routable(Priority[n], Down(fails)) /\ JudgeOf(Priority[n])})

Artifacts == [p \in Provider |-> ArtifactPolicy(asks.mode)]

\* Only the provider that failed just now is left out.
M_Fallback(failed, same, down) ==
    Resolve(Artifacts, asks.op, {failed.provider}, down)

\* _runtime_fallback_route: the other tier of this provider while its circuit
\* is closed, then the next provider that has not been tried.
Fallback(failed, same, down) ==
    LET p == failed.provider  other == Artifacts[p][2]
        seen == tried \cup {failed}
        here == IF same /\ failed.tier # other /\ Routable(p, down) /\ ModelFor(p, other, asks.op)
                THEN [provider |-> p, tier |-> other] ELSE None
    IN IF here # None /\ here \notin seen THEN here
       ELSE Resolve(Artifacts, asks.op, {r.provider : r \in seen}, down)

-----------------------------------------------------------------------------
\* Flags and signals vary for the operations that read them.
Asked ==
    {r \in [op : Any \ {"summary", "score"}, mode : {"standard", "demo"}, signals : Signals,
            cheap : BOOLEAN, complexity : BOOLEAN, forceMid : BOOLEAN] :
        /\ r.forceMid => r.op = "deck"
        /\ r.complexity => r.op = "core"
        /\ r.complexity \/ r.signals = CHOOSE s \in Signals : TRUE}

Init ==
    /\ asks \in Asked
    /\ configured \in SUBSET Provider
    /\ fails \in [Provider -> {0, Threshold}] /\ Down(fails) \subseteq configured
    /\ attempt = Resolve([p \in Provider |-> Policy(p, asks.mode)], asks.op, {}, Down(fails))
    /\ tried = {} /\ barred = {} /\ final = FALSE
    /\ refused = Down(fails)

Running == attempt # None /\ ~final

\* record_provider_failure: a rate limit does not count towards the circuit, and
\* more failures than it takes to open it change nothing.
Recorded(p, limited) ==
    IF limited \/ fails[p] = Threshold THEN fails ELSE [fails EXCEPT ![p] = @ + 1]

\* _move_to_fallback, once the error and the time that is left allow it: the
\* route failed, and same says whether another model of its provider can help.
\* Without a route the generation gives up.
Move(same, f) ==
    /\ asks.op = "core" /\ Cardinality(tried) < MaxFailures
    /\ fails' = f
    /\ attempt' = Fallback(attempt, same, Down(f))
    /\ refused' = refused \cup Down(f)
    /\ tried' = tried \cup {attempt}
    /\ barred' = IF same THEN barred ELSE barred \cup {attempt.provider}
    /\ UNCHANGED <<asks, configured, final>>

\* A timeout, or a refused key: _same_provider_fallback_allowed is false.
CallTimesOut == Running /\ Move(FALSE, Recorded(attempt.provider, FALSE))

\* The retries in place of a rate limit are spent.
CallLimited == Running /\ Move(FALSE, Recorded(attempt.provider, TRUE))

\* Any other failure that another route may avoid.
CallFails == Running /\ Move(TRUE, Recorded(attempt.provider, FALSE))

\* The circuit opened since the route was chosen: get_llm answers 503, which is
\* no call and records nothing.
CallRejected == Running /\ attempt.provider \in Down(fails) /\ Move(TRUE, fails)

\* The error allows no failover, or too little time is left for another route;
\* a rate limit that cannot be waited for; edits and decks have no failover here.
CallEnds ==
    /\ Running
    /\ attempt' = None /\ final' = TRUE /\ tried' = tried \cup {attempt}
    /\ \E limited \in BOOLEAN : fails' = Recorded(attempt.provider, limited)
    /\ UNCHANGED <<asks, configured, refused, barred>>

\* The provider answers: record_provider_success, also when others opened its
\* circuit during the call.  An incomplete artifact is an answer too, and is not
\* tried elsewhere.
CallServed ==
    /\ Running
    /\ final' = TRUE /\ fails' = [fails EXCEPT ![attempt.provider] = 0]
    /\ UNCHANGED <<asks, configured, attempt, tried, refused, barred>>

\* Calls of other generations in this process, which matter while this one runs.
OtherFails(p) ==
    /\ asks.op = "core" /\ Running /\ p \in configured /\ fails[p] < Threshold
    /\ fails' = Recorded(p, FALSE)
    /\ UNCHANGED <<asks, configured, attempt, tried, refused, barred, final>>

\* Another generation's call succeeds, or an operator's probe does, which the
\* circuit does not stop; or the window of the failures passes.
Recovers(p) ==
    /\ asks.op = "core" /\ Running /\ fails[p] > 0 /\ fails' = [fails EXCEPT ![p] = 0]
    /\ UNCHANGED <<asks, configured, attempt, tried, refused, barred, final>>

Next ==
    \/ CallTimesOut \/ CallLimited \/ CallFails \/ CallRejected \/ CallEnds \/ CallServed
    \/ \E p \in Provider : OtherFails(p) \/ Recovers(p)

-----------------------------------------------------------------------------
\* The request goes to the first provider that can take calls, whatever the
\* mode, the flags and the floor: no combination of tables leaves a provider
\* without a model for an operation, so that the router passes it over in silence.
StaysWithFirst ==
    tried = {} /\ attempt # None =>
       \A n \in DOMAIN Priority :
          Priority[n] \in configured \ refused =>
             \E m \in 1..n : Priority[m] = attempt.provider

\* A generation does not run a route again that has failed it, nor a provider
\* that timed out, refused its key or limited its rate, and gives up only when
\* every configured provider failed it or was out of service.
EveryProviderTried ==
    /\ attempt \notin tried /\ attempt.provider \notin barred
    /\ (attempt = None /\ asks.op = "core" /\ ~final) =>
          configured \subseteq refused \cup {r.provider : r \in tried}

\* A paid artifact runs on the mid tier or above on every provider it falls
\* back to, and on the strong tier first where one exists.
PaidForTier ==
    (asks.op = "core" /\ attempt # None) =>
       /\ Rank(attempt.tier) >= 1
       /\ ModelFor(attempt.provider, "strong", "core") =>
             attempt.tier = "strong" \/ \E r \in tried : r.provider = attempt.provider

\* Demo Day is never served by a weaker tier than a standard workspace, on any
\* provider, with any flags and floor (_DEMO_DAY_ARTIFACT_TIER_POLICY).
DemoNotWeaker ==
    \A p \in Provider :
       Rank(RouteOn(p, Policy(p, "demo"), asks.op).tier) >= Rank(RouteOn(p, Policy(p, "standard"), asks.op).tier)

\* Every provider with a key can judge.
JudgeServed == (JudgeRoute = "none") => configured \subseteq Down(fails)

\* A retry after the quality gate blocked the stage starts no lower than the
\* attempt that was blocked, from any tier (raise_tier_to_floor: "Never lowers
\* a tier").
BlockedNotLower ==
    LET again == [asks.signals EXCEPT !.blocked = TRUE]
    IN \A t \in {"small", "mini", "mid", "strong"} :
          Rank(Raised(t, FloorOf(again))) >= Rank(Raised(t, FloorOf(asks.signals)))
=============================================================================
