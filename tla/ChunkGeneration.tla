-------------------------- MODULE ChunkGeneration --------------------------
(***************************************************************************)
(* One run of _generate_durable_artifact (stage_manager.py) in the worker: *)
(* waves of parallel chunks, each with its own retries, failovers and      *)
(* repair, over the adapters of the LLM gateway and the circuit breakers   *)
(* of their providers.  Prompts and texts are data: a call is its outcome, *)
(* a text is whether the provider cut it off.                              *)
(***************************************************************************)
EXTENDS Naturals, Sequences, FiniteSets

CONSTANTS Waves,        \* _chunk_waves_for_stage: a sequence of sets of chunks
          Priority,     \* llm_provider_priority: a sequence of providers
          MaxRetries,   \* provider_rate_limit_max_retries
          Threshold,    \* _UNHEALTHY_FAILURE_THRESHOLD
          Slots,        \* _PROVIDER_CALL_SEMAPHORE
          MaxTrouble,   \* bound: outcomes that are not a complete text
          MaxSlices     \* bound: job slices that run out

VARIABLES pipe,         \* the coroutine: where it is, its wave, first_error
          task,         \* the task of each chunk of the wave
          last,         \* last_completion of each adapter: stopped by the limit
          banked,       \* the checkpoints of the run
          fails,        \* _FAILURES: recent consecutive failures of a provider
          budget,       \* provider time left: 2 enough for a retry, 1 less, 0 none
          stop,         \* the control event is set
          strays,       \* chunk tasks that outlived their coroutine
          trouble, slices,
          cut           \* banked chunks whose own call was cut off

vars == <<pipe, task, last, banked, fails, budget, stop, strays, trouble, slices, cut>>

Chunk == UNION {Waves[n] : n \in DOMAIN Waves}
Provider == {Priority[n] : n \in DOMAIN Priority}
Route == Provider \X {"first", "second"}     \* the tier policy of each provider
Start == <<Priority[1], "first">>

NoTask == [pc |-> "none", route |-> Start, tried |-> {}, rate |-> 0, repaired |-> FALSE,
           outcome |-> "none", calls |-> 0]
Over == [NoTask EXCEPT !.pc = "over"]

Init ==
    /\ pipe = [at |-> "wave", wave |-> 1, error |-> "none"]
    /\ task = [c \in Chunk |-> NoTask]
    /\ last = [a \in Chunk \cup Provider |-> FALSE]
    /\ banked = {} /\ cut = {}
    /\ fails = [p \in Provider |-> 0]
    /\ budget = 2 /\ stop = FALSE
    /\ strays = 0 /\ trouble = 0 /\ slices = 0

Active == {c \in Chunk : task[c].pc \in {"try", "call", "ended", "backoff"}}
Calling == {c \in Chunk : task[c].pc \in {"call", "ended"}}
Set(c, fields) == task' = [task EXCEPT ![c] = fields]

-----------------------------------------------------------------------------
(* Routing and the circuit breaker.                                        *)

\* can_route; the counter is forgotten with the window since the last failure.
Open(p) == fails[p] >= Threshold

Succeeded(p) == [fails EXCEPT ![p] = 0]
Failed(p) == [fails EXCEPT ![p] = IF @ < Threshold THEN @ + 1 ELSE @]

\* The other tier of the provider while it is healthy, then the next provider
\* in priority that no attempt has used.
Fallback(t, same) ==
    LET p == t.route[1]
        used == {r[1] : r \in t.tried \cup {t.route}}
        others == {n \in DOMAIN Priority : Priority[n] \notin used /\ ~Open(Priority[n])}
    IN  IF same /\ t.route[2] = "first" /\ ~Open(p) /\ <<p, "second">> \notin t.tried
          THEN {<<p, "second">>}
        ELSE {<<Priority[n], "first">> : n \in {m \in others : \A k \in others : m <= k}}

\* _move_to_fallback: a fresh route with fresh counters, or the error is raised.
MoveToFallback(t, same) ==
    IF t.outcome = "terminal" \/ budget < 2 \/ Fallback(t, same) = {}
      THEN [t EXCEPT !.pc = "failed"]
    ELSE [t EXCEPT !.pc = "try", !.rate = 0, !.repaired = FALSE,
                   !.route = CHOOSE r \in Fallback(t, same) : TRUE]

-----------------------------------------------------------------------------
(* The attempts of a chunk.                                                *)

\* The stop signal, or a run out of provider time, at the head of the loop.
Stopped(c) ==
    /\ task[c].pc \in {"try", "backoff", "call"}
    /\ stop \/ budget = 0
    /\ stop' = TRUE
    /\ Set(c, [task[c] EXCEPT !.pc = "stopped"])
    /\ UNCHANGED <<pipe, last, banked, fails, budget, strays, trouble, slices, cut>>

\* get_llm: an open circuit is a 503, converted to a provider error.
Rejected(c) ==
    /\ task[c].pc = "try" /\ ~stop /\ budget > 0 /\ Open(task[c].route[1])
    /\ Set(c, MoveToFallback([task[c] EXCEPT !.tried = @ \cup {task[c].route},
                                             !.outcome = "open"], TRUE))
    /\ UNCHANGED <<pipe, last, banked, fails, budget, stop, strays, trouble, slices, cut>>

Call(c) ==
    /\ task[c].pc = "try" /\ ~stop /\ budget > 0 /\ ~Open(task[c].route[1])
    /\ Cardinality(Calling) + strays < Slots
    /\ Set(c, [task[c] EXCEPT !.pc = "call", !.tried = @ \cup {task[c].route}, !.calls = @ + 1,
                              !.outcome = "none"])
    /\ UNCHANGED <<pipe, last, banked, fails, budget, stop, strays, trouble, slices, cut>>

\* get_llm gives every call a fork of the cached adapter.
M_Adapter(c) == task[c].route[1]
Adapter(c) == c

\* The provider's last event; the InstrumentedAdapter records cost and health.
\* A throttled call says nothing about the health of the provider.
StreamEnds(c) ==
    /\ task[c].pc = "call"
    /\ \E o \in {"complete", "limit", "unsafe", "throttled", "model", "error", "terminal"} :
         /\ o # "complete" => trouble < MaxTrouble
         /\ trouble' = IF o = "complete" THEN trouble ELSE trouble + 1
         /\ Set(c, [task[c] EXCEPT !.pc = "ended", !.outcome = o])
         /\ last' = [last EXCEPT ![Adapter(c)] = o = "limit"]
         /\ fails' = CASE o \in {"complete", "limit", "unsafe"} -> Succeeded(task[c].route[1])
                       [] o = "throttled" -> fails
                       [] OTHER -> Failed(task[c].route[1])
    /\ UNCHANGED <<pipe, banked, budget, stop, strays, slices, cut>>

\* What _run_chunk_attempts makes of the outcome.  An enlarged output budget
\* is tried once per route, unless the model is at its ceiling.
Finished(t, limited) ==
    IF limited
      THEN IF ~t.repaired /\ budget = 2
             THEN {[t EXCEPT !.pc = "try", !.repaired = TRUE], [t EXCEPT !.pc = "failed"]}
             ELSE {[t EXCEPT !.pc = "failed"]}
      ELSE {[t EXCEPT !.pc = IF t.outcome = "unsafe" THEN "failed" ELSE "ready"]}

Throttled(t) ==
    IF t.rate >= MaxRetries THEN MoveToFallback(t, FALSE)
    ELSE IF budget < 2 THEN [t EXCEPT !.pc = "failed"]
    ELSE [t EXCEPT !.pc = "backoff", !.rate = @ + 1]

Settle(c) ==
    /\ task[c].pc = "ended"
    /\ \E t \in CASE task[c].outcome \in {"complete", "limit", "unsafe"} ->
                       Finished(task[c], last[Adapter(c)])
                  [] task[c].outcome = "throttled" -> {Throttled(task[c])}
                  [] OTHER -> {MoveToFallback(task[c], task[c].outcome = "model")} :
         Set(c, t)
    /\ UNCHANGED <<pipe, last, banked, fails, budget, stop, strays, trouble, slices, cut>>

BackoffEnds(c) ==
    /\ task[c].pc = "backoff" /\ ~stop
    /\ Set(c, [task[c] EXCEPT !.pc = "try"])
    /\ UNCHANGED <<pipe, last, banked, fails, budget, stop, strays, trouble, slices, cut>>

-----------------------------------------------------------------------------
(* The coroutine that collects them.                                       *)

\* Banked chunks are skipped; a stop is noticed between two waves.
StartWave ==
    /\ pipe.at = "wave"
    /\ LET pending == Waves[pipe.wave] \ banked IN
         /\ pipe' = IF stop \/ budget = 0 THEN [pipe EXCEPT !.at = "stopped"]
                                          ELSE [pipe EXCEPT !.at = "collect"]
         /\ task' = IF stop \/ budget = 0 THEN task
                    ELSE [c \in Chunk |-> IF c \in pending THEN [NoTask EXCEPT !.pc = "try"]
                                                           ELSE task[c]]
    /\ UNCHANGED <<last, banked, fails, budget, stop, strays, trouble, slices, cut>>

\* The checkpoint of a text, committed before the next one is taken.
Collect(c) ==
    /\ pipe.at = "collect" /\ task[c].pc = "ready"
    /\ banked' = banked \cup {c}
    /\ cut' = IF task[c].outcome = "limit" THEN cut \cup {c} ELSE cut
    /\ Set(c, Over)
    /\ UNCHANGED <<pipe, last, fails, budget, stop, strays, trouble, slices>>

\* The run was cancelled meanwhile: the checkpoint raises, the rest is cancelled.
CollectRefused(c) ==
    /\ pipe.at = "collect" /\ task[c].pc = "ready" /\ stop
    /\ pipe' = [pipe EXCEPT !.at = "stopped"]
    /\ task' = [d \in Chunk |-> IF d \in Active \cup {c} THEN Over
                                                         ELSE task[d]]
    /\ UNCHANGED <<last, banked, fails, budget, stop, strays, trouble, slices, cut>>

\* The first error is remembered; the siblings go on.
CollectError(c) ==
    /\ pipe.at = "collect" /\ task[c].pc = "failed"
    /\ pipe' = [pipe EXCEPT !.error = IF @ = "none" THEN "failed" ELSE @]
    /\ Set(c, Over)
    /\ UNCHANGED <<last, banked, fails, budget, stop, strays, trouble, slices, cut>>

\* A stop cancels the siblings that are not done.
CollectStop(c) ==
    /\ pipe.at = "collect" /\ task[c].pc = "stopped"
    /\ pipe' = [pipe EXCEPT !.error = IF @ = "none" THEN "stop" ELSE @]
    /\ task' = [d \in Chunk |-> IF d = c THEN Over
                                ELSE IF d \in Active THEN [task[d] EXCEPT !.pc = "cancelled"]
                                ELSE task[d]]
    /\ UNCHANGED <<last, banked, fails, budget, stop, strays, trouble, slices, cut>>

\* A cancelled sibling after another first error ends the coroutine like a
\* cancelled worker; what is still running is not cancelled.
CollectCancelled(c) ==
    /\ pipe.at = "collect" /\ task[c].pc = "cancelled"
    /\ IF pipe.error = "stop"
         THEN Set(c, Over) /\ UNCHANGED <<pipe, strays>>
         ELSE /\ pipe' = [pipe EXCEPT !.at = "sliced"]
              /\ task' = [d \in Chunk |-> NoTask]
              /\ strays' = strays + Cardinality(Active)
    /\ UNCHANGED <<last, banked, fails, budget, stop, trouble, slices, cut>>

\* A commit of the checkpoint that fails leaves the siblings running.
CheckpointFails(c) ==
    /\ pipe.at = "collect" /\ task[c].pc = "ready" /\ trouble < MaxTrouble
    /\ trouble' = trouble + 1
    /\ pipe' = [pipe EXCEPT !.at = "failed"]
    /\ strays' = strays + Cardinality(Active)
    /\ task' = [d \in Chunk |-> NoTask]
    /\ UNCHANGED <<last, banked, fails, budget, stop, slices, cut>>

EndWave ==
    /\ pipe.at = "collect" /\ \A c \in Waves[pipe.wave] : task[c].pc \in {"none", "over"}
    /\ pipe' = CASE pipe.error = "failed" -> [pipe EXCEPT !.at = "failed"]
                 [] pipe.error = "stop" -> [pipe EXCEPT !.at = "stopped"]
                 [] pipe.wave < Len(Waves) -> [pipe EXCEPT !.at = "wave", !.wave = @ + 1]
                 [] stop -> [pipe EXCEPT !.at = "stopped"]
                 [] OTHER -> [pipe EXCEPT !.at = "done"]
    /\ UNCHANGED <<task, last, banked, fails, budget, stop, strays, trouble, slices, cut>>

-----------------------------------------------------------------------------
(* Around it.                                                              *)

\* asyncio.timeout of the job cancels the coroutine, not its tasks; arq runs
\* the job again and the checkpoints are found.
SliceEnds ==
    /\ pipe.at \in {"wave", "collect"} /\ slices < MaxSlices
    /\ slices' = slices + 1
    /\ pipe' = [pipe EXCEPT !.at = "sliced"]
    /\ strays' = strays + Cardinality(Active)
    /\ task' = [c \in Chunk |-> NoTask]
    /\ UNCHANGED <<last, banked, fails, budget, stop, trouble, cut>>

Rerun ==
    /\ pipe.at = "sliced" /\ ~stop /\ budget > 0
    /\ pipe' = [at |-> "wave", wave |-> 1, error |-> "none"]
    /\ UNCHANGED <<task, last, banked, fails, budget, stop, strays, trouble, slices, cut>>

StrayEnds ==
    /\ strays > 0 /\ strays' = strays - 1
    /\ \E p \in Provider : fails' \in {fails, Succeeded(p), Failed(p)}
    /\ UNCHANGED <<pipe, task, last, banked, budget, stop, trouble, slices, cut>>

\* A minute passes, the user cancels, a failure window passes.
Pass ==
    /\ pipe.at \in {"wave", "collect", "sliced"} /\ budget > 0 /\ budget' = budget - 1
    /\ UNCHANGED <<pipe, task, last, banked, fails, stop, strays, trouble, slices, cut>>

Cancel ==
    /\ pipe.at \in {"wave", "collect", "sliced"} /\ ~stop /\ stop' = TRUE
    /\ UNCHANGED <<pipe, task, last, banked, fails, budget, strays, trouble, slices, cut>>

WindowPasses(p) ==
    /\ pipe.at \in {"wave", "collect", "sliced"} /\ Open(p) /\ fails' = [fails EXCEPT ![p] = 0]
    /\ UNCHANGED <<pipe, task, last, banked, budget, stop, strays, trouble, slices, cut>>

Attempt(c) ==
    Stopped(c) \/ Rejected(c) \/ Call(c) \/ StreamEnds(c) \/ Settle(c) \/ BackoffEnds(c)

Gather(c) ==
    \/ Collect(c) \/ CollectRefused(c) \/ CollectError(c) \/ CollectStop(c)
    \/ CollectCancelled(c) \/ CheckpointFails(c)

Next ==
    \/ \E c \in Chunk : Attempt(c) \/ Gather(c)
    \/ StartWave \/ EndWave \/ SliceEnds \/ Rerun \/ StrayEnds \/ Pass \/ Cancel
    \/ \E p \in Provider : WindowPasses(p)

-----------------------------------------------------------------------------
\* A banked chunk was not cut off, and a run that is over has banked every
\* text it received, all of them if it succeeded.
PartsBanked ==
    /\ cut = {}
    /\ pipe.at = "done" => banked = Chunk
    /\ pipe.at \in {"done", "failed"} => \A c \in Chunk : task[c].pc # "ready"

\* A run that is over makes no calls any more, apart from the strays, and no
\* chunk calls a route it has given up.
CallsEnd ==
    /\ pipe.at \in {"done", "failed", "stopped"} => Active = {}
    /\ \A c \in Chunk : task[c].calls <= Cardinality(task[c].tried) * (MaxRetries + 2)
=============================================================================
