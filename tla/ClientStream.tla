---------------------------- MODULE ClientStream ----------------------------
(***************************************************************************)
(* The workspace page: useStream over an SSE connection, the stage store,  *)
(* the reconnect poll, the editor with its delayed saves, against a server *)
(* that runs at most one generation of a stage at a time.  A text is whole *)
(* or a part of a streamed draft.  React's effects are part of the step    *)
(* that changes what is rendered (Rendered).                               *)
(***************************************************************************)
EXTENDS Naturals, FiniteSets

CONSTANTS Stage,        \* the stages of the workspace
          MaxRetries,   \* MAX_RETRIES
          MaxClicks,    \* bound: generations asked for on this page
          MaxEdits,     \* bound: bursts of typing
          MaxFaults,    \* bound: failing requests, drops, page loads, other tabs
          MaxPolls      \* ADVISORY_POLL_ATTEMPTS

VARIABLES server,   \* the persisted stages and their runs
          runs,     \* generations started by the requests of a click
          store,    \* stages of useStageStore
          buf,      \* streamingContent
          page,     \* the active stage, the credit modal, the activity, the error
          call,     \* the invocation of start()
          poll,     \* useReconnectPoll
          advice,   \* the poll for advisory findings
          doc,      \* the mounted editor
          saves,    \* PATCH requests under way
          clicks, edits, faults,
          quick,    \* a run ended while its own click was still retrying
          mixed,    \* a save was under way when a generation was asked for
          others,   \* another tab asked for a generation
          overdue   \* a run outlived its deadline and the grace

vars == <<server, runs, store, buf, page, call, poll, advice, doc, saves,
          clicks, edits, faults, quick, mixed, others, overdue>>
counters == <<clicks, edits, faults, quick, mixed, others, overdue>>

None == "none"
Seen(s) == [busy |-> server[s].busy, version |-> server[s].version, text |-> server[s].text]
Idle == [pc |-> "idle", stage |-> None, click |-> 0, base |-> 0, tries |-> 0, live |-> TRUE]
NoDoc == [stage |-> None, shown |-> [busy |-> FALSE, version |-> 0, text |-> "whole"],
          locked |-> TRUE, text |-> "whole", timer |-> FALSE]
Quiet == [pc |-> "off", stage |-> None, left |-> 0]

Init ==
    /\ server = [s \in Stage |-> [busy |-> FALSE, version |-> 0, text |-> "whole",
                                  click |-> 0, outcome |-> None]]
    /\ runs = [c \in 1 .. MaxClicks |-> 0]
    /\ store = [s \in Stage |-> Seen(s)]
    /\ buf = [s \in Stage |-> None]
    /\ LET s == CHOOSE t \in Stage : TRUE IN        \* pickActiveStageOnLoad
         /\ page = [view |-> s, modal |-> None, activity |-> None, error |-> None]
         /\ doc = [stage |-> s, shown |-> Seen(s), locked |-> FALSE, text |-> "whole", timer |-> FALSE]
    /\ call = Idle /\ advice = Quiet /\ saves = {}
    /\ poll = [stage |-> None, pc |-> "off", ran |-> FALSE]
    /\ clicks = 0 /\ edits = 0 /\ faults = 0
    /\ quick = FALSE /\ mixed = FALSE /\ others = FALSE /\ overdue = FALSE

-----------------------------------------------------------------------------
(* What is on the screen, and the effects that follow a change of it.      *)

Streaming(c) == c.pc # "idle" /\ c.live
Locked(st, pg, c) == pg.activity # None \/ Streaming(c) \/ \E s \in Stage : st[s].busy

\* The stage that useReconnectPoll follows; a changed argument restarts it.
Followed(st, pg, c) ==
    IF pg.view = None \/ Streaming(c) \/ \A s \in Stage : ~st[s].busy THEN None
    ELSE CHOOSE s \in Stage : st[s].busy

Polled(q, st, pg, c) ==
    IF q.stage = Followed(st, pg, c) THEN q
    ELSE [stage |-> Followed(st, pg, c), ran |-> FALSE,
          pc |-> IF Followed(st, pg, c) = None THEN "off" ELSE "sleep"]

\* A new editor takes the buffer only while its stage generates: after that
\* the buffer of a stream that was left may be cut short.
Hydrated(st, b, s) == IF st[s].busy /\ b[s] # None THEN "part" ELSE st[s].text

\* The editor is keyed by stage and status.
M_Replaced(d, st, pg) == d.stage # None /\ d.stage # pg.view

Replaced(d, st, pg) == d.stage # None /\ (d.stage # pg.view \/ d.shown.busy # st[d.stage].busy)

\* Its cleanup, when it is replaced or becomes read-only, saves what was typed
\* with the handler of the render before and on the stage object of then.
After(q, d, sent, st, b, pg, c) ==
    LET leaves == Replaced(d, st, pg)
        flush == d.timer /\ ~d.locked /\ (leaves \/ Locked(st, pg, c))
        after == IF flush THEN [st EXCEPT ![d.stage] = [d.shown EXCEPT !.text = d.text]] ELSE st
        fresh == leaves \/ d.stage # pg.view
    IN  /\ store' = after /\ buf' = b /\ page' = pg /\ call' = c
        /\ poll' = Polled(q, after, pg, c)
        /\ saves' = IF flush THEN sent \cup {[stage |-> d.stage, text |-> d.text, at |-> "sent",
                                              seen |-> d.shown]}
                             ELSE sent
        /\ doc' = IF pg.view = None THEN NoDoc
                  ELSE [stage |-> pg.view, shown |-> after[pg.view], locked |-> Locked(after, pg, c),
                        text |-> IF fresh THEN Hydrated(after, b, pg.view) ELSE d.text,
                        timer |-> d.timer /\ ~fresh /\ ~flush]
        /\ mixed' = (mixed \/ (Streaming(c) /\ saves' # {}))

Rendered(st, b, pg, c) == After(poll, doc, saves, st, b, pg, c)

\* A response puts a stage into the store.
SetStage(s, seen) == Rendered([store EXCEPT ![s] = seen], buf, page, call)

\* The end of start() and of runGeneration; a page that was left is not touched.
Finish(st, error) ==
    Rendered(st, [buf EXCEPT ![call.stage] = None],
             IF call.live THEN [page EXCEPT !.activity = None,
                                            !.error = IF error /\ page.view = call.stage
                                                        THEN call.stage ELSE @]
                          ELSE page, Idle)

Fault == faults < MaxFaults /\ faults' = faults + 1

-----------------------------------------------------------------------------
(* The user.                                                               *)

Type ==
    /\ doc.stage # None /\ ~doc.locked /\ edits < MaxEdits
    /\ edits' = edits + 1 /\ doc' = [doc EXCEPT !.timer = TRUE]
    /\ UNCHANGED <<server, runs, store, buf, page, call, poll, advice, saves, clicks, faults,
                   quick, mixed, others, overdue>>

\* The timer of the editor: handleContentChange.
SaveEdit ==
    /\ doc.timer
    /\ After(poll, [doc EXCEPT !.timer = FALSE],
             saves \cup {[stage |-> doc.stage, text |-> doc.text, at |-> "sent", seen |-> doc.shown]},
             [store EXCEPT ![doc.stage].text = doc.text], buf, page, call)
    /\ UNCHANGED <<server, runs, advice, clicks, edits, faults, quick, others, overdue>>

\* The error of a stage is cleared with the navigation.
Navigate(s) ==
    /\ page.view \notin {None, s}
    /\ Rendered(store, buf, [page EXCEPT !.view = s, !.error = None], call)
    /\ UNCHANGED <<server, runs, advice, clicks, edits, faults, quick, others, overdue>>

\* requestGeneration opens the credit dialog for the active stage.
Ask ==
    /\ page.view # None /\ ~Locked(store, page, call) /\ page.modal = None /\ clicks < MaxClicks
    /\ page' = [page EXCEPT !.modal = page.view]
    /\ UNCHANGED <<server, runs, store, buf, call, poll, advice, doc, saves, counters>>

\* confirmCredits refuses a dialog of another stage; runGeneration and the
\* head of start() show the stage as generating.
Confirmed == IF page.modal = page.view THEN page.view ELSE None

Confirm ==
    /\ page.modal # None /\ ~Locked(store, page, call) /\ call.pc = "idle"
    /\ LET s == Confirmed IN
         IF s = None THEN /\ page' = [page EXCEPT !.modal = None]
                          /\ UNCHANGED <<store, buf, call, poll, doc, saves, advice, clicks, mixed>>
         ELSE /\ clicks' = clicks + 1 /\ advice' = Quiet
              /\ Rendered([store EXCEPT ![s].busy = TRUE], [buf EXCEPT ![s] = "empty"],
                          [page EXCEPT !.modal = None, !.activity = s, !.error = None],
                          [pc |-> "trigger", stage |-> s, click |-> clicks + 1,
                           base |-> store[s].version, tries |-> 0, live |-> TRUE])
    /\ UNCHANGED <<server, runs, edits, faults, quick, others, overdue>>

\* The page is left: the connection is closed and its buffer dropped.  A
\* refetch that start() waits for still writes the store when it arrives.
Leave ==
    /\ page.view # None /\ call.pc \notin {"trigger", "fetch"} /\ Fault
    /\ advice' = Quiet
    /\ Rendered(store,
                IF Streaming(call) THEN [buf EXCEPT ![call.stage] = None] ELSE buf,
                [view |-> None, modal |-> None, activity |-> None, error |-> None],
                IF call.pc = "open" THEN Idle ELSE [call EXCEPT !.live = call.pc = "idle"])
    /\ UNCHANGED <<server, runs, clicks, edits, quick, others, overdue>>

\* A new mount loads the workspace.
Load(s) ==
    /\ page.view = None
    /\ Rendered([t \in Stage |-> Seen(t)], buf, [page EXCEPT !.view = s], call)
    /\ UNCHANGED <<server, runs, advice, clicks, edits, faults, quick, others, overdue>>

-----------------------------------------------------------------------------
(* The connection.                                                         *)

Goto(pc) == call' = [call EXCEPT !.pc = pc]
Step == UNCHANGED <<store, buf, page, poll, advice, doc, saves, clicks, edits, mixed, others, overdue>>

\* The answer with the address of the stream.
Triggered ==
    /\ call.pc = "trigger"
    /\ \/ Goto("fetch") /\ UNCHANGED faults
       \/ Goto("fail") /\ Fault
    /\ Step /\ UNCHANGED <<server, runs, quick>>

\* The request reaches generate(), which admits one run of a stage.
Admitted(s, c) ==
    IF server[s].busy THEN UNCHANGED <<server, runs>>
    ELSE /\ server' = [server EXCEPT ![s].busy = TRUE, ![s].click = c, ![s].outcome = None]
         /\ runs' = IF c = 0 THEN runs ELSE [runs EXCEPT ![c] = @ + 1]

Answered ==
    /\ call.pc = "fetch"
    /\ Admitted(call.stage, call.click)
    /\ Goto(IF server[call.stage].busy THEN "reconcile" ELSE "open")
    /\ Step /\ UNCHANGED <<faults, quick>>

\* A middleware's 429 or 503, or no answer at all, is tried again: in the
\* second case the request may have arrived.
Again == IF call.tries < MaxRetries THEN call' = [call EXCEPT !.tries = @ + 1] ELSE Goto("fail")

Unanswered ==
    /\ call.pc = "fetch" /\ Fault
    /\ \/ UNCHANGED <<server, runs>>
       \/ Admitted(call.stage, call.click)
    /\ Again
    /\ Step /\ UNCHANGED quick

\* Any other refusal: an error event, no credits, or a status that is not retried.
Refused ==
    /\ call.pc = "fetch" /\ Fault
    /\ Goto("fail") \/ Goto("reconcile")
    /\ Step /\ UNCHANGED <<server, runs, quick>>

Mine == server[call.stage].click = call.click

Token ==
    /\ call.pc = "open" /\ Mine /\ server[call.stage].busy
    /\ buf' = [buf EXCEPT ![call.stage] = "part"]
    /\ doc' = IF doc.stage = call.stage THEN [doc EXCEPT !.text = "part", !.timer = ~doc.locked]
              ELSE doc
    /\ UNCHANGED <<server, runs, store, page, call, poll, advice, saves, counters>>

\* The last event of the run.
Ended ==
    /\ call.pc = "open" /\ Mine /\ ~server[call.stage].busy
    /\ Goto(CASE server[call.stage].outcome = "done" -> "tail"
              [] server[call.stage].outcome = "stopped" -> "settled"
              [] OTHER -> "fail")
    /\ Step /\ UNCHANGED <<server, runs, faults, quick>>

\* An answer without its last event is never asked for again.
Dropped == Goto("reconcile")

Drop ==
    /\ call.pc = "open" /\ Fault
    /\ Dropped
    /\ Step /\ UNCHANGED <<server, runs, quick>>

-----------------------------------------------------------------------------
(* What start() makes of it.                                               *)

Rest == UNCHANGED <<server, runs, clicks, edits, quick, others, overdue>>

\* runDoneTail, or the reconnect poll if the refetch fails.
Tail ==
    /\ call.pc = "tail"
    /\ \/ /\ Finish([store EXCEPT ![call.stage] = Seen(call.stage)], FALSE)
          /\ advice' = [pc |-> "wait", stage |-> call.stage, left |-> MaxPolls]
          /\ UNCHANGED faults
       \/ Finish(store, FALSE) /\ UNCHANGED advice /\ Fault
    /\ Rest

Settled ==
    /\ call.pc = "settled"
    /\ \/ Finish([store EXCEPT ![call.stage] = Seen(call.stage)], FALSE) /\ UNCHANGED faults
       \/ Finish(store, FALSE) /\ Fault
    /\ Rest /\ UNCHANGED advice

\* The version tells whether the work landed.
Reconcile ==
    /\ call.pc = "reconcile"
    /\ LET fresh == Seen(call.stage) IN
         \/ /\ fresh.busy \/ fresh.version <= call.base
            /\ Finish([store EXCEPT ![call.stage] = fresh], ~fresh.busy) /\ UNCHANGED faults
         \/ /\ ~fresh.busy /\ fresh.version > call.base
            /\ Goto("tail") /\ UNCHANGED <<store, buf, page, poll, doc, saves, mixed, faults>>
         \/ Finish(store, TRUE) /\ Fault
    /\ Rest /\ UNCHANGED advice

\* finaliseStream keeps what was streamed until the refetch replaces it.
Fail ==
    /\ call.pc = "fail"
    /\ LET s == call.stage IN
         Rendered(
                  [store EXCEPT ![s].text = IF buf[s] = "part" THEN "part" ELSE @],
                  [buf EXCEPT ![s] = None],
                  IF page.view = s THEN [page EXCEPT !.error = s] ELSE page,
                  [call EXCEPT !.pc = "refetch"])
    /\ Rest /\ UNCHANGED <<advice, faults>>

Refetch ==
    /\ call.pc = "refetch"
    /\ \/ Finish([store EXCEPT ![call.stage] = Seen(call.stage)], FALSE) /\ UNCHANGED faults
       \/ /\ Finish([store EXCEPT ![call.stage] = [busy |-> FALSE, version |-> call.base,
                                                   text |-> "whole"]], FALSE)
          /\ Fault
    /\ Rest /\ UNCHANGED advice

-----------------------------------------------------------------------------
(* The polls and the answers of saves.                                     *)

\* A run that is over is followed by one read of the stage.
PollRun ==
    /\ poll.pc = "sleep" /\ ~server[poll.stage].busy
    /\ poll' = [poll EXCEPT !.pc = "stage", !.ran = server[poll.stage].outcome # None]
    /\ UNCHANGED <<server, runs, store, buf, page, call, advice, doc, saves, counters>>

PollStage ==
    /\ poll.pc = "stage"
    /\ LET fresh == Seen(poll.stage) IN
         After([poll EXCEPT !.pc = IF poll.ran \/ ~fresh.busy THEN "over" ELSE "sleep"],
               doc, saves, [store EXCEPT ![poll.stage] = fresh], buf, page, call)
    /\ UNCHANGED <<server, runs, advice, clicks, edits, faults, quick, others, overdue>>

\* Deadline and grace are over and the run is not.
PollGivesUp ==
    /\ poll.pc = "sleep" /\ server[poll.stage].busy /\ Fault
    /\ poll' = [poll EXCEPT !.pc = "over"] /\ overdue' = TRUE
    /\ UNCHANGED <<server, runs, store, buf, page, call, advice, doc, saves, clicks, edits, quick,
                   mixed, others>>

AdvicePoll ==
    /\ advice.pc = "wait"
    /\ SetStage(advice.stage, Seen(advice.stage))
    /\ advice' = IF advice.left > 1 THEN [advice EXCEPT !.left = @ - 1] ELSE Quiet
    /\ Rest /\ UNCHANGED faults

\* handle_content_edit refuses a stage that generates.
SaveApplied(v) ==
    /\ v.at = "sent"
    /\ LET s == v.stage IN
         IF server[s].busy THEN saves' = saves \ {v} /\ UNCHANGED server
         ELSE /\ server' = [server EXCEPT ![s].version = @ + 1, ![s].text = v.text]
              /\ saves' = (saves \ {v}) \cup {[v EXCEPT !.at = "applied", !.seen =
                            [busy |-> FALSE, version |-> server[s].version + 1, text |-> v.text]]}
    /\ UNCHANGED <<runs, store, buf, page, call, poll, advice, doc, counters>>

SaveAnswered(v) ==
    /\ v.at = "applied"
    /\ After(poll, doc, saves \ {v}, [store EXCEPT ![v.stage] = v.seen], buf, page, call)
    /\ UNCHANGED <<server, runs, advice, clicks, edits, faults, quick, others, overdue>>

-----------------------------------------------------------------------------
(* The server.                                                             *)

RunEnds(s) ==
    /\ server[s].busy
    /\ \E o \in {"done", "stopped", "gate"} :
         server' = [server EXCEPT ![s].busy = FALSE, ![s].outcome = o,
                                  ![s].version = IF o = "stopped" THEN @ ELSE @ + 1,
                                  ![s].text = IF o = "stopped" THEN @ ELSE "whole"]
    /\ quick' = (quick \/ (call.pc = "fetch" /\ server[s].click = call.click))
    /\ UNCHANGED <<runs, store, buf, page, call, poll, advice, doc, saves, clicks, edits, faults,
                   mixed, others, overdue>>

OtherTab(s) ==
    /\ ~server[s].busy /\ Fault
    /\ Admitted(s, 0) /\ others' = TRUE
    /\ UNCHANGED <<store, buf, page, call, poll, advice, doc, saves, clicks, edits, quick, mixed,
                   overdue>>

Next ==
    \/ Type \/ SaveEdit \/ Ask \/ Confirm \/ Leave
    \/ Triggered \/ Answered \/ Unanswered \/ Refused \/ Token \/ Ended \/ Drop
    \/ Tail \/ Settled \/ Reconcile \/ Fail \/ Refetch
    \/ PollRun \/ PollStage \/ PollGivesUp \/ AdvicePoll
    \/ \E s \in Stage : Navigate(s) \/ Load(s) \/ RunEnds(s) \/ OtherTab(s)
    \/ \E v \in saves : SaveApplied(v) \/ SaveAnswered(v)

-----------------------------------------------------------------------------
\* The requests of one click start one generation.
OneRunPerClick == quick \/ \A c \in 1 .. MaxClicks : runs[c] <= 1

\* What is saved is never the part of a draft that was streamed so far.
WholeSaved == mixed \/ \A s \in Stage : server[s].text = "whole"

\* A page that shows a stage as generating streams it or polls for its end,
\* and shows an error only on the stage it belongs to.
PageFollows ==
    /\ \/ page.view = None \/ Streaming(call) \/ others \/ overdue
       \/ \A s \in Stage : ~store[s].busy
       \/ poll.pc \in {"sleep", "stage"}
    /\ page.error \in {None, page.view}
=============================================================================
