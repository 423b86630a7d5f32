------------------------------- MODULE Analysis -------------------------------
(***************************************************************************)
(* From an unpacked upload to its analysis report: triggerAIAnalyzer in    *)
(* the gateway (internal/api/handlers.go) and, in the ai-analyzer, the     *)
(* handler of /api/analyze (cmd/main.go), the three concurrent agents and  *)
(* the synthesizer (internal/agents) and the retry around the model's API  *)
(* (internal/llm/provider.go).                                             *)
(*                                                                         *)
(*   row      is the submission in the table submissions?                  *)
(*   report   its row of analysis_reports, or NoReport                     *)
(*   ask      where triggerAIAnalyzer is                                   *)
(*   source   bytes of source code the request carries                     *)
(*   server   where the analyzer's handler is                              *)
(*   caller   agent or synthesizer -> its GenerateJSON                     *)
(*   gone     the gateway has closed the connection                        *)
(*   expired  the handler's own deadline has passed                        *)
(***************************************************************************)
EXTENDS Extraction, Sequences

CONSTANTS
    Agents,        \* security, performance, correctness
    WalkOrder,     \* the source files, in filepath.Walk's order
    SourceCap,     \* 1 MiB of source
    BodyCap,       \* 1 MiB of request body
    Wrapping,      \* what file headers and JSON escapes add to the source
    Answers,       \* severities an agent's answer may list
    Weight,        \* severityWeight; an unknown severity weighs 0
    Faults         \* what may go wrong around the two services

Synthesizer == "synthesizer"
Callers == Agents \cup {Synthesizer}

ASSUME AgentsAssumption == IsFiniteSet(Agents) /\ Synthesizer \notin Agents
ASSUME WalkOrderAssumption == WalkOrder \in Seq(Paths)
ASSUME CapsAssumption == SourceCap \in Nat /\ BodyCap \in Nat /\ Wrapping \in Nat
ASSUME WeightAssumption == Weight \in [DOMAIN Weight -> Nat] /\ "info" \in DOMAIN Weight
ASSUME AnswersAssumption == Answers \subseteq Seq(DOMAIN Weight)
ASSUME FaultsAssumption == Faults \subseteq {"db", "analyzer"}

VARIABLES row, report, ask, source, server, caller, gone, expired

asking == <<row, report, ask, source>>
serving == <<server, caller, gone, expired>>
vars == <<extracting, asking, serving>>

-----------------------------------------------------------------------------

NoReport == [risk |-> -1]

\* A caller is waiting for the API, sleeping before the next try, or has
\* returned findings or an error; "cancelled" is the error of a call under an
\* ended context.
Idle == [pc |-> "idle"]
Calling(n) == [pc |-> "call", tries |-> n]
Sleeping(n) == [pc |-> "sleep", tries |-> n]
Found(answer) == [pc |-> "ok", findings |-> answer]
Failed(why) == [pc |-> "error", why |-> why]

Tries == 3

CallerState ==
    {Idle} \cup {Calling(n) : n \in 0 .. Tries - 1} \cup {Sleeping(n) : n \in 1 .. Tries}
    \cup {Found(a) : a \in Answers} \cup {Failed(w) : w \in {"api", "cancelled"}}

\* What the report lists under an agent's category: its findings, or one
\* info-level finding that names the agent's error.
Listed == {Found(a) : a \in Answers} \cup {Failed(w) : w \in {"api", "cancelled"}}

Report == [risk : 0 .. 100, findings : [Agents -> Listed], summarised : BOOLEAN]

TypeOK ==
    /\ step \in {"start", "extract", "saved", "refused", "dead"}
    /\ tree \in [Paths -> {Absent, Directory} \cup 0 .. FileCap]
    /\ files \in 0 .. MaxFiles /\ bytes \in 0 .. MaxBytes + FileCap
    /\ row \in BOOLEAN
    /\ report \in Report \cup {NoReport}
    /\ ask \in {"none", "lookup", "walk", "wait", "store", "over"}
    /\ source \in 0 .. SourceCap
    /\ server \in {"none", "received", "agents", "synth", "refused", "answered", "over"}
    /\ caller \in [Callers -> CallerState]
    /\ gone \in BOOLEAN /\ expired \in BOOLEAN

\* A second upload of the same source has no row under its own id.
Init ==
    /\ InitExtraction
    /\ row \in BOOLEAN
    /\ report = NoReport
    /\ ask = "none" /\ source = 0
    /\ server = "none"
    /\ caller = [c \in Callers |-> Idle]
    /\ gone = FALSE /\ expired = FALSE

-----------------------------------------------------------------------------
(* The gateway.                                                            *)

\* buildAndDeploy: go triggerAIAnalyzer.
Trigger ==
    /\ step = "saved" /\ ask = "none"
    /\ ask' = "lookup"
    /\ UNCHANGED <<extracting, row, report, source, serving>>

LookUp ==
    /\ ask = "lookup"
    /\ \/ row /\ ask' = "walk"
       \/ (~row \/ "db" \in Faults) /\ ask' = "over"
    /\ UNCHANGED <<extracting, row, report, source, serving>>

\* The source files among the first n of the walk, and their bytes.
Walked(n) == {i \in 1 .. n : WalkOrder[i] \in Files(tree)}
Prefix(n) == MapThenSumSet(LAMBDA i : tree[WalkOrder[i]], Walked(n))

\* The walk stops for good at the first file that does not fit any more.
Fitting == Max({n \in 0 .. Len(WalkOrder) : Prefix(n) <= SourceCap})

\* No source, no request; the analyzer may not be reachable.
Post ==
    /\ ask = "walk"
    /\ \/ /\ Walked(Fitting) # {}
          /\ source' = Prefix(Fitting)
          /\ ask' = "wait"
          /\ server' = "received"
       \/ /\ Walked(Fitting) = {} \/ "analyzer" \in Faults
          /\ ask' = "over"
          /\ UNCHANGED <<source, server>>
    /\ UNCHANGED <<extracting, row, report, caller, gone, expired>>

\* The HTTP client's 30 s are over: the connection is closed, which cancels
\* the context of the handler at the other end.
GiveUp ==
    /\ ask = "wait"
    /\ ask' = "over"
    /\ gone' = TRUE
    /\ UNCHANGED <<extracting, row, report, source, server, caller, expired>>

TakeAnswer ==
    /\ ask = "wait" /\ server \in {"refused", "answered"}
    /\ ask' = IF server = "answered" THEN "store" ELSE "over"
    /\ server' = "over"
    /\ UNCHANGED <<extracting, row, report, source, caller, gone, expired>>

-----------------------------------------------------------------------------
(* The analyzer.                                                           *)

\* The body is read up to BodyCap: what is cut off is no JSON.  The agents see
\* its first 100,000 bytes of source, in prompts that are not modelled.
Decode ==
    /\ server = "received"
    /\ IF source + Wrapping > BodyCap
       THEN server' = "refused" /\ UNCHANGED caller
       ELSE /\ server' = "agents"
            /\ caller' = [c \in Callers |-> IF c \in Agents THEN Calling(0) ELSE Idle]
    /\ UNCHANGED <<extracting, asking, gone, expired>>

\* 600 s against the gateway's 30.
AfterGateway == gone

Expire ==
    /\ server \in {"agents", "synth"} /\ ~expired
    /\ AfterGateway
    /\ expired' = TRUE
    /\ UNCHANGED <<extracting, asking, server, caller, gone>>

Cancelled == gone \/ expired

\* p.Generate returns: an answer with or without usable JSON, an error worth a
\* retry, or another one.  A closed connection is noticed with a delay, so a
\* call may still succeed after it.
Generate(c) ==
    /\ caller[c].pc = "call"
    /\ \/ /\ \/ \E a \in Answers : caller' = [caller EXCEPT ![c] = Found(a)]
             \/ caller' = [caller EXCEPT ![c] = Failed("api")]
             \/ caller' = [caller EXCEPT ![c] = Sleeping(@.tries + 1)]
       \/ Cancelled /\ caller' = [caller EXCEPT ![c] = Failed("cancelled")]
    /\ UNCHANGED <<extracting, asking, server, gone, expired>>

\* The sleep takes no notice of the context, and follows the last try too.
Wake(c) ==
    /\ caller[c].pc = "sleep"
    /\ caller' = [caller EXCEPT ![c] = IF @.tries < Tries THEN Calling(@.tries)
                                       ELSE Failed("api")]
    /\ UNCHANGED <<extracting, asking, server, gone, expired>>

\* Fault: the WaitGroup is only told of agents that succeed.
Returned(c) == caller[c].pc = "ok"

\* defer wg.Done().
Done(c) == caller[c].pc \in {"ok", "error"}

\* wg.Wait, then the prompt for the summary.
Join ==
    /\ server = "agents"
    /\ \A a \in Agents : Done(a)
    /\ server' = "synth"
    /\ caller' = [caller EXCEPT ![Synthesizer] = Calling(0)]
    /\ UNCHANGED <<extracting, asking, gone, expired>>

\* A failed summary does not fail the analysis.
Answer ==
    /\ server = "synth" /\ Done(Synthesizer)
    /\ server' = "answered"
    /\ UNCHANGED <<extracting, asking, caller, gone, expired>>

\* Writing to a connection that is closed.
Unheard ==
    /\ server \in {"refused", "answered"} /\ gone
    /\ server' = "over"
    /\ UNCHANGED <<extracting, asking, caller, gone, expired>>

\* The analyzer dies with its requests, which the gateway notices.
AnalyzerCrash ==
    /\ "analyzer" \in Faults
    /\ server \notin {"none", "over"}
    /\ server' = "over"
    /\ caller' = [c \in Callers |-> Idle]
    /\ ask' = IF ask = "wait" THEN "over" ELSE ask
    /\ UNCHANGED <<extracting, row, report, source, gone, expired>>

\* Fault: an agent's error leaves nothing behind in the report.
ErrorsDropped(a) == IF caller[a].pc = "ok" THEN caller[a] ELSE Found(<<>>)

Collected(a) == caller[a]

WeightOf(f) ==
    IF f.pc = "error" THEN Weight["info"]
    ELSE MapThenSumSet(LAMBDA i : Weight[f.findings[i]], DOMAIN f.findings)

Capped(n) == Min({n, 100})

Synthesis ==
    [risk |-> Capped(MapThenSumSet(LAMBDA a : WeightOf(caller[a]), Agents)),
     findings |-> [a \in Agents |-> Collected(a)],
     summarised |-> caller[Synthesizer].pc = "ok"]

\* InsertAnalysisReport: the foreign key refuses a submission that is gone.
Store ==
    /\ ask = "store"
    /\ \/ row /\ report' = Synthesis
       \/ (~row \/ "db" \in Faults) /\ UNCHANGED report
    /\ ask' = "over"
    /\ UNCHANGED <<extracting, row, source, serving>>

\* The gateway dies, and with it the job and its connection.
GatewayCrash ==
    /\ ask \notin {"none", "over"}
    /\ ask' = "over"
    /\ gone' = (gone \/ ask = "wait")
    /\ UNCHANGED <<extracting, row, report, source, server, caller, expired>>

\* resetPlatform: TRUNCATE runs, submissions, analysis_reports.
ResetPlatform ==
    /\ row
    /\ row' = FALSE
    /\ report' = NoReport
    /\ UNCHANGED <<extracting, ask, source, serving>>

-----------------------------------------------------------------------------

Gateway == Trigger \/ LookUp \/ Post \/ TakeAnswer \/ Store

Analyzer == Decode \/ Join \/ Answer \/ Unheard

Next ==
    \/ SaveSource /\ UNCHANGED <<asking, serving>>
    \/ Gateway \/ GiveUp
    \/ Analyzer \/ Expire
    \/ \E c \in Callers : Generate(c) \/ Wake(c)
    \/ AnalyzerCrash
    \/ GatewayCrash
    \/ ResetPlatform

Spec == Init /\ [][Next]_vars

\* The goroutines run; every call of the API returns, at the latest with its
\* client's own timeout.
FairSpec ==
    /\ Spec
    /\ WF_vars(Gateway) /\ WF_vars(GiveUp) /\ WF_vars(Analyzer)
    /\ \A c \in Callers : WF_vars(Generate(c) \/ Wake(c))

-----------------------------------------------------------------------------
(* Properties.                                                             *)

\* No stored report passes an agent that failed off as one that found nothing
\* ("noting agent failures as info-level findings"), in whatever order the
\* agents end and however often each was tried.
NoSilentAgent ==
    report # NoReport =>
        \A a \in Agents : caller[a].pc = "error" => report.findings[a].pc = "error"

\* The agents are cancelled only by the gateway's own giving up, and what was
\* cut short that way never reaches the table.
NothingCutShortIsStored ==
    report # NoReport =>
        /\ ~gone
        /\ \A a \in Agents : report.findings[a] # Failed("cancelled")

\* A stored report says what the agents found.  Stated with the types of the
\* variables.
ReportHonest == TypeOK /\ NoSilentAgent /\ NothingCutShortIsStored

\* Why the two hold: the tree and the counters of the extraction agree, a
\* connection that is closed closes the case for the gateway, and what the
\* gateway stores it has taken from a handler whose agents have all returned.
AnswerInv ==
    /\ gone => ask = "over" /\ report = NoReport
    /\ expired => gone
    /\ \A c \in Callers : caller[c] = Failed("cancelled") => gone
    /\ ask \in {"none", "lookup", "walk"} => server = "none"
    /\ ask = "store" => server = "over"
    /\ server \in {"synth", "answered"} \/ ask = "store" => \A a \in Agents : Done(a)
    /\ report # NoReport =>
          /\ ask = "over" /\ server = "over"
          /\ \A a \in Agents : Done(a) /\ report.findings[a] = caller[a]

AnalysisInv == TypeOK /\ ExtractionInv /\ AnswerInv

\* Once triggered, an analysis is over on both sides, whatever the API does.
AnalysisEnds ==
    ask = "lookup" ~> ask = "over" /\ server \in {"none", "over"}

=============================================================================
