------------------------------- MODULE LegalQA -------------------------------
(***************************************************************************)
(* UC-03's question answering (uc03/service.py) as the event loop runs it. *)
(* A request is a driver (_run) and the pipeline task it starts; requests  *)
(* share the framing registry and the question log, which they touch only  *)
(* at awaits.  The driver ends the pipeline at the deadline; a learner who *)
(* closes a stream ends the driver, but not a pipeline that _run shields.  *)
(*                                                                         *)
(* One session is modelled, its learner's and nobody else's: the registry  *)
(* is keyed by session and an interaction of another session is refused.   *)
(* An explanation is the set of its content words.                         *)
(***************************************************************************)
EXTENDS Naturals, Sequences, FiniteSets

CONSTANTS Workers,           \* requests that can be in flight at once
          Concepts,          \* concept keys the questions of the session get
          Pool,              \* the framings there are
          Actions,           \* the follow-ups learners ask for
          Prose,             \* what the generator may return
          Citations,         \* citation-shaped phrases, as word sets
          ParaphraseTenths,  \* settings.paraphrase_threshold, in tenths
          MaxRecords,        \* bound: records in the log, explanations shown
          None               \* Python's None

FramingStrategy == {"analogy", "worked_example", "contrast_near_miss",
                    "first_principles", "procedural_walkthrough",
                    "misconception_correction"}
FollowUpAction == {"explain_differently", "another_example", "go_deeper"}
\* clarification_needed and out_of_scope are one here, "not_answerable": both
\* end the pipeline at once with a fixed message.
ResponseStatus == {"answered", "not_answerable", "timeout", "error",
                   "framings_exhausted"}

\* What scrub puts in place of a citation: "[citation removed - not verified]".
REDACTION == {"citation", "removed", "verified"}
INITIAL_FRAMING == "analogy"

Words == REDACTION \cup UNION (Prose \cup Citations)

ASSUME PoolAssumption == Pool \subseteq FramingStrategy /\ INITIAL_FRAMING \in Pool
ASSUME ActionsAssumption == Actions \subseteq FollowUpAction
ASSUME ThresholdAssumption == ParaphraseTenths \in 1..10
ASSUME BoundAssumption == MaxRecords \in Nat
ASSUME NoneAssumption ==
  /\ None \notin Concepts /\ None \notin FramingStrategy /\ None \notin FollowUpAction
  /\ None \notin Nat

VARIABLES framings,      \* FramingRegistry.used: concept -> framings recorded
          explanations,  \* FramingRegistry.explanations: concept -> texts shown
          log,           \* the question log; a question id is a position in it
          pc,            \* the await each request is at
          req            \* each request's locals, _Progress included

vars == <<framings, explanations, log, pc, req>>

PC == {"idle", "classify", "used", "previous", "generate", "record", "log"}
PipelineSteps == PC \ {"idle", "log"}

\* A QuestionLogRecord.  text: the explanation shown, empty if there is none;
\* redacted: the guard changed it; degraded: framing_registry_unavailable is
\* among the degradations.
LogRecord == [status : ResponseStatus, concept : Concepts \cup {None},
              framing : FramingStrategy \cup {None},
              follow_up_of : Nat \cup {None}, text : SUBSET Words,
              redacted : BOOLEAN, degraded : BOOLEAN]

Request == [action : FollowUpAction \cup {None}, origin : Nat \cup {None},
            detached : BOOLEAN, used : SUBSET FramingStrategy,
            previous : Seq(SUBSET Words), record : LogRecord]

NoRecord == [status |-> "error", concept |-> None, framing |-> None,
             follow_up_of |-> None, text |-> {}, redacted |-> FALSE,
             degraded |-> FALSE]
NoRequest == [action |-> None, origin |-> None, detached |-> FALSE, used |-> {},
              previous |-> <<>>, record |-> NoRecord]

TypeOK ==
  /\ framings \in [Concepts -> SUBSET Pool]
  /\ explanations \in [Concepts -> Seq(SUBSET Words)]
  /\ log \in Seq(LogRecord)
  /\ pc \in [Workers -> PC]
  /\ req \in [Workers -> Request]

-----------------------------------------------------------------------------
(* explanation.py, distinctness.py, citation_guard.py. *)

Preference(action) ==
  CASE action = "another_example" ->
         <<"worked_example", "analogy", "contrast_near_miss",
           "procedural_walkthrough", "misconception_correction", "first_principles">>
    [] action = "go_deeper" ->
         <<"first_principles", "contrast_near_miss", "misconception_correction",
           "procedural_walkthrough", "worked_example", "analogy">>
    [] action = "explain_differently" ->
         <<"analogy", "contrast_near_miss", "misconception_correction",
           "worked_example", "procedural_walkthrough", "first_principles">>
    [] OTHER ->
         <<"analogy", "worked_example", "contrast_near_miss", "first_principles",
           "procedural_walkthrough", "misconception_correction">>

\* The first framing in the action's order that is not used; None when all are.
\* Every order holds the whole enumeration, so the code's second loop finds
\* nothing the first did not.
select_framing(action, used) ==
  LET order == Preference(action)
      unused == {i \in DOMAIN order : order[i] \in Pool \ used}
  IN IF unused = {} THEN None
     ELSE order[CHOOSE i \in unused : \A j \in unused : i <= j]

\* Jaccard overlap at or above the threshold; an empty text overlaps nothing.
is_paraphrase(candidate, previous) ==
  \E i \in DOMAIN previous :
    /\ candidate # {} /\ previous[i] # {}
    /\ 10 * Cardinality(candidate \cap previous[i])
         >= ParaphraseTenths * Cardinality(candidate \cup previous[i])

\* Every citation in the text that is not an allowed one is replaced.
scrub(text, allowed) ==
  LET bad == {c \in Citations \ allowed : c \subseteq text}
  IN IF bad = {} THEN text ELSE (text \ UNION bad) \cup REDACTION

-----------------------------------------------------------------------------

Init ==
  /\ framings = [c \in Concepts |-> {}]
  /\ explanations = [c \in Concepts |-> <<>>]
  /\ log = <<>>
  /\ pc = [w \in Workers |-> "idle"]
  /\ req = [w \in Workers |-> NoRequest]

At(w, label) == pc[w] = label
Goto(w, label) == pc' = [pc EXCEPT ![w] = label]

\* The pipeline's outcome reaches the log record, unless nobody waits for it.
Finish(w, record) ==
  IF req[w].detached
  THEN Goto(w, "idle") /\ req' = [req EXCEPT ![w] = NoRequest]
  ELSE Goto(w, "log") /\ req' = [req EXCEPT ![w].record = record]

WithinBound ==
  LET busy == Cardinality({w \in Workers : pc[w] # "idle"})
      shown == UNION {{c} \X DOMAIN explanations[c] : c \in Concepts}
  IN /\ Len(log) + busy < MaxRecords
     /\ Cardinality(shown) + busy <= MaxRecords

-----------------------------------------------------------------------------
(* The driver: answer, follow_up, _run. *)

BeginAsk(w) ==
  /\ At(w, "idle")
  /\ WithinBound
  /\ Goto(w, "classify")
  /\ req' = [req EXCEPT ![w] = NoRequest]
  /\ UNCHANGED <<framings, explanations, log>>

\* An ask for someone else's session, or of an ill-formed question, is logged
\* as an error before it is refused.
RefuseAsk(w) ==
  /\ At(w, "idle")
  /\ WithinBound
  /\ Goto(w, "log")
  /\ req' = [req EXCEPT ![w] = NoRequest]
  /\ UNCHANGED <<framings, explanations, log>>

\* Only an answered interaction can be followed up; a refusal here leaves no
\* trace at all.
BeginFollowUp(w) ==
  /\ At(w, "idle")
  /\ WithinBound
  /\ \E o \in DOMAIN log, action \in Actions :
       /\ log[o].status = "answered"
       /\ req' = [req EXCEPT ![w] = [NoRequest EXCEPT
                    !.action = action, !.origin = o,
                    !.record = [NoRecord EXCEPT !.follow_up_of = o]]]
  /\ Goto(w, "classify")
  /\ UNCHANGED <<framings, explanations, log>>

\* Mutant: only the generator is called under the deadline.
DeadlineOnGenerator(w) ==
  /\ At(w, "generate")
  /\ ~ req[w].detached
  /\ Goto(w, "log")
  /\ req' = [req EXCEPT ![w].record.status = "timeout"]
  /\ UNCHANGED <<framings, explanations, log>>

\* wait_for gives up on the task; whatever progress it made is logged.  A
\* record_framing that is cancelled may have reached the registry or not.
Deadline(w) ==
  /\ pc[w] \in PipelineSteps
  /\ ~ req[w].detached
  /\ LET r == req[w].record
     IN \/ UNCHANGED <<framings, explanations>>
        \/ /\ At(w, "record")
           /\ framings' = [framings EXCEPT ![r.concept] = @ \cup {r.framing}]
           /\ explanations' = [explanations EXCEPT ![r.concept] = Append(@, r.text)]
  /\ Goto(w, "log")
  /\ req' = [req EXCEPT ![w].record.status = "timeout", ![w].record.text = {}]
  /\ UNCHANGED log

\* The learner closes an ask's stream.  Up to the thinking mark the pipeline is
\* shielded and runs on; after it, the pipeline is cancelled too.
Disconnect(w) ==
  /\ pc[w] # "idle"
  /\ req[w].origin = None
  /\ ~ req[w].detached
  /\ \/ /\ pc[w] \in PipelineSteps
        /\ req' = [req EXCEPT ![w].detached = TRUE]
        /\ UNCHANGED pc
     \/ Goto(w, "idle") /\ req' = [req EXCEPT ![w] = NoRequest]
  /\ UNCHANGED <<framings, explanations, log>>

\* _write_log: a logger that raises costs the record, never the response.
WriteLog(w) ==
  /\ At(w, "log")
  /\ \/ log' = Append(log, req[w].record)
     \/ UNCHANGED log
  /\ Goto(w, "idle")
  /\ req' = [req EXCEPT ![w] = NoRequest]
  /\ UNCHANGED <<framings, explanations>>

-----------------------------------------------------------------------------
(* The pipeline. *)

\* Mutant: a follow-up's concept is derived anew.
ClassifyAnew(w) ==
  /\ At(w, "classify")
  /\ \E concept \in Concepts : req' = [req EXCEPT ![w].record.concept = concept]
  /\ Goto(w, "used")
  /\ UNCHANGED <<framings, explanations, log>>

\* Steps 1 to 4: tag, classification, context, concept.  The tag of an ask and
\* so its concept are the tagger's to choose; a follow-up keeps its origin's.
Classify(w) ==
  /\ At(w, "classify")
  /\ \/ Finish(w, [req[w].record EXCEPT !.status = "not_answerable"])
     \/ \E concept \in IF req[w].origin # None
                       THEN {log[req[w].origin].concept} ELSE Concepts :
          /\ req' = [req EXCEPT ![w].record.concept = concept]
          /\ Goto(w, "used")
  /\ UNCHANGED <<framings, explanations, log>>

\* _select_framing reads the registry twice, with an await between.  (Locals
\* that are not read again are reset, here and below.)
UsedFramings(w) ==
  /\ At(w, "used")
  /\ req' = [req EXCEPT ![w].used = framings[req[w].record.concept]]
  /\ Goto(w, "previous")
  /\ UNCHANGED <<framings, explanations, log>>

\* Mutant: that the framings have run out goes unnoticed.
PreviousUnexhausted(w) ==
  /\ At(w, "previous")
  /\ req' = [req EXCEPT ![w].previous = explanations[req[w].record.concept],
                        ![w].record.framing = select_framing(req[w].action, req[w].used)]
  /\ Goto(w, "generate")
  /\ UNCHANGED <<framings, explanations, log>>

PreviousExplanations(w) ==
  /\ At(w, "previous")
  /\ LET chosen == select_framing(req[w].action, req[w].used)
     IN IF chosen = None
        THEN Finish(w, [req[w].record EXCEPT !.status = "framings_exhausted"])
        ELSE /\ req' = [req EXCEPT ![w].action = None, ![w].used = {},
                                   ![w].previous = explanations[req[w].record.concept],
                                   ![w].record.framing = chosen]
             /\ Goto(w, "generate")
  /\ UNCHANGED <<framings, explanations, log>>

\* Mutant: a follow-up takes its chance as well.
RegistryIgnored(w) ==
  /\ pc[w] \in {"used", "previous"}
  /\ req' = [req EXCEPT ![w].used = {}, ![w].record.degraded = TRUE,
                        ![w].record.framing = INITIAL_FRAMING]
  /\ Goto(w, "generate")
  /\ UNCHANGED <<framings, explanations, log>>

\* The registry cannot be read: a follow-up fails, an ask takes its chance.
RegistryUnreadable(w) ==
  /\ pc[w] \in {"used", "previous"}
  /\ LET r == [req[w].record EXCEPT !.degraded = TRUE]
     IN IF req[w].origin # None THEN Finish(w, r)
        ELSE /\ req' = [req EXCEPT ![w].used = {},
                                   ![w].record = [r EXCEPT !.framing = INITIAL_FRAMING]]
             /\ Goto(w, "generate")
  /\ UNCHANGED <<framings, explanations, log>>

\* Steps 6 to 9: the authority, the prose, the paraphrase test on the prose as
\* it was generated, and the citation guard.
Generate(w) ==
  /\ At(w, "generate")
  /\ \E prose \in Prose, allowed \in {{}} \cup {{c} : c \in Citations} :
       LET text == scrub(prose, allowed)
       IN IF is_paraphrase(prose, req[w].previous)
          THEN Finish(w, req[w].record)
          ELSE /\ req' = [req EXCEPT ![w].previous = <<>>, ![w].record.text = text,
                                     ![w].record.redacted = (text # prose)]
               /\ Goto(w, "record")
  /\ UNCHANGED <<framings, explanations, log>>

\* Mutant: a failed write is not even noted.
RecordQuietly(w) ==
  /\ At(w, "record")
  /\ LET r == req[w].record
     IN \/ /\ framings' = [framings EXCEPT ![r.concept] = @ \cup {r.framing}]
           /\ explanations' = [explanations EXCEPT ![r.concept] = Append(@, r.text)]
        \/ UNCHANGED <<framings, explanations>>
  /\ Finish(w, [req[w].record EXCEPT !.status = "answered"])
  /\ UNCHANGED log

\* record_framing, then ANSWERED.  A registry that cannot be written is only
\* noted as a degradation.
RecordFraming(w) ==
  /\ At(w, "record")
  /\ LET r == [req[w].record EXCEPT !.status = "answered"]
     IN \/ /\ framings' = [framings EXCEPT ![r.concept] = @ \cup {r.framing}]
           /\ explanations' = [explanations EXCEPT ![r.concept] = Append(@, r.text)]
           /\ Finish(w, r)
        \/ /\ Finish(w, [r EXCEPT !.degraded = TRUE])
           /\ UNCHANGED <<framings, explanations>>
  /\ UNCHANGED log

\* The classifier or the generator raises.  (_run takes a TimeoutError of
\* theirs for the deadline, and so does this module.)
PipelineFails(w) ==
  /\ pc[w] \in {"classify", "generate"}
  /\ Finish(w, [req[w].record EXCEPT !.status = "error"])
  /\ UNCHANGED <<framings, explanations, log>>

-----------------------------------------------------------------------------

Pipeline(w) ==
  \/ Classify(w) \/ UsedFramings(w) \/ PreviousExplanations(w)
  \/ RegistryUnreadable(w) \/ Generate(w) \/ RecordFraming(w) \/ PipelineFails(w)

Driver(w) == \/ BeginAsk(w) \/ RefuseAsk(w) \/ BeginFollowUp(w)
             \/ Deadline(w) \/ Disconnect(w) \/ WriteLog(w)

Next == \E w \in Workers : Driver(w) \/ Pipeline(w)

Spec == Init /\ [][Next]_vars

\* A provider may hang for ever.  The timer of wait_for fires, and the logger
\* answers or raises.
FairSpec == Spec /\ \A w \in Workers : WF_vars(Deadline(w)) /\ WF_vars(WriteLog(w))

-----------------------------------------------------------------------------

\* An answer that learned of no registry failure.
Remembered(r) == r.status = "answered" /\ ~ r.degraded

\* The never-repeat rule is service state: what an answer in the log says was
\* explained, and how, is in the registry, unless the answer itself says that
\* the registry failed (_record_framing; however requests interleave, time
\* out or disconnect).
Kept(r) ==
  /\ r.framing \in framings[r.concept]
  /\ \E k \in DOMAIN explanations[r.concept] : explanations[r.concept][k] = r.text

FramingRemembered == \A i \in DOMAIN log : Remembered(log[i]) => Kept(log[i])

\* A follow-up is a new explanation: its framing is none that an answer up to
\* the one it follows used for the concept, and, where the guard left it as it
\* was generated, its text is no paraphrase of theirs (_select_framing and
\* step 8; whatever other requests do meanwhile).
Renews(r) ==
  \A i \in 1..r.follow_up_of :
    (Remembered(log[i]) /\ log[i].concept = r.concept) =>
      /\ log[i].framing # r.framing
      /\ r.redacted \/ ~ is_paraphrase(r.text, <<log[i].text>>)

FollowUpIsNew ==
  \A j \in DOMAIN log :
    (log[j].status = "answered" /\ log[j].follow_up_of # None) => Renews(log[j])

\* A follow-up re-explains what was answered: its origin is an earlier answer,
\* and it is logged under that answer's concept or, if it never got so far,
\* under none (follow_up; step 4).
FollowUpStaysOnConcept ==
  \A j \in DOMAIN log : log[j].follow_up_of # None =>
    /\ log[j].follow_up_of \in 1..(j - 1)
    /\ log[log[j].follow_up_of].status = "answered"
    /\ log[j].concept \in {None, log[log[j].follow_up_of].concept}

\* Every request ends, whichever provider hangs, or its learner has gone
\* (_run's deadline spans the whole pipeline).
RequestsEnd == \A w \in Workers : pc[w] # "idle" ~> (pc[w] = "idle" \/ req[w].detached)

=============================================================================
