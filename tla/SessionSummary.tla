----------------------------- MODULE SessionSummary -----------------------------
(***************************************************************************)
(* UC-09: the summary of one session and its export (summary_service.py),  *)
(* and the check that every claim in it is true of the session             *)
(* (grounding.py).  Each request runs in a thread of its own; a step is    *)
(* one call on a source, the generator, the renderer or a store.           *)
(*                                                                         *)
(* The upstream's log of the session grows while a summary is made.  An    *)
(* interaction's id is its position in it; its citations are the           *)
(* authorities cited in it.  A next step is a suggestion of the gap report *)
(* or a topic of the session.  Labels, prose, study level and layout are   *)
(* left out, the times a topic was discussed with its count.               *)
(***************************************************************************)
EXTENDS Naturals, Sequences, FiniteSets, FiniteSetsExt

CONSTANTS Workers, Owner, Learners,
          Topics, Concepts, Authorities, Suggestions,
          Tags,     \* what an interaction may be tagged with and cite
          MAX_KEY_CONCEPTS, MIN_KEY_CONCEPTS, MAX_NEXT_STEPS, MIN_NEXT_STEPS,
          MaxTime, MaxInteractions, MaxSummaries, MaxDownloads,   \* bounds
          None

ASSUME LearnerAssumption == Owner \in Learners
ASSUME KindAssumption == Suggestions \cap Topics = {}
ASSUME FiniteAssumption == IsFiniteSet(Topics) /\ IsFiniteSet(Concepts) /\ IsFiniteSet(Suggestions)
ASSUME TagAssumption ==
  Tags \subseteq [topics : SUBSET Topics, concepts : SUBSET Concepts, cited : SUBSET Authorities]
ASSUME SectionAssumption ==
  /\ MIN_KEY_CONCEPTS \in Nat \ {0} /\ MAX_KEY_CONCEPTS \in Nat \ {0}
  /\ MIN_NEXT_STEPS \in Nat /\ MAX_NEXT_STEPS \in Nat /\ MIN_NEXT_STEPS <= MAX_NEXT_STEPS
ASSUME BoundAssumption == {MaxTime, MaxInteractions, MaxSummaries, MaxDownloads} \subseteq Nat
ASSUME NoneAssumption == None \notin Nat

VARIABLES now,        \* Clock
          log,        \* what the upstream recorded of the session
          ended_at,   \* the session's end, None while it goes on
          summaries,  \* SummaryRepository
          downloads,  \* DownloadLogRepository
          pc, job

vars == <<now, log, ended_at, summaries, downloads, pc, job>>

SourceStatus == {"available", "empty", "partial", "unavailable", "invalid"}
GenerationMode == {"generated", "question_log_fallback"}

InteractionRecord == [at : Nat, topics : SUBSET Topics, concepts : SUBSET Concepts,
                      cited : SUBSET Authorities]

Ids == Nat \ {0}

\* A topic and the interactions counted for it; a key point with its evidence.
Topic == [topic : Topics, count : Nat]
Concept == [concept : Concepts, topic : Topics, evidence : SUBSET Ids]
SummaryContent == [topics : SUBSET Topic, concepts : SUBSET Concept,
                   resources : SUBSET Authorities, steps : SUBSET (Suggestions \cup Topics)]

\* What one request has read: SessionData with the status of each source.
SessionData == [now : Nat, partial : BOOLEAN, through : Nat,
                interactions : SUBSET Ids, interactions_status : SourceStatus,
                citations : SUBSET Authorities, citations_status : SourceStatus,
                gap : SUBSET Suggestions, gap_status : SourceStatus]

SummaryRecord == [partial : BOOLEAN, through : Nat, content : SummaryContent,
                  mode : GenerationMode, questions : SUBSET Ids,
                  status : [{"interactions", "citations", "gap_report", "summary_generator",
                             "key_concepts", "resources_referenced", "next_steps"} -> SourceStatus]]

DownloadEvent == [summary : Ids, pdf_available : BOOLEAN]

PC == {"idle", "interactions", "citations", "gap", "generate", "render", "record"}

NoData == [now |-> 0, partial |-> FALSE, through |-> 0,
           interactions |-> {}, interactions_status |-> "empty",
           citations |-> {}, citations_status |-> "empty",
           gap |-> {}, gap_status |-> "unavailable"]
NoJob == [data |-> NoData, summary |-> 0, pdf |-> FALSE]

TypeOK ==
  /\ now \in Nat /\ log \in Seq(InteractionRecord) /\ ended_at \in Nat \cup {None}
  /\ summaries \in Seq(SummaryRecord)
  /\ downloads \in Seq(DownloadEvent)
  /\ \A k \in DOMAIN downloads : downloads[k].summary \in DOMAIN summaries
  /\ pc \in [Workers -> PC]
  /\ job \in [Workers -> [data : SessionData, summary : Nat, pdf : BOOLEAN]]

Init ==
  /\ now = 0 /\ log = <<>> /\ ended_at = None
  /\ summaries = <<>> /\ downloads = <<>>
  /\ pc = [w \in Workers |-> "idle"] /\ job = [w \in Workers |-> NoJob]

At(w, label) == pc[w] = label
Step(w, label, locals) == /\ pc' = [pc EXCEPT ![w] = label]
                          /\ job' = [job EXCEPT ![w] = locals]
End(w) == Step(w, "idle", NoJob)
Read(w, label, data) == Step(w, label, [job[w] EXCEPT !.data = data])

-----------------------------------------------------------------------------
(* SessionData, and the sections in terms of it. *)

interactions_for_topic(topic, data) == {i \in data.interactions : topic \in log[i].topics}
interactions_for_concept(concept, data) == {i \in data.interactions : concept \in log[i].concepts}
topic_ids(data) == UNION {log[i].topics : i \in data.interactions}
concept_ids(data) == UNION {log[i].concepts : i \in data.interactions}

TopicsOf(content) == {t.topic : t \in content.topics}

\* The topics, each once and with the count of its interactions; reporting
\* none of a session that has some is no truer.
_check_topics(content, data) ==
  /\ TopicsOf(content) \subseteq topic_ids(data)
  /\ \A t \in content.topics : t.count = Cardinality(interactions_for_topic(t.topic, data))
  /\ topic_ids(data) # {} => content.topics # {}

\* The key points, at most MAX_KEY_CONCEPTS, each once, under a topic that was
\* discussed and with evidence of the session.
_check_concepts(content, data) ==
  /\ Cardinality(content.concepts) <= MAX_KEY_CONCEPTS
  /\ Cardinality({c.concept : c \in content.concepts}) = Cardinality(content.concepts)
  /\ \A c \in content.concepts :
       /\ c.concept \in concept_ids(data)
       /\ c.topic \in TopicsOf(content) \cap topic_ids(data)
       /\ c.evidence \subseteq data.interactions

_check_resources(content, data) == content.resources \subseteq data.citations

_check_next_steps(content, data) ==
  /\ Cardinality(content.steps) <= MAX_NEXT_STEPS
  /\ content.steps \cap Suggestions \subseteq data.gap
  /\ content.steps \cap Topics \subseteq TopicsOf(content) \cap topic_ids(data)

\* Rejected whole, whatever fails.
check_grounding(content, data) ==
  /\ _check_topics(content, data) /\ _check_concepts(content, data)
  /\ _check_resources(content, data) /\ _check_next_steps(content, data)

TopicSection(data) ==
  {[topic |-> t, count |-> Cardinality(interactions_for_topic(t, data))] : t \in topic_ids(data)}

UpTo(max, S) == kSubset(IF Cardinality(S) < max THEN Cardinality(S) ELSE max, S)

\* _question_log_content: what needs no generation.
_question_log_content(data) ==
  {[topics |-> TopicSection(data), concepts |-> {}, resources |-> data.citations, steps |-> steps] :
     steps \in UpTo(MAX_NEXT_STEPS, data.gap)}

-----------------------------------------------------------------------------
(* The generator the shipped configuration has: the sections are the tags. *)

\* _build_concepts: the concepts seen most often, each under a topic of one of
\* its interactions; one without a topic is dropped.
ConceptSections(data) ==
  LET support(c) == interactions_for_concept(c, data)
      topics(c) == UNION {log[i].topics : i \in support(c)}
      candidates == {c \in concept_ids(data) : topics(c) # {}}
      chosen == {S \in UpTo(MAX_KEY_CONCEPTS, candidates) :
                   \A c \in S : \A d \in candidates \ S : Cardinality(support(c)) >= Cardinality(support(d))}
  IN UNION {{{[concept |-> c, topic |-> owning[c], evidence |-> support(c)] : c \in S} :
               owning \in {f \in [S -> Topics] : \A c \in S : f[c] \in topics(c)}} : S \in chosen}

\* Mutant: topics are added whether or not they are needed.
StepsToppedUp(data) ==
  UNION {{S \cup T : T \in UpTo(MIN_NEXT_STEPS, topic_ids(data))} : S \in UpTo(MAX_NEXT_STEPS, data.gap)}

\* _build_next_steps: the gap report's first, topped up with topics.
StepSections(data) ==
  LET missing(S) == IF Cardinality(S) < MIN_NEXT_STEPS THEN MIN_NEXT_STEPS - Cardinality(S) ELSE 0
  IN UNION {{S \cup T : T \in UpTo(missing(S), topic_ids(data))} : S \in UpTo(MAX_NEXT_STEPS, data.gap)}

DeterministicContents(data) ==
  {[topics |-> TopicSection(data), concepts |-> concepts, resources |-> data.citations, steps |-> steps] :
     concepts \in ConceptSections(data), steps \in StepSections(data)}

\* What a generator may answer: at most one section is not what the shipped
\* one would have built, and may be false in any way.
GeneratedContents(data) ==
  LET counts == {[topic |-> t, count |-> n] : t \in Topics, n \in 1..2}
      points == {[concept |-> c, topic |-> t, evidence |-> {i}] :
                   c \in Concepts, t \in Topics, i \in 1..(Len(log) + 1)}
      Few(S) == {{}} \cup {{x, y} : x \in S, y \in S}
  IN UNION {    {[built EXCEPT !.topics = S] : S \in Few(counts)}
           \cup {[built EXCEPT !.concepts = S] : S \in Few(points)}
           \cup {[built EXCEPT !.resources = S] : S \in SUBSET Authorities}
           \cup {[built EXCEPT !.steps = S] : S \in Few(Suggestions \cup Topics)} :
              built \in DeterministicContents(data)}

-----------------------------------------------------------------------------
(* The upstream, and time. *)

Tick == /\ now < MaxTime /\ now' = now + 1
        /\ UNCHANGED <<log, ended_at, summaries, downloads, pc, job>>

\* The last one may be recorded after the session was ended.
Interact ==
  /\ Len(log) < MaxInteractions
  /\ \E tags \in Tags :
       log' = Append(log, [at |-> now, topics |-> tags.topics, concepts |-> tags.concepts,
                           cited |-> tags.cited])
  /\ UNCHANGED <<now, ended_at, summaries, downloads, pc, job>>

CompleteSession == /\ ended_at = None /\ ended_at' = now
                   /\ UNCHANGED <<now, log, summaries, downloads, pc, job>>

-----------------------------------------------------------------------------
(* generate. *)

\* The session is read, its owner checked and the cover window fixed.
BeginGenerate(w) ==
  /\ At(w, "idle") /\ Len(summaries) < MaxSummaries
  /\ \E learner \in Learners :
       /\ learner = Owner
       /\ Read(w, "interactions",
               [NoData EXCEPT !.now = now, !.partial = ended_at = None,
                              !.through = IF ended_at = None THEN now ELSE ended_at])
  /\ UNCHANGED <<now, log, ended_at, summaries, downloads>>

\* Mutant: the whole log is read.
ReadWholeLog(w) ==
  /\ At(w, "interactions")
  /\ \/ Read(w, "citations", [job[w].data EXCEPT !.interactions_status = "unavailable"])
     \/ Read(w, "citations", [job[w].data EXCEPT !.interactions = DOMAIN log,
                !.interactions_status = IF log = <<>> THEN "empty" ELSE "available"])
  /\ UNCHANGED <<now, log, ended_at, summaries, downloads>>

\* Mutant: a source that failed had nothing.
ReadNothingOnFailure(w) ==
  /\ At(w, "interactions")
  /\ Read(w, "citations", [job[w].data EXCEPT !.interactions_status = "empty"])
  /\ UNCHANGED <<now, log, ended_at, summaries, downloads>>

\* _read_interactions: those of the window, or the failure of the source.
ReadInteractions(w) ==
  /\ At(w, "interactions")
  /\ LET d == job[w].data
         within == {i \in DOMAIN log : log[i].at <= d.through}
     IN \/ Read(w, "citations", [d EXCEPT !.interactions_status = "unavailable"])
        \/ Read(w, "citations", [d EXCEPT !.interactions = within,
             !.interactions_status = IF log = <<>> THEN "empty"
                                     ELSE IF within = DOMAIN log THEN "available" ELSE "partial"])
  /\ UNCHANGED <<now, log, ended_at, summaries, downloads>>

\* _read_citations: no window is applied.
ReadCitations(w) ==
  /\ At(w, "citations")
  /\ LET d == job[w].data
         cited == UNION {log[i].cited : i \in DOMAIN log}
     IN \/ Read(w, "gap", [d EXCEPT !.citations_status = "unavailable"])
        \/ Read(w, "gap", [d EXCEPT !.citations = cited,
             !.citations_status = IF cited = {} THEN "empty" ELSE "available"])
  /\ UNCHANGED <<now, log, ended_at, summaries, downloads>>

HasAny(S) == IF S = {} THEN "empty" ELSE "available"

\* _read_gap_report: an outage is no report, not an empty one.
ReadGapReport(w) ==
  /\ At(w, "gap")
  /\ \/ Read(w, "generate", job[w].data)
     \/ \E answer \in SUBSET Suggestions :
          Read(w, "generate", [job[w].data EXCEPT !.gap = answer, !.gap_status = HasAny(answer)])
  /\ UNCHANGED <<now, log, ended_at, summaries, downloads>>

\* _section_status and _assemble: the record, its sources and sections told.
Assembled(data, content, mode, generator) ==
  [partial |-> data.partial, through |-> data.through, content |-> content, mode |-> mode,
   questions |-> IF mode = "question_log_fallback" THEN data.interactions ELSE {},
   status |-> [interactions |-> data.interactions_status,
               citations |-> data.citations_status,
               gap_report |-> data.gap_status,
               summary_generator |-> generator,
               key_concepts |-> IF mode = "question_log_fallback" THEN "unavailable"
                                ELSE IF Cardinality(content.concepts) \in 1..(MIN_KEY_CONCEPTS - 1)
                                     THEN "partial" ELSE HasAny(content.concepts),
               resources_referenced |-> HasAny(content.resources),
               next_steps |-> HasAny(content.steps)]]

Store(w, summary) == summaries' = Append(summaries, summary) /\ End(w)

\* _generate_content, and the save: an answer that is grounded, or the
\* question log in its place, because it was refused or because none came.
GenerateAndSave(w) ==
  /\ At(w, "generate")
  /\ LET d == job[w].data
     IN \/ \E content \in GeneratedContents(d) :
             /\ check_grounding(content, d)
             /\ Store(w, Assembled(d, content, "generated", "available"))
        \/ \E content \in _question_log_content(d), generator \in {"unavailable", "invalid"} :
             Store(w, Assembled(d, content, "question_log_fallback", generator))
  /\ UNCHANGED <<now, log, ended_at, downloads>>

-----------------------------------------------------------------------------
(* export: to its owner only, as a PDF or, the renderer failing, as HTML. *)

\* Mutant: whether there is such a summary is not asked.
BeginExportOfAny(w) ==
  /\ At(w, "idle") /\ Len(downloads) < MaxDownloads
  /\ \E k \in 1..MaxSummaries : Step(w, "render", [NoJob EXCEPT !.summary = k])
  /\ UNCHANGED <<now, log, ended_at, summaries, downloads>>

BeginExport(w) ==
  /\ At(w, "idle") /\ Len(downloads) < MaxDownloads
  /\ \E k \in DOMAIN summaries, learner \in Learners :
       /\ learner = Owner
       /\ Step(w, "render", [NoJob EXCEPT !.summary = k])
  /\ UNCHANGED <<now, log, ended_at, summaries, downloads>>

Render(w) ==
  /\ At(w, "render")
  /\ \E pdf \in BOOLEAN : Step(w, "record", [job[w] EXCEPT !.pdf = pdf])
  /\ UNCHANGED <<now, log, ended_at, summaries, downloads>>

RecordDownload(w) ==
  /\ At(w, "record") /\ Len(downloads) < MaxDownloads
  /\ downloads' = Append(downloads, [summary |-> job[w].summary, pdf_available |-> job[w].pdf])
  /\ End(w)
  /\ UNCHANGED <<now, log, ended_at, summaries>>

generate(w) ==
  BeginGenerate(w) \/ ReadInteractions(w) \/ ReadCitations(w) \/ ReadGapReport(w) \/ GenerateAndSave(w)

export(w) == BeginExport(w) \/ Render(w) \/ RecordDownload(w)

Next == Tick \/ Interact \/ CompleteSession \/ \E w \in Workers : generate(w) \/ export(w)

Spec == Init /\ [][Next]_vars

-----------------------------------------------------------------------------

Covered(s) == {i \in DOMAIN log : log[i].at <= s.through}

\* A regulator can rely on a summary: whatever the generator answers and
\* however the session goes on meanwhile, each topic and its count, each key
\* point and each authority is true of the session up to the instant the
\* summary says it covers, authorities of the session (check_grounding).
DocumentIsTrue ==
  \A k \in DOMAIN summaries :
    LET s == summaries[k]
        discussed(t) == {i \in Covered(s) : t \in log[i].topics}
    IN /\ \A t \in s.content.topics : discussed(t.topic) # {} /\ t.count <= Cardinality(discussed(t.topic))
       /\ \A c \in s.content.concepts :
            /\ discussed(c.topic) # {}
            /\ c.evidence # {} /\ c.evidence \subseteq Covered(s)
            /\ \E i \in Covered(s) : c.concept \in log[i].concepts
       /\ s.content.resources \subseteq UNION {log[i].cited : i \in DOMAIN log}
       /\ s.content.steps \cap Topics \subseteq TopicsOf(s.content)
       /\ s.questions \subseteq Covered(s)

\* Nothing that happened is passed over in silence: of a log that was read, a
\* summary has all that happened before the instant it covers, in its question
\* log when nothing was generated, and no session with topics is told without
\* one (_read_interactions, _cover_window, _check_topics).
NothingLeftOut ==
  \A k \in DOMAIN summaries :
    LET s == summaries[k]
        before == {i \in DOMAIN log : log[i].at < s.through}
    IN s.status["interactions"] # "unavailable" =>
         /\ s.status["interactions"] = "empty" => before = {}
         /\ s.mode = "question_log_fallback" => before \subseteq s.questions
         /\ (\E i \in before : log[i].topics # {}) => s.content.topics # {}

\* What the shipped generator builds from the tags, the grounding check never
\* refuses: the two read the same record (_build_concepts, _build_next_steps,
\* check_grounding).
ShippedGeneratorIsGrounded ==
  \A w \in Workers :
    At(w, "generate") =>
      \A content \in DeterministicContents(job[w].data) : check_grounding(content, job[w].data)

=============================================================================
