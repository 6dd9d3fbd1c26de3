-------------------------- MODULE SessionSummaryProofs --------------------------
(***************************************************************************)
(* What TLAPS proves of UC-09, for any number of requests, any tags and    *)
(* any answers of the generator: the types, that a stored summary is true  *)
(* of the session and leaves nothing out, and that the grounding check     *)
(* never refuses what the shipped generator builds.                        *)
(***************************************************************************)
EXTENDS SessionSummary, TLAPS, FiniteSetTheorems, SequenceTheorems

-----------------------------------------------------------------------------
(* Finite sets and the log. *)

LEMMA Places ==
  ASSUME NEW S, NEW s \in Seq(S)
  PROVE  /\ Len(s) \in Nat
         /\ DOMAIN s = 1..Len(s)
         /\ \A k \in DOMAIN s : k \in Nat \ {0} /\ s[k] \in S
BY LenProperties

LEMMA AppendIs ==
  ASSUME NEW S, NEW s \in Seq(S), NEW e \in S
  PROVE  /\ Append(s, e) \in Seq(S)
         /\ Len(s) + 1 \notin DOMAIN s
         /\ DOMAIN Append(s, e) = DOMAIN s \cup {Len(s) + 1}
         /\ Append(s, e)[Len(s) + 1] = e
         /\ \A l \in DOMAIN s : Append(s, e)[l] = s[l]
<1>1. Len(s) \in Nat /\ DOMAIN s = 1..Len(s)
  BY LenProperties
<1>2. DOMAIN Append(s, e) = 1..(Len(s) + 1)
  BY AppendProperties, LenProperties
<1>3. 1..(Len(s) + 1) = 1..Len(s) \cup {Len(s) + 1} /\ Len(s) + 1 \notin 1..Len(s)
  BY <1>1
<1> QED BY <1>1, <1>2, <1>3, AppendProperties

\* Sets of interactions are finite, and a part has no more than the whole.
LEMMA FewerAreFewer ==
  ASSUME NEW n \in Nat, NEW S \in SUBSET (1..n), NEW T \in SUBSET S
  PROVE  /\ IsFiniteSet(S) /\ IsFiniteSet(T)
         /\ Cardinality(S) \in Nat /\ Cardinality(T) \in Nat
         /\ Cardinality(T) <= Cardinality(S)
<1>1. IsFiniteSet(1..n)
  BY FS_Interval
<1>2. IsFiniteSet(S)
  BY <1>1, FS_Subset
<1> QED BY <1>2, FS_Subset, FS_CardinalityType

\* UpTo takes at most max, and all when there are no more.
LEMMA UpToIs ==
  ASSUME NEW max \in Nat, NEW S, IsFiniteSet(S), NEW T \in UpTo(max, S)
  PROVE  /\ T \in SUBSET S /\ IsFiniteSet(T)
         /\ Cardinality(T) \in Nat /\ Cardinality(T) <= max
<1>1. T \in SUBSET S /\ Cardinality(T) = IF Cardinality(S) < max THEN Cardinality(S) ELSE max
  BY DEF UpTo, kSubset
<1>2. IsFiniteSet(T)
  BY <1>1, FS_Subset
<1>3. Cardinality(S) \in Nat /\ Cardinality(T) \in Nat
  BY <1>2, FS_CardinalityType
<1> QED BY <1>1, <1>2, <1>3

-----------------------------------------------------------------------------
(* Types. *)

LogTyped == now \in Nat /\ log \in Seq(InteractionRecord) /\ ended_at \in Nat \cup {None}

Requests == [data : SessionData, summary : Nat, pdf : BOOLEAN]

JobsTyped ==
  /\ pc \in [Workers -> PC]
  /\ job \in [Workers -> Requests]
  /\ \A w \in Workers : pc[w] \in {"render", "record"} => job[w].summary \in DOMAIN summaries

LEMMA NoJobTyped == NoJob \in Requests /\ NoData \in SessionData
BY DEF NoJob, NoData, Requests, SessionData, SourceStatus

LEMMA LogIs ==
  ASSUME LogTyped
  PROVE  /\ Len(log) \in Nat /\ DOMAIN log = 1..Len(log)
         /\ \A i \in DOMAIN log : /\ i \in Ids /\ log[i] \in InteractionRecord
                                  /\ log[i].at \in Nat /\ log[i].topics \in SUBSET Topics
                                  /\ log[i].concepts \in SUBSET Concepts
                                  /\ log[i].cited \in SUBSET Authorities
<1>1. \A i \in DOMAIN log : i \in Nat \ {0} /\ log[i] \in InteractionRecord
  BY Places DEF LogTyped
<1>2. Len(log) \in Nat /\ DOMAIN log = 1..Len(log)
  BY Places DEF LogTyped
<1> QED BY <1>1, <1>2 DEF InteractionRecord, Ids

\* What a request may have read: interactions of the log, suggestions.
LEMMA DataIs ==
  ASSUME LogTyped, NEW d \in SessionData, d.interactions \subseteq DOMAIN log
  PROVE  /\ topic_ids(d) \in SUBSET Topics /\ IsFiniteSet(topic_ids(d))
         /\ concept_ids(d) \in SUBSET Concepts /\ IsFiniteSet(concept_ids(d))
         /\ d.gap \in SUBSET Suggestions /\ IsFiniteSet(d.gap)
         /\ d.interactions \in SUBSET (1..Len(log))
<1>1. topic_ids(d) \in SUBSET Topics
  BY LogIs DEF topic_ids
<1>2. concept_ids(d) \in SUBSET Concepts
  BY LogIs DEF concept_ids
<1>3. d.gap \in SUBSET Suggestions
  BY DEF SessionData
<1>4. d.interactions \in SUBSET (1..Len(log))
  BY LogIs
<1> QED BY <1>1, <1>2, <1>3, <1>4, FiniteAssumption, FS_Subset

-----------------------------------------------------------------------------
(* The shipped generator builds what the grounding check accepts. *)

LEMMA TopicsGrounded ==
  ASSUME NEW d, NEW content, content.topics = TopicSection(d)
  PROVE  TopicsOf(content) = topic_ids(d) /\ _check_topics(content, d)
<1>1. TopicsOf(content) = topic_ids(d)
  <2>1. \A t \in content.topics : t.topic \in topic_ids(d)
    BY DEF TopicSection
  <2>2. \A t \in topic_ids(d) : \E e \in content.topics : e.topic = t
    <3> TAKE t \in topic_ids(d)
    <3> DEFINE e == [topic |-> t, count |-> Cardinality(interactions_for_topic(t, d))]
    <3>1. e \in content.topics /\ e.topic = t
      BY DEF TopicSection
    <3> HIDE DEF e
    <3> QED BY <3>1
  <2>3. \A t : t \in TopicsOf(content) <=> \E e \in content.topics : e.topic = t
    BY DEF TopicsOf
  <2> QED BY <2>1, <2>2, <2>3
<1>2. \A t \in content.topics : t.count = Cardinality(interactions_for_topic(t.topic, d))
  BY DEF TopicSection
<1>3. topic_ids(d) # {} => content.topics # {}
  BY DEF TopicSection
<1> QED BY <1>1, <1>2, <1>3 DEF _check_topics

LEMMA ConceptsGrounded ==
  ASSUME LogTyped, NEW d \in SessionData, d.interactions \subseteq DOMAIN log,
         NEW content, TopicsOf(content) = topic_ids(d),
         content.concepts \in ConceptSections(d)
  PROVE  /\ _check_concepts(content, d)
         /\ \A c \in content.concepts : c.evidence # {}
         /\ content.concepts \in SUBSET Concept
<1> DEFINE support(c) == interactions_for_concept(c, d)
           topics(c) == UNION {log[i].topics : i \in support(c)}
           candidates == {c \in concept_ids(d) : topics(c) # {}}
           point(c, t) == [concept |-> c, topic |-> t, evidence |-> support(c)]
<1>1. PICK S \in UpTo(MAX_KEY_CONCEPTS, candidates) :
        \E owning \in [S -> Topics] :
          /\ \A c \in S : owning[c] \in topics(c)
          /\ content.concepts = {point(c, owning[c]) : c \in S}
  <2> DEFINE chosen == {S \in UpTo(MAX_KEY_CONCEPTS, candidates) :
                          \A c \in S : \A e \in candidates \ S :
                            Cardinality(support(c)) >= Cardinality(support(e))}
             owners(S) == {g \in [S -> Topics] : \A c \in S : g[c] \in topics(c)}
             built(S) == {{point(c, owning[c]) : c \in S} : owning \in owners(S)}
  <2>1. content.concepts \in UNION {built(S) : S \in chosen}
    BY Zenon DEF ConceptSections
  <2>2. chosen \subseteq UpTo(MAX_KEY_CONCEPTS, candidates)
    OBVIOUS
  <2>3. ASSUME NEW S \in chosen, content.concepts \in built(S)
        PROVE  \E owning \in [S -> Topics] :
                 /\ \A c \in S : owning[c] \in topics(c)
                 /\ content.concepts = {point(c, owning[c]) : c \in S}
    <3> HIDE DEF chosen, point, topics
    <3>1. PICK owning \in owners(S) : content.concepts = {point(c, owning[c]) : c \in S}
      BY <2>3
    <3> QED BY <3>1
  <2> HIDE DEF chosen, built, candidates, point, topics
  <2> QED BY <2>1, <2>2, <2>3
<1>2. PICK owning \in [S -> Topics] :
        /\ \A c \in S : owning[c] \in topics(c)
        /\ content.concepts = {point(c, owning[c]) : c \in S}
  BY <1>1
<1>3. IsFiniteSet(candidates)
  <2>1. IsFiniteSet(concept_ids(d))
    BY DataIs
  <2>2. candidates \subseteq concept_ids(d)
    OBVIOUS
  <2> HIDE DEF candidates
  <2> QED BY <2>1, <2>2, FS_Subset
<1>4. /\ S \in SUBSET candidates /\ IsFiniteSet(S)
      /\ Cardinality(S) \in Nat /\ Cardinality(S) <= MAX_KEY_CONCEPTS
  <2> HIDE DEF candidates
  <2> QED BY <1>1, <1>3, UpToIs, SectionAssumption
<1>5. \A c \in S : /\ c \in concept_ids(d) /\ owning[c] \in topic_ids(d)
                   /\ support(c) # {} /\ support(c) \subseteq d.interactions
  BY <1>2, <1>4 DEF concept_ids, topic_ids, interactions_for_concept
<1> DEFINE f == [c \in S |-> point(c, owning[c])]
<1>6. f \in Bijection(S, content.concepts)
  <2>1. f \in [S -> content.concepts]
    BY <1>2
  <2>2. \A c, e \in S : f[c] = f[e] => c = e
    <3> TAKE c, e \in S
    <3>1. f[c].concept = c /\ f[e].concept = e
      OBVIOUS
    <3> HIDE DEF f
    <3> QED BY <3>1
  <2>3. \A p \in content.concepts : \E c \in S : f[c] = p
    BY <1>2
  <2> HIDE DEF f
  <2>4. f \in Injection(S, content.concepts)
    BY <2>1, <2>2 DEF Injection, IsInjective
  <2>5. f \in Surjection(S, content.concepts)
    BY <2>1, <2>3 DEF Surjection
  <2> QED BY <2>4, <2>5 DEF Bijection
<1>7. Cardinality(content.concepts) = Cardinality(S)
  <2>1. ExistsBijection(S, content.concepts)
    <3> HIDE DEF f
    <3> QED BY <1>6 DEF ExistsBijection
  <2> QED BY <1>4, <2>1, FS_Bijection
<1>8. {c.concept : c \in content.concepts} = S
  <2>1. \A p \in content.concepts : p.concept \in S
    BY <1>2
  <2>2. \A c \in S : \E p \in content.concepts : p.concept = c
    <3> TAKE c \in S
    <3>1. point(c, owning[c]) \in content.concepts /\ point(c, owning[c]).concept = c
      BY <1>2
    <3> QED BY <3>1
  <2> QED BY <2>1, <2>2
<1>9. \A p \in content.concepts :
        /\ p.concept \in concept_ids(d) /\ p.topic \in topic_ids(d)
        /\ p.evidence # {} /\ p.evidence \subseteq d.interactions
  <2> HIDE DEF support, topics, candidates
  <2> QED BY <1>2, <1>5
<1>10. content.concepts \in SUBSET Concept
  <2>1. \A c \in S : c \in Concepts /\ owning[c] \in Topics /\ support(c) \in SUBSET Ids
    <3>1. concept_ids(d) \in SUBSET Concepts /\ d.interactions \in SUBSET Ids
      BY DataIs, LogIs
    <3> HIDE DEF support, topics, candidates
    <3> QED BY <1>5, <3>1
  <2> HIDE DEF support, topics, candidates
  <2> QED BY <1>2, <2>1 DEF Concept
<1> QED BY <1>4, <1>7, <1>8, <1>9, <1>10 DEF _check_concepts

LEMMA StepsGrounded ==
  ASSUME LogTyped, NEW d \in SessionData, d.interactions \subseteq DOMAIN log,
         NEW content, TopicsOf(content) = topic_ids(d), content.steps \in StepSections(d)
  PROVE  _check_next_steps(content, d) /\ content.steps \in SUBSET (Suggestions \cup Topics)
<1> DEFINE missing(S) == IF Cardinality(S) < MIN_NEXT_STEPS
                         THEN MIN_NEXT_STEPS - Cardinality(S) ELSE 0
<1>1. PICK S \in UpTo(MAX_NEXT_STEPS, d.gap) :
        \E T \in UpTo(missing(S), topic_ids(d)) : content.steps = S \cup T
  BY DEF StepSections
<1>2. PICK T \in UpTo(missing(S), topic_ids(d)) : content.steps = S \cup T
  BY <1>1
<1>3. /\ S \in SUBSET d.gap /\ IsFiniteSet(S)
      /\ Cardinality(S) \in Nat /\ Cardinality(S) <= MAX_NEXT_STEPS
  BY <1>1, DataIs, UpToIs, SectionAssumption
<1>4. missing(S) \in Nat
  BY <1>3, SectionAssumption
<1>5. /\ T \in SUBSET topic_ids(d) /\ IsFiniteSet(T)
      /\ Cardinality(T) \in Nat /\ Cardinality(T) <= missing(S)
  <2> HIDE DEF missing
  <2> QED BY <1>2, <1>4, DataIs, UpToIs
<1>6. Cardinality(S \cup T) <= MAX_NEXT_STEPS
  <2>1. Cardinality(S \cup T) = Cardinality(S) + Cardinality(T) - Cardinality(S \cap T)
    BY <1>3, <1>5, FS_Union
  <2>2. Cardinality(S \cap T) \in Nat
    BY <1>3, FS_Intersection, FS_CardinalityType
  <2>3. Cardinality(S \cup T) <= Cardinality(S) + Cardinality(T)
    BY <1>3, <1>5, <2>1, <2>2
  <2> QED BY <1>3, <1>5, <2>1, <2>2, SectionAssumption
<1>7. d.gap \in SUBSET Suggestions /\ topic_ids(d) \in SUBSET Topics
  BY DataIs
<1>8. (S \cup T) \cap Suggestions \subseteq d.gap /\ (S \cup T) \cap Topics \subseteq topic_ids(d)
  BY <1>3, <1>5, <1>7, KindAssumption
<1> QED BY <1>2, <1>3, <1>5, <1>6, <1>7, <1>8 DEF _check_next_steps

LEMMA BuiltIsGrounded ==
  ASSUME LogTyped, NEW d \in SessionData, d.interactions \subseteq DOMAIN log,
         NEW content \in DeterministicContents(d)
  PROVE  /\ check_grounding(content, d)
         /\ content.topics = TopicSection(d) /\ content.resources = d.citations
         /\ content.concepts \in ConceptSections(d) /\ content.steps \in StepSections(d)
         /\ content = [topics |-> content.topics, concepts |-> content.concepts,
                       resources |-> content.resources, steps |-> content.steps]
<1>1. PICK concepts \in ConceptSections(d), steps \in StepSections(d) :
        content = [topics |-> TopicSection(d), concepts |-> concepts,
                   resources |-> d.citations, steps |-> steps]
  BY DEF DeterministicContents
<1>2. /\ content.topics = TopicSection(d) /\ content.concepts \in ConceptSections(d)
      /\ content.resources = d.citations /\ content.steps \in StepSections(d)
  BY <1>1
<1>3. TopicsOf(content) = topic_ids(d) /\ _check_topics(content, d)
  BY <1>2, TopicsGrounded
<1>4. _check_concepts(content, d) /\ _check_next_steps(content, d)
  BY <1>2, <1>3, ConceptsGrounded, StepsGrounded
<1> QED BY <1>1, <1>2, <1>3, <1>4 DEF check_grounding, _check_resources


\* The sections that need no generation are true and full, too.
LEMMA QuestionLogIs ==
  ASSUME LogTyped, NEW d \in SessionData, d.interactions \subseteq DOMAIN log,
         NEW content \in _question_log_content(d)
  PROVE  /\ content.topics = TopicSection(d) /\ content.concepts = {}
         /\ content.resources = d.citations /\ content.steps \in SUBSET d.gap
         /\ content \in SummaryContent
<1>1. PICK steps \in UpTo(MAX_NEXT_STEPS, d.gap) :
        content = [topics |-> TopicSection(d), concepts |-> {},
                   resources |-> d.citations, steps |-> steps]
  BY DEF _question_log_content
<1>2. steps \in SUBSET d.gap
  BY DataIs, UpToIs, SectionAssumption
<1>3. TopicSection(d) \in SUBSET Topic
  <2>1. \A t \in topic_ids(d) :
          t \in Topics /\ Cardinality(interactions_for_topic(t, d)) \in Nat
    <3> TAKE t \in topic_ids(d)
    <3>1. interactions_for_topic(t, d) \in SUBSET (1..Len(log)) /\ Len(log) \in Nat
      BY DataIs, LogIs DEF interactions_for_topic
    <3> QED BY <3>1, DataIs, FewerAreFewer
  <2> QED BY <2>1 DEF TopicSection, Topic
<1>4. d.citations \in SUBSET Authorities /\ d.gap \in SUBSET Suggestions
  BY DEF SessionData
<1> HIDE DEF TopicSection
<1> QED BY <1>1, <1>2, <1>3, <1>4 DEF SummaryContent

LEMMA BuiltTyped ==
  ASSUME LogTyped, NEW d \in SessionData, d.interactions \subseteq DOMAIN log,
         NEW content \in DeterministicContents(d)
  PROVE  content \in SummaryContent /\ \A c \in content.concepts : c.evidence # {}
<1>1. /\ content.topics = TopicSection(d) /\ content.resources = d.citations
      /\ content.concepts \in ConceptSections(d) /\ content.steps \in StepSections(d)
      /\ content = [topics |-> content.topics, concepts |-> content.concepts,
                    resources |-> content.resources, steps |-> content.steps]
  BY BuiltIsGrounded
<1>2. TopicsOf(content) = topic_ids(d)
  BY <1>1, TopicsGrounded
<1>3. content.concepts \in SUBSET Concept /\ \A c \in content.concepts : c.evidence # {}
  BY <1>1, <1>2, ConceptsGrounded
<1>4. content.steps \in SUBSET (Suggestions \cup Topics)
  BY <1>1, <1>2, StepsGrounded
<1>5. content.resources \in SUBSET Authorities
  BY <1>1 DEF SessionData
<1>6. content.topics \in SUBSET Topic
  <2>1. \A t \in topic_ids(d) :
          t \in Topics /\ Cardinality(interactions_for_topic(t, d)) \in Nat
    <3> TAKE t \in topic_ids(d)
    <3>1. interactions_for_topic(t, d) \in SUBSET (1..Len(log)) /\ Len(log) \in Nat
      BY DataIs, LogIs DEF interactions_for_topic
    <3> QED BY <3>1, DataIs, FewerAreFewer
  <2> QED BY <1>1, <2>1 DEF TopicSection, Topic
<1> HIDE DEF TopicSection
<1> QED BY <1>1, <1>3, <1>4, <1>5, <1>6 DEF SummaryContent

\* What one section of an answer may be, GeneratedContents' local definitions.
Counts == {[topic |-> t, count |-> n] : t \in Topics, n \in 1..2}
Points == {[concept |-> c, topic |-> t, evidence |-> {i}] :
             c \in Concepts, t \in Topics, i \in 1..(Len(log) + 1)}
Few(S) == {{}} \cup {{x, y} : x \in S, y \in S}

OneSectionOf(built) ==
       {[built EXCEPT !.topics = S] : S \in Few(Counts)}
  \cup {[built EXCEPT !.concepts = S] : S \in Few(Points)}
  \cup {[built EXCEPT !.resources = S] : S \in SUBSET Authorities}
  \cup {[built EXCEPT !.steps = S] : S \in Few(Suggestions \cup Topics)}

LEMMA GeneratedIs ==
  ASSUME NEW d
  PROVE  GeneratedContents(d) = UNION {OneSectionOf(built) : built \in DeterministicContents(d)}
BY DEF GeneratedContents, OneSectionOf, Counts, Points, Few

\* An answer of the generator is a summary's sections, and each of its key
\* points comes with evidence, true or not.
LEMMA GeneratedTyped ==
  ASSUME LogTyped, NEW d \in SessionData, d.interactions \subseteq DOMAIN log,
         NEW content \in GeneratedContents(d)
  PROVE  content \in SummaryContent /\ \A c \in content.concepts : c.evidence # {}
<1>0. PICK built \in DeterministicContents(d) : content \in OneSectionOf(built)
  BY GeneratedIs
<1>1. \/ \E S \in Few(Counts) : content = [built EXCEPT !.topics = S]
      \/ \E S \in Few(Points) : content = [built EXCEPT !.concepts = S]
      \/ \E S \in SUBSET Authorities : content = [built EXCEPT !.resources = S]
      \/ \E S \in Few(Suggestions \cup Topics) : content = [built EXCEPT !.steps = S]
  BY <1>0 DEF OneSectionOf
<1>2. built \in SummaryContent /\ \A c \in built.concepts : c.evidence # {}
  BY BuiltTyped
<1>3. Counts \in SUBSET Topic
  BY DEF Topic, Counts
<1>4. Points \in SUBSET Concept /\ \A c \in Points : c.evidence # {}
  <2>1. \A i \in 1..(Len(log) + 1) : i \in Ids
    BY LogIs DEF Ids
  <2>2. ASSUME NEW p \in Points PROVE p \in Concept /\ p.evidence # {}
    <3>1. PICK c \in Concepts, t \in Topics, i \in 1..(Len(log) + 1) :
            p = [concept |-> c, topic |-> t, evidence |-> {i}]
      BY DEF Points
    <3>2. {i} \in SUBSET Ids
      BY <2>1
    <3> QED BY <3>1, <3>2 DEF Concept
  <2> QED BY <2>2
<1>5. \A T : \A S \in Few(T) : S \in SUBSET T
  BY DEF Few
<1>6. ASSUME NEW S \in SUBSET Topic, content = [built EXCEPT !.topics = S]
      PROVE  content \in SummaryContent /\ content.concepts = built.concepts
  BY <1>2, <1>6 DEF SummaryContent
<1>7. ASSUME NEW S \in SUBSET Concept, content = [built EXCEPT !.concepts = S]
      PROVE  content \in SummaryContent /\ content.concepts = S
  BY <1>2, <1>7 DEF SummaryContent
<1>8. ASSUME NEW S \in SUBSET Authorities, content = [built EXCEPT !.resources = S]
      PROVE  content \in SummaryContent /\ content.concepts = built.concepts
  BY <1>2, <1>8 DEF SummaryContent
<1>9. ASSUME NEW S \in SUBSET (Suggestions \cup Topics), content = [built EXCEPT !.steps = S]
      PROVE  content \in SummaryContent /\ content.concepts = built.concepts
  BY <1>2, <1>9 DEF SummaryContent
<1>10. CASE \E S \in Few(Counts) : content = [built EXCEPT !.topics = S]
  <2>1. PICK S \in Few(Counts) : content = [built EXCEPT !.topics = S]
    BY <1>10
  <2>2. S \in SUBSET Topic
    BY <1>3, <1>5
  <2> QED BY <1>2, <1>6, <2>1, <2>2
<1>11. CASE \E S \in Few(Points) : content = [built EXCEPT !.concepts = S]
  <2>1. PICK S \in Few(Points) : content = [built EXCEPT !.concepts = S]
    BY <1>11
  <2>2. S \in SUBSET Points
    BY <1>5
  <2> QED BY <1>4, <1>7, <2>1, <2>2
<1>12. CASE \E S \in SUBSET Authorities : content = [built EXCEPT !.resources = S]
  BY <1>2, <1>8, <1>12
<1>13. CASE \E S \in Few(Suggestions \cup Topics) : content = [built EXCEPT !.steps = S]
  <2>1. PICK S \in Few(Suggestions \cup Topics) : content = [built EXCEPT !.steps = S]
    BY <1>13
  <2>2. S \in SUBSET (Suggestions \cup Topics)
    BY <1>5
  <2> QED BY <1>2, <1>9, <2>1, <2>2
<1> QED BY <1>1, <1>10, <1>11, <1>12, <1>13

LEMMA AssembledTyped ==
  ASSUME NEW d \in SessionData, NEW content \in SummaryContent, NEW mode \in GenerationMode,
         NEW generator \in SourceStatus
  PROVE  /\ Assembled(d, content, mode, generator) \in SummaryRecord
         /\ Assembled(d, content, mode, generator).content = content
         /\ Assembled(d, content, mode, generator).through = d.through
         /\ Assembled(d, content, mode, generator).mode = mode
         /\ Assembled(d, content, mode, generator).questions =
              IF mode = "question_log_fallback" THEN d.interactions ELSE {}
         /\ Assembled(d, content, mode, generator).status["interactions"] = d.interactions_status
<1> DEFINE key == IF mode = "question_log_fallback" THEN "unavailable"
                  ELSE IF Cardinality(content.concepts) \in 1..(MIN_KEY_CONCEPTS - 1)
                       THEN "partial" ELSE HasAny(content.concepts)
           status == [interactions |-> d.interactions_status,
                      citations |-> d.citations_status,
                      gap_report |-> d.gap_status,
                      summary_generator |-> generator,
                      key_concepts |-> key,
                      resources_referenced |-> HasAny(content.resources),
                      next_steps |-> HasAny(content.steps)]
           questions == IF mode = "question_log_fallback" THEN d.interactions ELSE {}
           s == [partial |-> d.partial, through |-> d.through, content |-> content,
                 mode |-> mode, questions |-> questions, status |-> status]
<1>1. \A S : HasAny(S) \in SourceStatus
  BY DEF HasAny, SourceStatus
<1>2. key \in SourceStatus
  BY <1>1 DEF SourceStatus
<1> HIDE DEF key
<1>3. /\ d.interactions_status \in SourceStatus /\ d.citations_status \in SourceStatus
      /\ d.gap_status \in SourceStatus /\ d.interactions \in SUBSET Ids
      /\ d.partial \in BOOLEAN /\ d.through \in Nat
  BY DEF SessionData
<1>4. status \in [{"interactions", "citations", "gap_report", "summary_generator",
                   "key_concepts", "resources_referenced", "next_steps"} -> SourceStatus]
  BY <1>1, <1>2, <1>3
<1>5. status["interactions"] = d.interactions_status
  OBVIOUS
<1>6. questions \in SUBSET Ids
  BY <1>3
<1>7. Assembled(d, content, mode, generator) = s
  BY DEF Assembled, key
<1> HIDE DEF status, questions
<1>8. s \in SummaryRecord
  BY <1>3, <1>4, <1>6 DEF SummaryRecord
<1>9. questions = IF mode = "question_log_fallback" THEN d.interactions ELSE {}
  BY DEF questions
<1> QED BY <1>5, <1>7, <1>8, <1>9


-----------------------------------------------------------------------------
(* What a request has read, and what a summary says, of a log that grows:  *)
(* what is appended is no earlier than any instant already covered.        *)

Within(lg, t) == {i \in DOMAIN lg : lg[i].at <= t}
Before(lg, t) == {i \in DOMAIN lg : lg[i].at < t}
CitedIn(lg) == UNION {lg[i].cited : i \in DOMAIN lg}
Discussing(lg, t, topic) == {i \in Within(lg, t) : topic \in lg[i].topics}

LogPast(t, lg, end) ==
  /\ \A i \in DOMAIN lg : lg[i].at <= t
  /\ end # None => end <= t

DataOK(d, label, t, lg) ==
  /\ d.through <= t
  /\ d.interactions \subseteq Within(lg, d.through)
  /\ d.citations \subseteq CitedIn(lg)
  /\ (label \in {"citations", "gap", "generate"} /\ d.interactions_status # "unavailable") =>
       /\ Before(lg, d.through) \subseteq d.interactions
       /\ d.interactions_status = "empty" => Before(lg, d.through) = {}

TrueOf(s, lg) ==
  /\ \A t \in s.content.topics :
       /\ Discussing(lg, s.through, t.topic) # {}
       /\ t.count <= Cardinality(Discussing(lg, s.through, t.topic))
  /\ \A c \in s.content.concepts :
       /\ Discussing(lg, s.through, c.topic) # {}
       /\ c.evidence # {} /\ c.evidence \subseteq Within(lg, s.through)
       /\ \E i \in Within(lg, s.through) : c.concept \in lg[i].concepts
  /\ s.content.resources \subseteq CitedIn(lg)
  /\ s.content.steps \cap Topics \subseteq TopicsOf(s.content)
  /\ s.questions \subseteq Within(lg, s.through)

WholeOf(s, lg) ==
  s.status["interactions"] # "unavailable" =>
    /\ s.status["interactions"] = "empty" => Before(lg, s.through) = {}
    /\ s.mode = "question_log_fallback" => Before(lg, s.through) \subseteq s.questions
    /\ (\E i \in Before(lg, s.through) : lg[i].topics # {}) => s.content.topics # {}

SummaryOK(s, t, lg) == s.through <= t /\ TrueOf(s, lg) /\ WholeOf(s, lg)

RequestOK(j, label, t, lg, ss) ==
  /\ DataOK(j.data, label, t, lg)
  /\ label \in {"render", "record"} => j.summary \in DOMAIN ss

RequestsOK ==
  /\ pc \in [Workers -> PC]
  /\ job \in [Workers -> Requests]
  /\ \A w \in Workers : RequestOK(job[w], pc[w], now, log, summaries)

SummariesOK == \A k \in DOMAIN summaries : SummaryOK(summaries[k], now, log)

StoresTyped ==
  /\ summaries \in Seq(SummaryRecord)
  /\ downloads \in Seq(DownloadEvent)
  /\ \A k \in DOMAIN downloads : downloads[k].summary \in DOMAIN summaries

Inv == LogTyped /\ LogPast(now, log, ended_at) /\ StoresTyped /\ RequestsOK /\ SummariesOK

LEMMA WindowGrows ==
  ASSUME LogTyped, NEW r \in InteractionRecord, r.at = now, NEW t \in Nat, t <= now
  PROVE  LET new == Append(log, r)
         IN /\ Before(new, t) = Before(log, t)
            /\ Within(log, t) \subseteq Within(new, t)
            /\ CitedIn(log) \subseteq CitedIn(new)
            /\ \A i \in DOMAIN log : new[i] = log[i]
            /\ \A topic : Discussing(log, t, topic) \subseteq Discussing(new, t, topic)
            /\ \A topic : Discussing(new, t, topic) \in SUBSET (1..(Len(log) + 1))
            /\ Len(log) + 1 \in Nat
<1> DEFINE new == Append(log, r)
           n == Len(log) + 1
<1>1. /\ n \notin DOMAIN log /\ DOMAIN new = DOMAIN log \cup {n} /\ new[n] = r
      /\ \A i \in DOMAIN log : new[i] = log[i]
  BY AppendIs DEF LogTyped
<1>2. n \in Nat /\ DOMAIN log = 1..Len(log) /\ Len(log) \in Nat /\ now \in Nat
  BY LogIs DEF LogTyped
<1>3. DOMAIN new = 1..(Len(log) + 1)
  BY <1>1, <1>2
<1> HIDE DEF new, n
<1>4. ~ (r.at < t)
  BY <1>2
<1>5. Before(new, t) = Before(log, t)
  BY <1>1, <1>4 DEF Before
<1>6. Within(log, t) \subseteq Within(new, t)
  BY <1>1 DEF Within
<1>7. CitedIn(log) \subseteq CitedIn(new)
  <2> SUFFICES ASSUME NEW a \in CitedIn(log) PROVE a \in CitedIn(new)
    OBVIOUS
  <2>1. PICK i \in DOMAIN log : a \in log[i].cited
    BY DEF CitedIn
  <2>2. i \in DOMAIN new /\ a \in new[i].cited
    BY <1>1, <2>1
  <2> QED BY <2>2 DEF CitedIn
<1>8. \A topic : Discussing(log, t, topic) \subseteq Discussing(new, t, topic)
  BY <1>1, <1>6 DEF Discussing, Within
<1>9. \A topic : Discussing(new, t, topic) \in SUBSET (1..(Len(log) + 1))
  BY <1>3 DEF Discussing, Within
<1> QED BY <1>1, <1>2, <1>5, <1>6, <1>7, <1>8, <1>9 DEF new, n

LEMMA DataGrows ==
  ASSUME LogTyped, NEW r \in InteractionRecord, r.at = now,
         NEW d \in SessionData, NEW label, DataOK(d, label, now, log)
  PROVE  DataOK(d, label, now, Append(log, r))
<1>1. d.through \in Nat /\ d.through <= now
  BY DEF DataOK, SessionData
<1>2. /\ Before(Append(log, r), d.through) = Before(log, d.through)
      /\ Within(log, d.through) \subseteq Within(Append(log, r), d.through)
      /\ CitedIn(log) \subseteq CitedIn(Append(log, r))
  BY <1>1, WindowGrows
<1> QED BY <1>2 DEF DataOK

LEMMA SummaryGrows ==
  ASSUME LogTyped, NEW r \in InteractionRecord, r.at = now,
         NEW s \in SummaryRecord, SummaryOK(s, now, log)
  PROVE  SummaryOK(s, now, Append(log, r))
<1> DEFINE new == Append(log, r)
           t == s.through
<1>1. t \in Nat /\ t <= now /\ s.content \in SummaryContent
  BY DEF SummaryOK, SummaryRecord
<1>2. /\ Before(new, t) = Before(log, t)
      /\ Within(log, t) \subseteq Within(new, t)
      /\ CitedIn(log) \subseteq CitedIn(new)
      /\ \A i \in DOMAIN log : new[i] = log[i]
      /\ \A topic : Discussing(log, t, topic) \subseteq Discussing(new, t, topic)
      /\ \A topic : Discussing(new, t, topic) \in SUBSET (1..(Len(log) + 1))
      /\ Len(log) + 1 \in Nat
  BY <1>1, WindowGrows
<1> HIDE DEF new, t
<1>3. \A topic : /\ Cardinality(Discussing(log, t, topic)) \in Nat
                 /\ Cardinality(Discussing(new, t, topic)) \in Nat
                 /\ Cardinality(Discussing(log, t, topic))
                      <= Cardinality(Discussing(new, t, topic))
  BY <1>2, FewerAreFewer
<1>4. \A e \in s.content.topics : e.count \in Nat
  BY <1>1 DEF SummaryContent, Topic
<1>5. \A i \in Within(log, t) : i \in Within(new, t) /\ new[i] = log[i]
  BY <1>2 DEF Within
<1>6. TrueOf(s, log) /\ WholeOf(s, log)
  BY DEF SummaryOK
<1>7. \A e \in s.content.topics :
        /\ Discussing(new, t, e.topic) # {}
        /\ e.count <= Cardinality(Discussing(new, t, e.topic))
  <2> TAKE e \in s.content.topics
  <2>1. /\ Discussing(log, t, e.topic) # {}
        /\ e.count <= Cardinality(Discussing(log, t, e.topic))
    BY <1>6 DEF TrueOf, t
  <2>2. Discussing(log, t, e.topic) \subseteq Discussing(new, t, e.topic)
    BY <1>2
  <2>3. /\ Cardinality(Discussing(log, t, e.topic)) \in Nat
        /\ Cardinality(Discussing(new, t, e.topic)) \in Nat
        /\ Cardinality(Discussing(log, t, e.topic))
             <= Cardinality(Discussing(new, t, e.topic))
    BY <1>3
  <2> QED BY <1>4, <2>1, <2>2, <2>3
<1>8. \A c \in s.content.concepts :
        /\ Discussing(new, t, c.topic) # {}
        /\ c.evidence # {} /\ c.evidence \subseteq Within(new, t)
        /\ \E i \in Within(new, t) : c.concept \in new[i].concepts
  <2> TAKE c \in s.content.concepts
  <2>1. /\ Discussing(log, t, c.topic) # {}
        /\ c.evidence # {} /\ c.evidence \subseteq Within(log, t)
        /\ \E i \in Within(log, t) : c.concept \in log[i].concepts
    BY <1>6 DEF TrueOf, t
  <2>2. Discussing(log, t, c.topic) \subseteq Discussing(new, t, c.topic)
    BY <1>2
  <2> QED BY <1>2, <1>5, <2>1, <2>2
<1>9. TrueOf(s, new)
  BY <1>2, <1>6, <1>7, <1>8 DEF TrueOf, t
<1>10. \A i \in Before(log, t) : new[i] = log[i]
  BY <1>2 DEF Before
<1>11. WholeOf(s, new)
  BY <1>2, <1>6, <1>10 DEF WholeOf, t
<1> QED BY <1>1, <1>9, <1>11 DEF SummaryOK, t, new

-----------------------------------------------------------------------------
(* A summary that is saved is true and whole. *)

LEMMA ReadIsWithin ==
  ASSUME LogTyped, NEW d \in SessionData, NEW label, DataOK(d, label, now, log)
  PROVE  d.interactions \subseteq DOMAIN log
BY DEF DataOK, Within

LEMMA SavedIsOK ==
  ASSUME LogTyped, NEW d \in SessionData, DataOK(d, "generate", now, log),
         NEW content \in SummaryContent,
         TopicsOf(content) \subseteq topic_ids(d),
         \A t \in content.topics : t.count = Cardinality(interactions_for_topic(t.topic, d)),
         topic_ids(d) # {} => content.topics # {},
         \A c \in content.concepts :
           /\ c.concept \in concept_ids(d) /\ c.topic \in topic_ids(d)
           /\ c.evidence # {} /\ c.evidence \subseteq d.interactions,
         content.resources \subseteq d.citations,
         content.steps \cap Topics \subseteq TopicsOf(content),
         NEW mode \in GenerationMode, NEW generator \in SourceStatus
  PROVE  SummaryOK(Assembled(d, content, mode, generator), now, log)
<1> DEFINE s == Assembled(d, content, mode, generator)
           through == d.through
<1>1. /\ s.content = content /\ s.through = through /\ s.mode = mode
      /\ s.questions = IF mode = "question_log_fallback" THEN d.interactions ELSE {}
      /\ s.status["interactions"] = d.interactions_status
  BY AssembledTyped
<1>2. /\ through <= now /\ d.interactions \subseteq Within(log, through)
      /\ d.citations \subseteq CitedIn(log)
      /\ d.interactions_status # "unavailable" =>
           /\ Before(log, through) \subseteq d.interactions
           /\ d.interactions_status = "empty" => Before(log, through) = {}
  BY DEF DataOK
<1> HIDE DEF s, through
<1>3. \A t \in topic_ids(d) : Discussing(log, through, t) # {}
  <2> TAKE t \in topic_ids(d)
  <2>1. PICK i \in d.interactions : t \in log[i].topics
    BY DEF topic_ids
  <2>2. i \in Discussing(log, through, t)
    BY <1>2, <2>1 DEF Discussing
  <2> QED BY <2>2
<1>4. \A t : /\ Cardinality(interactions_for_topic(t, d)) \in Nat
             /\ Cardinality(Discussing(log, through, t)) \in Nat
             /\ Cardinality(interactions_for_topic(t, d))
                  <= Cardinality(Discussing(log, through, t))
  <2> TAKE t
  <2>1. interactions_for_topic(t, d) \in SUBSET Discussing(log, through, t)
    BY <1>2 DEF interactions_for_topic, Discussing
  <2>2. Discussing(log, through, t) \in SUBSET (1..Len(log)) /\ Len(log) \in Nat
    BY LogIs DEF Discussing, Within
  <2> QED BY <2>1, <2>2, FewerAreFewer
<1>5. \A t \in content.topics : /\ t.topic \in topic_ids(d)
                                /\ t.count <= Cardinality(Discussing(log, through, t.topic))
  <2> TAKE t \in content.topics
  <2>1. t.topic \in TopicsOf(content)
    BY DEF TopicsOf
  <2>2. t.count = Cardinality(interactions_for_topic(t.topic, d))
    OBVIOUS
  <2> QED BY <1>4, <2>1, <2>2
<1>6. \A c \in content.concepts : \E i \in Within(log, through) : c.concept \in log[i].concepts
  <2> TAKE c \in content.concepts
  <2>1. PICK i \in d.interactions : c.concept \in log[i].concepts
    BY DEF concept_ids
  <2> QED BY <1>2, <2>1
<1>7. TrueOf(s, log)
  <2>1. \A c \in content.concepts :
          /\ c.topic \in topic_ids(d)
          /\ c.evidence # {} /\ c.evidence \subseteq d.interactions
    OBVIOUS
  <2>2. content.resources \subseteq CitedIn(log) /\ content.steps \cap Topics \subseteq TopicsOf(content)
    BY <1>2
  <2> QED BY <1>1, <1>2, <1>3, <1>5, <1>6, <2>1, <2>2 DEF TrueOf
<1>8. WholeOf(s, log)
  <2>1. ASSUME NEW i \in Before(log, through), log[i].topics # {},
               d.interactions_status # "unavailable"
        PROVE  content.topics # {}
    <3>1. i \in d.interactions
      BY <1>2, <2>1
    <3>2. topic_ids(d) # {}
      BY <2>1, <3>1 DEF topic_ids
    <3> QED BY <3>2
  <2> QED BY <1>1, <1>2, <2>1 DEF WholeOf
<1> QED BY <1>1, <1>2, <1>7, <1>8 DEF SummaryOK, s


-----------------------------------------------------------------------------
(* The steps. *)

LEMMA RequestStep ==
  ASSUME RequestsOK, NEW w \in Workers, NEW label \in PC, NEW l \in Requests,
         Step(w, label, l), RequestOK(l, label, now, log, summaries'),
         now' = now, log' = log, DOMAIN summaries \subseteq DOMAIN summaries'
  PROVE  RequestsOK'
<1>1. pc' = [pc EXCEPT ![w] = label] /\ job' = [job EXCEPT ![w] = l]
  BY DEF Step
<1>2. pc' \in [Workers -> PC] /\ job' \in [Workers -> Requests]
  BY <1>1 DEF RequestsOK
<1>3. ASSUME NEW v \in Workers PROVE RequestOK(job'[v], pc'[v], now', log', summaries')
  <2>1. CASE v = w
    <3>1. job'[v] = l /\ pc'[v] = label
      BY <1>1, <2>1 DEF RequestsOK
    <3> QED BY <3>1
  <2>2. CASE v # w
    <3>1. job'[v] = job[v] /\ pc'[v] = pc[v]
      BY <1>1, <2>2 DEF RequestsOK
    <3>2. RequestOK(job[v], pc[v], now, log, summaries)
      BY DEF RequestsOK
    <3> QED BY <3>1, <3>2 DEF RequestOK
  <2> QED BY <2>1, <2>2
<1> QED BY <1>2, <1>3 DEF RequestsOK

LEMMA NoJobOK ==
  ASSUME LogTyped, NEW ss
  PROVE  RequestOK(NoJob, "idle", now, log, ss)
BY DEF RequestOK, DataOK, NoJob, NoData, LogTyped

LEMMA EndStep ==
  ASSUME Inv, NEW w \in Workers, End(w), now' = now, log' = log,
         DOMAIN summaries \subseteq DOMAIN summaries'
  PROVE  RequestsOK'
<1>1. RequestOK(NoJob, "idle", now, log, summaries')
  BY NoJobOK DEF Inv
<1>2. Step(w, "idle", NoJob) /\ "idle" \in PC /\ NoJob \in Requests
  BY NoJobTyped DEF End, PC
<1> QED BY <1>1, <1>2, RequestStep DEF Inv

\* A step that only reads.
LEMMA ReadStep ==
  ASSUME Inv, NEW w \in Workers, NEW label \in {"interactions", "citations", "gap", "generate"},
         NEW d \in SessionData, Read(w, label, d), DataOK(d, label, now, log),
         UNCHANGED <<now, log, ended_at, summaries, downloads>>
  PROVE  Inv'
<1> DEFINE l == [job[w] EXCEPT !.data = d]
<1>1. l \in Requests /\ l.data = d
  BY DEF Inv, RequestsOK, Requests
<1>2. Step(w, label, l)
  BY DEF Read
<1> HIDE DEF l
<1>3. RequestOK(l, label, now, log, summaries') /\ label \in PC
  BY <1>1 DEF RequestOK, PC
<1>4. RequestsOK'
  BY <1>1, <1>2, <1>3, RequestStep DEF Inv
<1> QED BY <1>4 DEF Inv, LogTyped, StoresTyped, SummariesOK

LEMMA GenerateKeeps ==
  ASSUME Inv, NEW w \in Workers, generate(w)
  PROVE  Inv'
<1> DEFINE d == job[w].data
<1>0. /\ LogTyped /\ LogPast(now, log, ended_at)
      /\ d \in SessionData /\ DataOK(d, pc[w], now, log)
  BY DEF Inv, RequestsOK, RequestOK, Requests
<1>1. CASE BeginGenerate(w)
  <2> DEFINE r == [NoData EXCEPT !.now = now, !.partial = (ended_at = None),
                                 !.through = IF ended_at = None THEN now ELSE ended_at]
  <2>1. Read(w, "interactions", r) /\ UNCHANGED <<now, log, ended_at, summaries, downloads>>
    BY <1>1 DEF BeginGenerate
  <2>2. now \in Nat /\ (ended_at # None => ended_at \in Nat /\ ended_at <= now)
    BY <1>0 DEF LogTyped, LogPast
  <2>3. r \in SessionData
    BY <2>2, NoJobTyped DEF NoData, SessionData
  <2>4. r.interactions = {} /\ r.citations = {} /\ r.through <= now
    BY <2>2 DEF NoData
  <2> HIDE DEF r
  <2>5. DataOK(r, "interactions", now, log)
    BY <2>4 DEF DataOK
  <2> QED BY <2>1, <2>3, <2>5, ReadStep
<1>2. CASE ReadInteractions(w)
  <2>0. UNCHANGED <<now, log, ended_at, summaries, downloads>>
    BY <1>2 DEF ReadInteractions
  <2> DEFINE within == {i \in DOMAIN log : log[i].at <= d.through}
             status == IF log = <<>> THEN "empty"
                       ELSE IF within = DOMAIN log THEN "available" ELSE "partial"
             failed == [d EXCEPT !.interactions_status = "unavailable"]
             r == [d EXCEPT !.interactions = within, !.interactions_status = status]
  <2>1. Read(w, "citations", failed) \/ Read(w, "citations", r)
    BY <1>2 DEF ReadInteractions
  <2>2. /\ failed \in SessionData /\ failed.interactions_status = "unavailable"
        /\ failed.through = d.through /\ failed.interactions = d.interactions
        /\ failed.citations = d.citations
    BY <1>0 DEF SessionData, SourceStatus
  <2>3. within \in SUBSET Ids /\ within = Within(log, d.through)
    BY <1>0, LogIs DEF Within
  <2>4. status \in SourceStatus /\ (status = "empty" => log = <<>>)
    BY DEF SourceStatus
  <2> HIDE DEF within, status, failed
  <2>5. /\ r \in SessionData /\ r.interactions_status = status
        /\ r.through = d.through /\ r.interactions = within /\ r.citations = d.citations
    BY <1>0, <2>3, <2>4 DEF SessionData
  <2> HIDE DEF r
  <2>6. DataOK(failed, "citations", now, log)
    BY <1>0, <2>2 DEF DataOK
  <2>7. Before(log, d.through) \subseteq Within(log, d.through)
    <3>1. d.through \in Nat
      BY <1>0 DEF SessionData
    <3> QED BY <1>0, <3>1, LogIs DEF Before, Within
  <2>8. log = <<>> => Before(log, d.through) = {}
    BY DEF Before
  <2>9. DataOK(r, "citations", now, log)
    BY <1>0, <2>3, <2>4, <2>5, <2>7, <2>8 DEF DataOK
  <2> QED BY <2>0, <2>1, <2>2, <2>5, <2>6, <2>9, ReadStep
<1>3. CASE ReadCitations(w)
  <2>0. pc[w] = "citations" /\ UNCHANGED <<now, log, ended_at, summaries, downloads>>
    BY <1>3 DEF ReadCitations, At
  <2> DEFINE cited == UNION {log[i].cited : i \in DOMAIN log}
             status == IF cited = {} THEN "empty" ELSE "available"
             failed == [d EXCEPT !.citations_status = "unavailable"]
             r == [d EXCEPT !.citations = cited, !.citations_status = status]
  <2>1. Read(w, "gap", failed) \/ Read(w, "gap", r)
    BY <1>3 DEF ReadCitations
  <2>2. /\ failed \in SessionData /\ failed.interactions_status = d.interactions_status
        /\ failed.through = d.through /\ failed.interactions = d.interactions
        /\ failed.citations = d.citations
    BY <1>0 DEF SessionData, SourceStatus
  <2>3. cited \in SUBSET Authorities /\ cited = CitedIn(log)
    BY <1>0, LogIs DEF CitedIn
  <2>4. status \in SourceStatus
    BY DEF SourceStatus
  <2> HIDE DEF cited, status, failed
  <2>5. /\ r \in SessionData /\ r.interactions_status = d.interactions_status
        /\ r.through = d.through /\ r.interactions = d.interactions /\ r.citations = cited
    BY <1>0, <2>3, <2>4 DEF SessionData
  <2> HIDE DEF r
  <2>6. DataOK(failed, "gap", now, log) /\ DataOK(r, "gap", now, log)
    BY <1>0, <2>0, <2>2, <2>3, <2>5 DEF DataOK
  <2> QED BY <2>0, <2>1, <2>2, <2>5, <2>6, ReadStep
<1>4. CASE ReadGapReport(w)
  <2>0. pc[w] = "gap" /\ UNCHANGED <<now, log, ended_at, summaries, downloads>>
    BY <1>4 DEF ReadGapReport, At
  <2>1. \/ Read(w, "generate", d)
        \/ \E answer \in SUBSET Suggestions :
             Read(w, "generate", [d EXCEPT !.gap = answer, !.gap_status = HasAny(answer)])
    BY <1>4 DEF ReadGapReport
  <2>2. CASE Read(w, "generate", d)
    <3>1. DataOK(d, "generate", now, log)
      BY <1>0, <2>0 DEF DataOK
    <3> QED BY <1>0, <2>0, <2>2, <3>1, ReadStep
  <2>3. ASSUME NEW answer \in SUBSET Suggestions,
               Read(w, "generate", [d EXCEPT !.gap = answer, !.gap_status = HasAny(answer)])
        PROVE  Inv'
    <3> DEFINE r == [d EXCEPT !.gap = answer, !.gap_status = HasAny(answer)]
    <3>1. HasAny(answer) \in SourceStatus
      BY DEF HasAny, SourceStatus
    <3>2. /\ r \in SessionData /\ r.interactions_status = d.interactions_status
          /\ r.through = d.through /\ r.interactions = d.interactions /\ r.citations = d.citations
      BY <1>0, <3>1 DEF SessionData
    <3> HIDE DEF r
    <3>3. DataOK(r, "generate", now, log)
      BY <1>0, <2>0, <3>2 DEF DataOK
    <3> QED BY <2>0, <2>3, <3>2, <3>3, ReadStep DEF r
  <2> QED BY <2>1, <2>2, <2>3
<1>5. CASE GenerateAndSave(w)
  <2>0. pc[w] = "generate" /\ UNCHANGED <<now, log, ended_at, downloads>>
    BY <1>5 DEF GenerateAndSave, At
  <2>1. DataOK(d, "generate", now, log) /\ d.interactions \subseteq DOMAIN log
    BY <1>0, <2>0, ReadIsWithin
  <2>2. ASSUME NEW s \in SummaryRecord, SummaryOK(s, now, log), Store(w, s) PROVE Inv'
    <3>1. summaries' = Append(summaries, s) /\ End(w)
      BY <2>2 DEF Store
    <3>2. /\ summaries' \in Seq(SummaryRecord)
          /\ DOMAIN summaries' = DOMAIN summaries \cup {Len(summaries) + 1}
          /\ summaries'[Len(summaries) + 1] = s
          /\ \A k \in DOMAIN summaries : summaries'[k] = summaries[k]
      BY <3>1, AppendIs DEF Inv, StoresTyped
    <3>3. RequestsOK'
      BY <2>0, <3>1, <3>2, EndStep
    <3>4. \A k \in DOMAIN summaries' : SummaryOK(summaries'[k], now, log)
      BY <2>2, <3>2 DEF Inv, SummariesOK
    <3>5. SummariesOK'
      BY <2>0, <3>4 DEF SummariesOK
    <3>6. StoresTyped'
      BY <2>0, <3>2 DEF Inv, StoresTyped
    <3> QED BY <2>0, <3>3, <3>5, <3>6 DEF Inv, LogTyped
  <2>3. ASSUME NEW content \in GeneratedContents(d), check_grounding(content, d),
               Store(w, Assembled(d, content, "generated", "available"))
        PROVE  Inv'
    <3>1. content \in SummaryContent /\ \A c \in content.concepts : c.evidence # {}
      BY <1>0, <2>1, GeneratedTyped
    <3>2. "generated" \in GenerationMode /\ "available" \in SourceStatus
      BY DEF GenerationMode, SourceStatus
    <3>3. /\ TopicsOf(content) \subseteq topic_ids(d)
          /\ \A t \in content.topics : t.count = Cardinality(interactions_for_topic(t.topic, d))
          /\ topic_ids(d) # {} => content.topics # {}
      BY <2>3 DEF check_grounding, _check_topics
    <3>4. \A c \in content.concepts :
            /\ c.concept \in concept_ids(d) /\ c.topic \in topic_ids(d)
            /\ c.evidence # {} /\ c.evidence \subseteq d.interactions
      BY <2>3, <3>1 DEF check_grounding, _check_concepts
    <3>5. content.resources \subseteq d.citations /\ content.steps \cap Topics \subseteq TopicsOf(content)
      BY <2>3 DEF check_grounding, _check_resources, _check_next_steps
    <3>6. SummaryOK(Assembled(d, content, "generated", "available"), now, log)
      BY <1>0, <2>1, <3>1, <3>2, <3>3, <3>4, <3>5, SavedIsOK
    <3>7. Assembled(d, content, "generated", "available") \in SummaryRecord
      BY <1>0, <3>1, <3>2, AssembledTyped
    <3> QED BY <2>2, <2>3, <3>6, <3>7
  <2>4. ASSUME NEW content \in _question_log_content(d),
               NEW generator \in {"unavailable", "invalid"},
               Store(w, Assembled(d, content, "question_log_fallback", generator))
        PROVE  Inv'
    <3>1. /\ content.topics = TopicSection(d) /\ content.concepts = {}
          /\ content.resources = d.citations /\ content.steps \in SUBSET d.gap
          /\ content \in SummaryContent
      BY <1>0, <2>1, QuestionLogIs
    <3>2. "question_log_fallback" \in GenerationMode /\ generator \in SourceStatus
      BY DEF GenerationMode, SourceStatus
    <3>3. TopicsOf(content) = topic_ids(d) /\ _check_topics(content, d)
      BY <3>1, TopicsGrounded
    <3>4. /\ \A t \in content.topics : t.count = Cardinality(interactions_for_topic(t.topic, d))
          /\ topic_ids(d) # {} => content.topics # {}
      BY <3>3 DEF _check_topics
    <3>5. content.steps \cap Topics = {}
      BY <1>0, <3>1, KindAssumption DEF SessionData
    <3>6. SummaryOK(Assembled(d, content, "question_log_fallback", generator), now, log)
      BY <1>0, <2>1, <3>1, <3>2, <3>3, <3>4, <3>5, SavedIsOK
    <3>7. Assembled(d, content, "question_log_fallback", generator) \in SummaryRecord
      BY <1>0, <3>1, <3>2, AssembledTyped
    <3> QED BY <2>2, <2>4, <3>6, <3>7
  <2> QED BY <1>5, <2>3, <2>4 DEF GenerateAndSave
<1> QED BY <1>1, <1>2, <1>3, <1>4, <1>5 DEF generate

LEMMA ExportKeeps ==
  ASSUME Inv, NEW w \in Workers, export(w)
  PROVE  Inv'
<1>0. /\ LogTyped /\ StoresTyped /\ job[w] \in Requests
      /\ RequestOK(job[w], pc[w], now, log, summaries)
  BY DEF Inv, RequestsOK
<1>1. UNCHANGED <<now, log, ended_at, summaries>>
  BY DEF export, BeginExport, Render, RecordDownload
<1>2. ASSUME RequestsOK', downloads' = downloads PROVE Inv'
  BY <1>1, <1>2 DEF Inv, LogTyped, StoresTyped, SummariesOK
<1>3. CASE BeginExport(w)
  <2>1. PICK k \in DOMAIN summaries : Step(w, "render", [NoJob EXCEPT !.summary = k])
    BY <1>3 DEF BeginExport
  <2> DEFINE l == [NoJob EXCEPT !.summary = k]
  <2>2. k \in Nat
    BY <1>0, Places DEF StoresTyped
  <2>3. l \in Requests /\ l.data = NoJob.data /\ l.summary = k
    BY <2>2, NoJobTyped DEF NoJob, Requests
  <2> HIDE DEF l
  <2>4. RequestOK(l, "render", now, log, summaries') /\ "render" \in PC
    BY <1>0, <1>1, <2>3, NoJobOK DEF RequestOK, DataOK, PC
  <2>5. RequestsOK'
    BY <1>1, <2>1, <2>3, <2>4, RequestStep DEF Inv, l
  <2> QED BY <1>2, <1>3, <2>5 DEF BeginExport
<1>4. CASE Render(w)
  <2>1. PICK pdf \in BOOLEAN : Step(w, "record", [job[w] EXCEPT !.pdf = pdf])
    BY <1>4 DEF Render
  <2> DEFINE l == [job[w] EXCEPT !.pdf = pdf]
  <2>2. l \in Requests /\ l.data = job[w].data /\ l.summary = job[w].summary
    BY <1>0 DEF Requests
  <2>3. pc[w] = "render"
    BY <1>4 DEF Render, At
  <2> HIDE DEF l
  <2>4. RequestOK(l, "record", now, log, summaries') /\ "record" \in PC
    BY <1>0, <1>1, <2>2, <2>3 DEF RequestOK, DataOK, PC
  <2>5. RequestsOK'
    BY <1>1, <2>1, <2>2, <2>4, RequestStep DEF Inv, l
  <2> QED BY <1>2, <1>4, <2>5 DEF Render
<1>5. CASE RecordDownload(w)
  <2> DEFINE e == [summary |-> job[w].summary, pdf_available |-> job[w].pdf]
  <2>1. job[w].summary \in DOMAIN summaries
    BY <1>0, <1>5 DEF RequestOK, RecordDownload, At
  <2>2. job[w].summary \in Ids
    BY <1>0, <2>1, Places DEF StoresTyped, Ids
  <2>3. e \in DownloadEvent /\ e.summary \in DOMAIN summaries
    BY <1>0, <2>1, <2>2 DEF DownloadEvent, Requests
  <2>4. downloads' = Append(downloads, e)
    BY <1>5 DEF RecordDownload
  <2> HIDE DEF e
  <2>5. /\ downloads' \in Seq(DownloadEvent)
        /\ DOMAIN downloads' = DOMAIN downloads \cup {Len(downloads) + 1}
        /\ downloads'[Len(downloads) + 1] = e
        /\ \A k \in DOMAIN downloads : downloads'[k] = downloads[k]
    BY <1>0, <2>3, <2>4, AppendIs DEF StoresTyped
  <2>6. StoresTyped'
    BY <1>0, <1>1, <2>3, <2>5 DEF StoresTyped
  <2>7. RequestsOK'
    BY <1>1, <1>5, EndStep DEF RecordDownload
  <2> QED BY <1>1, <2>6, <2>7 DEF Inv, LogTyped, SummariesOK
<1> QED BY <1>3, <1>4, <1>5 DEF export

LEMMA WorldKeeps ==
  ASSUME Inv, Tick \/ Interact \/ CompleteSession
  PROVE  Inv'
<1>0. /\ LogTyped /\ LogPast(now, log, ended_at) /\ StoresTyped /\ RequestsOK /\ SummariesOK
      /\ now \in Nat
  BY DEF Inv, LogTyped
<1>1. \A k \in DOMAIN summaries : summaries[k] \in SummaryRecord
  BY <1>0, Places DEF StoresTyped
<1>2. UNCHANGED <<summaries, downloads, pc, job>>
  BY DEF Tick, Interact, CompleteSession
<1>3. StoresTyped'
  BY <1>0, <1>2 DEF StoresTyped
<1>4. CASE Tick
  <2>1. now' = now + 1 /\ log' = log /\ ended_at' = ended_at
    BY <1>4 DEF Tick
  <2>2. LogTyped' /\ LogPast(now', log', ended_at')
    BY <1>0, <2>1, LogIs DEF LogTyped, LogPast
  <2>3. ASSUME NEW v \in Workers PROVE RequestOK(job[v], pc[v], now + 1, log, summaries)
    <3>1. job[v].data \in SessionData /\ RequestOK(job[v], pc[v], now, log, summaries)
      BY <1>0 DEF RequestsOK, Requests
    <3>2. job[v].data.through \in Nat
      BY <3>1 DEF SessionData
    <3> QED BY <1>0, <3>1, <3>2 DEF RequestOK, DataOK
  <2>4. ASSUME NEW k \in DOMAIN summaries PROVE SummaryOK(summaries[k], now + 1, log)
    <3>1. summaries[k].through \in Nat /\ SummaryOK(summaries[k], now, log)
      BY <1>0, <1>1 DEF SummariesOK, SummaryRecord
    <3> QED BY <1>0, <3>1 DEF SummaryOK
  <2> QED BY <1>0, <1>2, <1>3, <2>1, <2>2, <2>3, <2>4 DEF Inv, RequestsOK, SummariesOK
<1>5. CASE Interact
  <2>1. PICK tags \in Tags :
          log' = Append(log, [at |-> now, topics |-> tags.topics, concepts |-> tags.concepts,
                              cited |-> tags.cited])
    BY <1>5 DEF Interact
  <2> DEFINE r == [at |-> now, topics |-> tags.topics, concepts |-> tags.concepts,
                   cited |-> tags.cited]
  <2>2. r \in InteractionRecord /\ r.at = now
    BY <1>0, TagAssumption DEF InteractionRecord
  <2>3. log' = Append(log, r) /\ now' = now /\ ended_at' = ended_at
    BY <1>5, <2>1 DEF Interact
  <2> HIDE DEF r
  <2>4. /\ log' \in Seq(InteractionRecord)
        /\ DOMAIN log' = DOMAIN log \cup {Len(log) + 1} /\ log'[Len(log) + 1] = r
        /\ \A i \in DOMAIN log : log'[i] = log[i]
    BY <1>0, <2>2, <2>3, AppendIs DEF LogTyped
  <2>5. LogTyped' /\ LogPast(now', log', ended_at')
    BY <1>0, <2>2, <2>3, <2>4 DEF LogTyped, LogPast
  <2>6. ASSUME NEW v \in Workers PROVE RequestOK(job[v], pc[v], now, log', summaries)
    <3>1. job[v].data \in SessionData /\ RequestOK(job[v], pc[v], now, log, summaries)
      BY <1>0 DEF RequestsOK, Requests
    <3> QED BY <1>0, <2>2, <2>3, <3>1, DataGrows DEF RequestOK
  <2>7. ASSUME NEW k \in DOMAIN summaries PROVE SummaryOK(summaries[k], now, log')
    BY <1>0, <1>1, <2>2, <2>3, SummaryGrows DEF SummariesOK
  <2> QED BY <1>0, <1>2, <1>3, <2>3, <2>5, <2>6, <2>7 DEF Inv, RequestsOK, SummariesOK
<1>6. CASE CompleteSession
  <2>1. now' = now /\ log' = log /\ ended_at' = now
    BY <1>6 DEF CompleteSession
  <2>2. LogTyped' /\ LogPast(now', log', ended_at')
    BY <1>0, <2>1 DEF LogTyped, LogPast
  <2> QED BY <1>0, <1>2, <1>3, <2>1, <2>2 DEF Inv, RequestsOK, SummariesOK
<1> QED BY <1>4, <1>5, <1>6

LEMMA InitInv == Init => Inv
<1> SUFFICES ASSUME Init PROVE Inv
  OBVIOUS
<1>1. LogTyped /\ LogPast(now, log, ended_at) /\ StoresTyped /\ SummariesOK
  BY DEF Init, LogTyped, LogPast, StoresTyped, SummariesOK
<1>2. \A v \in Workers : job[v] = NoJob /\ pc[v] = "idle"
  BY DEF Init
<1>3. \A v \in Workers : RequestOK(job[v], pc[v], now, log, summaries)
  BY <1>1, <1>2, NoJobOK
<1>4. pc \in [Workers -> PC] /\ job \in [Workers -> Requests]
  BY NoJobTyped DEF Init, PC
<1> QED BY <1>1, <1>3, <1>4 DEF Inv, RequestsOK

LEMMA NextInv ==
  ASSUME Inv, [Next]_vars
  PROVE  Inv'
<1>1. CASE UNCHANGED vars
  BY <1>1 DEF vars, Inv, LogTyped, StoresTyped, RequestsOK, SummariesOK
<1>2. CASE Tick \/ Interact \/ CompleteSession
  BY <1>2, WorldKeeps
<1>3. ASSUME NEW w \in Workers, generate(w) \/ export(w) PROVE Inv'
  BY <1>3, GenerateKeeps, ExportKeeps
<1> QED BY <1>1, <1>2, <1>3 DEF Next

LEMMA InvHolds == Spec => []Inv
<1>1. Init => Inv
  BY InitInv
<1>2. Inv /\ [Next]_vars => Inv'
  BY NextInv
<1> QED BY <1>1, <1>2, PTL DEF Spec

LEMMA InvTypes == Inv => TypeOK
BY DEF Inv, LogTyped, StoresTyped, RequestsOK, Requests, TypeOK

-----------------------------------------------------------------------------

\* The stores and the locals of every request keep their types, whatever a
\* source or the generator answers, and a download is of a summary that exists.
THEOREM TypeCorrect == Spec => []TypeOK
<1>1. Inv => TypeOK
  BY InvTypes
<1> QED BY <1>1, InvHolds, PTL

\* A stored summary is true of the session up to the instant it says it
\* covers (check_grounding, _cover_window), for any answer of the generator
\* and any number of requests, and however the session goes on meanwhile.
THEOREM SummariesAreTrue == Spec => []DocumentIsTrue
<1>1. Inv => DocumentIsTrue
  <2> SUFFICES ASSUME SummariesOK, NEW k \in DOMAIN summaries
               PROVE  LET s == summaries[k]
                          discussed(t) == {i \in Covered(s) : t \in log[i].topics}
                      IN /\ \A t \in s.content.topics :
                              /\ discussed(t.topic) # {}
                              /\ t.count <= Cardinality(discussed(t.topic))
                         /\ \A c \in s.content.concepts :
                              /\ discussed(c.topic) # {}
                              /\ c.evidence # {} /\ c.evidence \subseteq Covered(s)
                              /\ \E i \in Covered(s) : c.concept \in log[i].concepts
                         /\ s.content.resources \subseteq UNION {log[i].cited : i \in DOMAIN log}
                         /\ s.content.steps \cap Topics \subseteq TopicsOf(s.content)
                         /\ s.questions \subseteq Covered(s)
    BY DEF Inv, DocumentIsTrue
  <2> DEFINE s == summaries[k]
  <2>1. TrueOf(s, log)
    BY DEF SummariesOK, SummaryOK
  <2>2. Covered(s) = Within(log, s.through)
    BY DEF Covered, Within
  <2>3. \A t : {i \in Covered(s) : t \in log[i].topics} = Discussing(log, s.through, t)
    BY <2>2 DEF Discussing
  <2> HIDE DEF s
  <2>4. /\ \A t \in s.content.topics :
             /\ {i \in Covered(s) : t.topic \in log[i].topics} # {}
             /\ t.count <= Cardinality({i \in Covered(s) : t.topic \in log[i].topics})
        /\ \A c \in s.content.concepts :
             /\ {i \in Covered(s) : c.topic \in log[i].topics} # {}
             /\ c.evidence # {} /\ c.evidence \subseteq Covered(s)
             /\ \E i \in Covered(s) : c.concept \in log[i].concepts
        /\ s.content.resources \subseteq UNION {log[i].cited : i \in DOMAIN log}
        /\ s.content.steps \cap Topics \subseteq TopicsOf(s.content)
        /\ s.questions \subseteq Covered(s)
    BY <2>1, <2>2, <2>3 DEF TrueOf, CitedIn
  <2> QED BY <2>4 DEF s
<1> QED BY <1>1, InvHolds, PTL

\* What happened before the instant a summary covers is in it, unless it says
\* that the log could not be read (_read_interactions, _check_topics).
THEOREM NothingIsLeftOut == Spec => []NothingLeftOut
<1>1. Inv => NothingLeftOut
  <2> SUFFICES ASSUME SummariesOK, NEW k \in DOMAIN summaries,
                      summaries[k].status["interactions"] # "unavailable"
               PROVE  LET s == summaries[k]
                          before == {i \in DOMAIN log : log[i].at < s.through}
                      IN /\ s.status["interactions"] = "empty" => before = {}
                         /\ s.mode = "question_log_fallback" => before \subseteq s.questions
                         /\ (\E i \in before : log[i].topics # {}) => s.content.topics # {}
    BY DEF Inv, NothingLeftOut
  <2>1. WholeOf(summaries[k], log)
    BY DEF SummariesOK, SummaryOK
  <2> QED BY <2>1 DEF WholeOf, Before
<1> QED BY <1>1, InvHolds, PTL

\* What the shipped generator builds from what a request has read, the
\* grounding check never refuses (_build_concepts, _build_next_steps).
THEOREM ShippedIsGrounded == Spec => []ShippedGeneratorIsGrounded
<1>1. Inv => ShippedGeneratorIsGrounded
  <2> SUFFICES ASSUME Inv, NEW w \in Workers, NEW content \in DeterministicContents(job[w].data)
               PROVE  check_grounding(content, job[w].data)
    BY DEF ShippedGeneratorIsGrounded
  <2>1. /\ LogTyped /\ job[w].data \in SessionData
        /\ DataOK(job[w].data, pc[w], now, log)
    BY DEF Inv, RequestsOK, RequestOK, Requests
  <2> QED BY <2>1, ReadIsWithin, BuiltIsGrounded
<1> QED BY <1>1, InvHolds, PTL

=============================================================================
