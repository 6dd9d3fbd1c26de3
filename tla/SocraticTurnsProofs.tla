------------------------- MODULE SocraticTurnsProofs -------------------------
(***************************************************************************)
(* More of UC-05: what every copy of a dialogue has been through, however  *)
(* requests interleave, and what holds when they come one at a time.       *)
(***************************************************************************)
EXTENDS SocraticServiceProofs, FiniteSetTheorems, WellFoundedInduction

-----------------------------------------------------------------------------
(* Finite sets of positions. *)

\* A non-empty set of natural numbers has a least one.
LEMMA LeastNatural ==
  ASSUME NEW S \in SUBSET Nat, S # {}
  PROVE  \E m \in S : \A k \in S : m <= k
<1> DEFINE Below(m) == {k \in S : k < m}
           Pieces == {Below(m) : m \in S}
           R == StrictSubsetOrdering(S)
<1>1. IsWellFoundedOn(R, FiniteSubsetsOf(S))
  BY FS_StrictSubsetOrderingWellFounded
<1>2. \A m \in S : Below(m) \in FiniteSubsetsOf(S)
  <2> TAKE m \in S
  <2>1. IsFiniteSet(Below(m))
    BY FS_BoundedSetOfNaturals
  <2> QED BY <2>1 DEF FiniteSubsetsOf
<1>3. Pieces \subseteq FiniteSubsetsOf(S) /\ Pieces # {}
  BY <1>2
<1>4. PICK P \in Pieces : \A Q \in Pieces : ~ (<<Q, P>> \in R)
  <2> HIDE DEF Pieces, R
  <2> QED BY <1>1, <1>3, WFMin
<1>5. PICK m \in S : P = Below(m)
  BY <1>4
<1>6. ASSUME NEW k \in S, k < m PROVE FALSE
  <2>0. k \in Nat /\ m \in Nat /\ \A j \in S : j \in Nat
    OBVIOUS
  <2>7. ASSUME NEW j \in Below(k) PROVE j \in Below(m)
    <3>1. j \in S /\ j < k /\ j \in Nat
      BY <2>0
    <3>2. j < m
      BY <1>6, <2>0, <3>1
    <3> QED BY <3>1, <3>2
  <2>1. Below(k) \subseteq Below(m)
    BY <2>7
  <2>4. k \in Below(m)
    BY <1>6, <2>0
  <2>5. k \notin Below(k)
    BY <2>0
  <2>6. Below(m) \subseteq S /\ Below(k) \subseteq S
    OBVIOUS
  <2> HIDE DEF Below
  <2>2. <<Below(k), P>> \in R
    BY <1>5, <2>1, <2>4, <2>5, <2>6 DEF StrictSubsetOrdering
  <2>3. Below(k) \in Pieces
    OBVIOUS
  <2> QED BY <1>4, <2>2, <2>3
<1>7. \A k \in S : ~ (k < m)
  BY <1>6
<1> QED BY <1>7

\* A non-empty set of positions of a sequence has a last one.
LEMMA GreatestPosition ==
  ASSUME NEW n \in Nat, NEW S \in SUBSET (1..n), S # {}
  PROVE  \E m \in S : \A k \in S : k <= m
<1> DEFINE T == {n - k : k \in S}
<1>1. T \in SUBSET Nat /\ T # {}
  <2>1. \A k \in S : n - k \in Nat
    OBVIOUS
  <2> QED BY <2>1
<1>2. PICK t \in T : \A u \in T : t <= u
  BY <1>1, LeastNatural
<1>3. PICK m \in S : t = n - m
  BY <1>2
<1>4. ASSUME NEW k \in S PROVE k <= m
  <2>1. n - k \in T /\ k \in 1..n /\ m \in 1..n
    OBVIOUS
  <2>2. n - m <= n - k
    BY <1>2, <1>3, <2>1
  <2> HIDE DEF T
  <2> QED BY <2>1, <2>2
<1> QED BY <1>4

-----------------------------------------------------------------------------
(* The loop test. *)

\* Comparing fractions by cross-multiplication is transitive.
LEMMA FractionsOrdered ==
  ASSUME NEW sm \in Nat, NEW em \in Nat \ {0}, NEW sb \in Nat, NEW eb \in Nat \ {0},
         NEW sj \in Nat, NEW ej \in Nat \ {0},
         sm * eb > sb * em, ~ (sj * eb > sb * ej)
  PROVE  sm * ej > sj * em /\ ~ (sj * em > sm * ej)
<1>1. (sm * eb) * ej > (sb * em) * ej
  OBVIOUS
<1>2. (sj * eb) * em <= (sb * ej) * em
  OBVIOUS
<1>3. (sm * ej) * eb > (sj * em) * eb
  BY <1>1, <1>2
<1> QED BY <1>3

\* A similarity is a fraction of natural numbers with a positive denominator.
LEMMA Similarity ==
  ASSUME NEW a \in Questions \cup LearnerQuestions, NEW b \in Questions \cup LearnerQuestions
  PROVE  Shared(a, b) \in Nat /\ Either(a, b) \in Nat \ {0}
<1>1. IsFiniteSet(a) /\ IsFiniteSet(b)
  BY QuestionsAssumption
<1>2. IsFiniteSet(a \cap b) /\ IsFiniteSet(a \cup b)
  BY <1>1, FS_Intersection, FS_Union
<1>3. Cardinality(a \cap b) \in Nat /\ Cardinality(a \cup b) \in Nat
  BY <1>2, FS_CardinalityType
<1>4. Cardinality(a \cup b) = 0 <=> a \cup b = {}
  BY <1>2, FS_EmptySet
<1> QED BY <1>3, <1>4 DEF Shared, Either

\* Whatever is closer than b is closer than what is no closer than b.
LEMMA CloserTransitive ==
  ASSUME NEW q \in Questions, NEW a \in Questions, NEW b \in Questions, NEW c \in Questions,
         Closer(q, a, b), ~ Closer(q, c, b)
  PROVE  Closer(q, a, c) /\ ~ Closer(q, c, a)
<1> DEFINE sa == Shared(q, a)  ea == Either(q, a)
           sb == Shared(q, b)  eb == Either(q, b)
           sc == Shared(q, c)  ec == Either(q, c)
<1>1. /\ sa \in Nat /\ ea \in Nat \ {0} /\ sb \in Nat /\ eb \in Nat \ {0}
      /\ sc \in Nat /\ ec \in Nat \ {0}
  BY Similarity
<1>2. sa * eb > sb * ea /\ ~ (sc * eb > sb * ec)
  BY DEF Closer
<1> HIDE DEF sa, ea, sb, eb, sc, ec
<1>3. sa * ec > sc * ea /\ ~ (sc * ea > sa * ec)
  BY <1>1, <1>2, FractionsOrdered
<1> QED BY <1>3 DEF Closer, sa, ea, sc, ec

Hits(q, previous) == {i \in DOMAIN previous : Shared(q, previous[i]) > 0}

\* The first of the closest among the first m questions.
BestUpTo(q, previous, m) ==
  {i \in Hits(q, previous) \cap (1..m) :
     \A j \in Hits(q, previous) \cap (1..m) :
       /\ ~ Closer(q, previous[j], previous[i])
       /\ j < i => Closer(q, previous[i], previous[j])}

\* If anything is shared with an earlier question, one of them is the closest.
LEMMA ClosestExists ==
  ASSUME NEW q \in Questions, NEW previous \in Seq(Questions),
         Hits(q, previous) # {}
  PROVE  BestUpTo(q, previous, Len(previous)) # {}
<1> DEFINE H(m) == Hits(q, previous) \cap (1..m)
           B(m) == BestUpTo(q, previous, m)
           Bad == {m \in 0..Len(previous) : H(m) # {} /\ B(m) = {}}
<1>1. Len(previous) \in Nat /\ DOMAIN previous = 1..Len(previous)
      /\ \A i \in DOMAIN previous : previous[i] \in Questions
  OBVIOUS
<1>2. SUFFICES ASSUME Bad # {} PROVE FALSE
  <2>1. H(Len(previous)) = Hits(q, previous)
    BY <1>1 DEF Hits
  <2>2. Len(previous) \notin Bad
    BY <1>2
  <2> QED BY <1>1, <2>1, <2>2
<1>3. PICK m \in Bad : \A k \in Bad : m <= k
  <2>1. Bad \in SUBSET Nat
    BY <1>1
  <2> HIDE DEF Bad
  <2> QED BY <1>2, <2>1, LeastNatural
<1>4. m \in 1..Len(previous) /\ H(m) # {} /\ B(m) = {} /\ m - 1 \in 0..Len(previous)
  BY <1>1, <1>3
<1>5. m - 1 \notin Bad
  BY <1>1, <1>3, <1>4
<1>6. \A i \in H(m) : i \in H(m - 1) \/ i = m
  BY <1>1, <1>4
<1>7. \A i \in H(m - 1) : i \in H(m) /\ i < m /\ i \in DOMAIN previous
  BY <1>1, <1>4 DEF Hits
<1>8. \A i \in DOMAIN previous : /\ Shared(q, previous[i]) \in Nat
                                 /\ Either(q, previous[i]) \in Nat \ {0}
  BY <1>1, Similarity
<1> HIDE DEF Bad
<1>9. CASE H(m - 1) = {}
  <2>1. H(m) = {m}
    BY <1>4, <1>6, <1>9
  <2>2. ~ Closer(q, previous[m], previous[m])
    BY <1>1, <1>4, <1>8 DEF Closer
  <2>3. m \in B(m)
    BY <1>4, <2>1, <2>2 DEF BestUpTo
  <2> QED BY <1>4, <2>3
<1>10. CASE H(m - 1) # {}
  <2>1. PICK b \in B(m - 1) : TRUE
    BY <1>4, <1>5, <1>10 DEF Bad
  <2>2. b \in H(m - 1) /\ b \in H(m) /\ b < m /\ b \in DOMAIN previous
    BY <1>7, <2>1 DEF BestUpTo
  <2>3. \A j \in H(m - 1) : /\ ~ Closer(q, previous[j], previous[b])
                            /\ j < b => Closer(q, previous[b], previous[j])
    BY <2>1 DEF BestUpTo
  <2>4. CASE m \in H(m) /\ Closer(q, previous[m], previous[b])
    <3>1. ASSUME NEW j \in H(m - 1)
          PROVE  Closer(q, previous[m], previous[j]) /\ ~ Closer(q, previous[j], previous[m])
      <4>1. j \in DOMAIN previous /\ m \in DOMAIN previous
        BY <1>1, <1>4, <1>7
      <4>2. /\ Closer(q, previous[m], previous[b])
            /\ ~ Closer(q, previous[j], previous[b])
        BY <2>3, <2>4
      <4> QED BY <1>1, <2>2, <4>1, <4>2, CloserTransitive
    <3>2. ~ Closer(q, previous[m], previous[m])
      BY <1>1, <1>4, <1>8 DEF Closer
    <3>3. \A j \in H(m) : /\ ~ Closer(q, previous[j], previous[m])
                          /\ j < m => Closer(q, previous[m], previous[j])
      BY <1>1, <1>4, <1>6, <3>1, <3>2
    <3>4. m \in B(m)
      BY <2>4, <3>3 DEF BestUpTo
    <3> QED BY <1>4, <3>4
  <2>5. CASE ~ (m \in H(m) /\ Closer(q, previous[m], previous[b]))
    <3>1. \A j \in H(m) : /\ ~ Closer(q, previous[j], previous[b])
                          /\ j < b => Closer(q, previous[b], previous[j])
      BY <1>1, <1>4, <1>6, <2>2, <2>3, <2>5
    <3>2. b \in B(m)
      BY <2>2, <3>1 DEF BestUpTo
    <3> QED BY <1>4, <3>2
  <2> QED BY <2>4, <2>5
<1> QED BY <1>9, <1>10

\* A repeat names the question it repeats (best_index is only None without one).
LEMMA RepeatIsMatched ==
  ASSUME NEW q \in Questions, NEW previous \in Seq(Questions), is_repeat(q, previous)
  PROVE  best_index(q, previous) \in DOMAIN previous
<1> DEFINE hits == {i \in DOMAIN previous : Shared(q, previous[i]) > 0}
           best == {i \in hits :
                      \A j \in hits : /\ ~ Closer(q, previous[j], previous[i])
                                      /\ j < i => Closer(q, previous[i], previous[j])}
<1>1. hits # {} /\ hits = Hits(q, previous)
  BY DEF is_repeat, Hits
<1>2. Hits(q, previous) \cap (1..Len(previous)) = hits
  BY DEF Hits
<1>3. best # {}
  <2>1. BestUpTo(q, previous, Len(previous)) # {}
    BY <1>1, ClosestExists
  <2> QED BY <1>1, <1>2, <2>1 DEF BestUpTo
<1>4. best_index(q, previous) = CHOOSE i \in best : TRUE
  BY <1>3 DEF best_index
<1>5. best \subseteq DOMAIN previous
  OBVIOUS
<1> HIDE DEF best
<1> QED BY <1>3, <1>4, <1>5

-----------------------------------------------------------------------------
(* What every copy has been through. *)

Said(d, n) == {i \in DOMAIN d.messages : d.messages[i].exchange = n}

\* One message of exchange n made the dialogue move on: it is the last of the
\* exchange, and no other counts as an answer.
MovedOn(d, n) ==
  \E k \in Said(d, n) : \A i \in Said(d, n) :
    /\ i <= k
    /\ d.messages[i].intent \in ANSWERING_INTENTS => i = k

\* The messages belong to the exchanges; each exchange but the last, and the
\* last one of a dialogue the cap or the loop test closed, was moved on from;
\* while the dialogue is open its last exchange has no answer.
ChainOK(d) ==
  /\ \A i \in DOMAIN d.messages : d.messages[i].exchange \in DOMAIN d.questions
  /\ \A n \in DOMAIN d.questions : n < Len(d.questions) => MovedOn(d, n)
  /\ is_open(d) => \A i \in Said(d, Len(d.questions)) :
                     d.messages[i].intent \notin ANSWERING_INTENTS
  /\ d.resolution \in {"capped", "loop_detected"} => MovedOn(d, Len(d.questions))

LoopOK(d) ==
  /\ \A n \in DOMAIN d.questions : ~ is_repeat(d.questions[n], SubSeq(d.questions, 1, n - 1))
  /\ d.resolution = "loop_detected" <=> d.loop_matched_exchange # None
  /\ d.loop_matched_exchange # None => d.loop_matched_exchange \in DOMAIN d.questions

DeepCopy(d) == ChainOK(d) /\ LoopOK(d)

\* A turn as reply takes it: the row is due, a question is only asked when it
\* is no repeat, and an intent that keeps the dialogue where it is is no answer.
Takes(d, intent, event, q) ==
  /\ MayTake(d, event, q)
  /\ event # "mode_toggled_off"
  /\ event = "substantive_response" => ~ is_repeat(q, d.questions)
  /\ event = "loop_detected" => q \in Questions /\ is_repeat(q, d.questions)
  /\ event \in {"off_topic", "direct_answer_requested", "exit_declined"}
       => intent \notin ANSWERING_INTENTS

\* Only three rows keep a dialogue open without a new question.
LEMMA StayingRow ==
  ASSUME NEW s \in OPEN_STATES, NEW e, is_legal(s, e),
         lookup(s, e).target \in OPEN_STATES, ~ lookup(s, e).opens_exchange
  PROVE  e \in {"off_topic", "direct_answer_requested", "exit_declined"}
<1>1. \A t \in TRANSITIONS :
        t.target \in OPEN_STATES /\ ~ t.opens_exchange
          => t.event \in {"off_topic", "direct_answer_requested", "exit_declined"}
  BY DEF TRANSITIONS, ExitRows, ClosingRows, Asks, Stays, Closes, Row, OPEN_STATES,
         AWAITING, CONFIRMING
<1> QED BY <1>1, LookupRow

\* The message as it joins the open exchange.
Filed(d, intent) == [exchange |-> Len(d.questions), intent |-> intent]

\* The fields of a copy after a turn.
LEMMA TurnFields ==
  ASSUME NEW d \in Copy, GoodCopy(d), is_open(d),
         NEW intent \in IntentKind, NEW event, NEW q, MayTake(d, event, q)
  PROVE  LET row == lookup(d.state, event)
             new == ApplyTurn(d, intent, event, q)
         IN /\ event = "substantive_response" => new.questions = Append(d.questions, q)
            /\ event # "substantive_response" => new.questions = d.questions
            /\ new.messages = Append(d.messages, Filed(d, intent))
            /\ event = "loop_detected" =>
                 new.loop_matched_exchange = best_index(q, d.questions)
            /\ event # "loop_detected" =>
                 new.loop_matched_exchange = d.loop_matched_exchange
            /\ new.state = row.target /\ new.resolution = row.resolution
            /\ new.user = d.user /\ new.question_text = d.question_text
            /\ new.last_interaction = d.last_interaction
<1>1. RowOK(lookup(d.state, event)) /\ lookup(d.state, event).event = event
      /\ event # "dialogue_started"
  BY LegalRow DEF MayTake, is_open
<1>2. lookup(d.state, event).opens_exchange <=> event = "substantive_response"
  BY <1>1 DEF RowOK
<1> DEFINE row == lookup(d.state, event)
           asked == IF row.opens_exchange THEN Append(d.questions, q) ELSE d.questions
           said == Append(d.messages, [exchange |-> Len(d.questions), intent |-> intent])
           matched == IF event = "loop_detected" THEN best_index(q, d.questions)
                      ELSE d.loop_matched_exchange
<1>3. ApplyTurn(d, intent, event, q) =
        [d EXCEPT !.messages = said, !.questions = asked,
                  !.loop_matched_exchange = matched, !.state = row.target,
                  !.resolution = row.resolution]
  BY DEF ApplyTurn, Copy, DialogueType
<1>4. asked = IF event = "substantive_response" THEN Append(d.questions, q) ELSE d.questions
  BY <1>2
<1> HIDE DEF row, asked, said, matched
<1> DEFINE new == ApplyTurn(d, intent, event, q)
<1>5. /\ new.questions = asked /\ new.messages = said
      /\ new.loop_matched_exchange = matched
      /\ new.state = row.target /\ new.resolution = row.resolution
      /\ new.user = d.user /\ new.question_text = d.question_text
      /\ new.last_interaction = d.last_interaction
  BY <1>3 DEF Copy, DialogueType
<1> HIDE DEF new
<1>6. /\ event = "substantive_response" => new.questions = Append(d.questions, q)
      /\ event # "substantive_response" => new.questions = d.questions
  BY <1>4, <1>5
<1>7. new.messages = Append(d.messages, Filed(d, intent))
  BY <1>5 DEF said, Filed
<1>8. /\ event = "loop_detected" => new.loop_matched_exchange = best_index(q, d.questions)
      /\ event # "loop_detected" => new.loop_matched_exchange = d.loop_matched_exchange
  BY <1>5 DEF matched
<1> QED BY <1>5, <1>6, <1>7, <1>8 DEF row, new

\* A turn leaves every exchange but the open one as it was moved on from.
LEMMA TurnKeepsChain ==
  ASSUME NEW d \in Copy, GoodCopy(d), is_open(d), ChainOK(d),
         NEW intent \in IntentKind, NEW event, NEW q, Takes(d, intent, event, q)
  PROVE  ChainOK(ApplyTurn(d, intent, event, q))
<1> DEFINE row == lookup(d.state, event)
           new == ApplyTurn(d, intent, event, q)
           last == Len(d.questions)
           N == Len(d.messages)
<1>1. /\ d.questions \in Seq(Questions) /\ d.messages \in Seq(Message)
      /\ last \in Nat \ {0} /\ N \in Nat /\ DOMAIN d.messages = 1..N
      /\ DOMAIN d.questions = 1..last
  BY CapAssumption DEF Copy, DialogueType, GoodCopy, exchanges_used
<1>2. /\ event = "substantive_response" => new.questions = Append(d.questions, q)
      /\ event # "substantive_response" => new.questions = d.questions
      /\ new.messages = Append(d.messages, Filed(d, intent))
      /\ new.state = row.target /\ new.resolution = row.resolution
  BY TurnFields DEF Takes
<1>3. RowOK(row) /\ row.event = event /\ event # "dialogue_started"
  BY LegalRow DEF Takes, MayTake, is_open
<1>4. /\ DOMAIN new.messages = 1..(N + 1)
      /\ \A i \in 1..N : new.messages[i] = d.messages[i]
      /\ new.messages[N + 1].exchange = last /\ new.messages[N + 1].intent = intent
  BY <1>1, <1>2 DEF Message, Filed
<1>5. /\ DOMAIN new.questions = 1..Len(new.questions)
      /\ Len(new.questions) = IF event = "substantive_response" THEN last + 1 ELSE last
  BY <1>1, <1>2
<1> HIDE DEF new, row, last, N
<1>6. /\ \A n \in 1..(last - 1) : Said(new, n) = Said(d, n)
      /\ Said(new, last) = Said(d, last) \cup {N + 1}
      /\ Said(new, last + 1) = {}
      /\ N + 1 \in Said(new, last)
  <2>1. \A i \in 1..N : d.messages[i].exchange \in 1..last
    BY <1>1 DEF ChainOK
  <2>2. \A i : i \in DOMAIN new.messages <=> i \in 1..N \/ i = N + 1
    BY <1>1, <1>4
  <2>3. \A n : Said(new, n) = Said(d, n) \cup (IF n = last THEN {N + 1} ELSE {})
    BY <1>1, <1>4, <2>2, Zenon DEF Said
  <2>4. Said(d, last + 1) = {}
    BY <1>1, <2>1 DEF Said
  <2>5. last + 1 # last /\ \A n \in 1..(last - 1) : n # last
    BY <1>1
  <2> QED BY <2>3, <2>4, <2>5
<1>7. \A i \in Said(d, last) : /\ i \in 1..N
                               /\ d.messages[i].intent \notin ANSWERING_INTENTS
  BY <1>1 DEF ChainOK, Said, last
<1>8. MovedOn(new, last)
  <2>1. ASSUME NEW i \in Said(new, last)
        PROVE  i <= N + 1 /\ (new.messages[i].intent \in ANSWERING_INTENTS => i = N + 1)
    BY <1>1, <1>4, <1>6, <1>7
  <2> QED BY <1>6, <2>1 DEF MovedOn
<1>9. \A n \in 1..(last - 1) : MovedOn(new, n)
  <2> TAKE n \in 1..(last - 1)
  <2>1. MovedOn(d, n)
    BY <1>1 DEF ChainOK, last
  <2>2. \A i \in Said(d, n) : i \in 1..N
    BY <1>1 DEF Said
  <2> QED BY <1>4, <1>6, <2>1, <2>2 DEF MovedOn
<1>10. \A i \in DOMAIN new.messages : new.messages[i].exchange \in DOMAIN new.questions
  <2>1. \A i \in 1..N : d.messages[i].exchange \in 1..last
    BY <1>1 DEF ChainOK
  <2> QED BY <1>1, <1>4, <1>5, <2>1
<1>11. \A n \in DOMAIN new.questions : n < Len(new.questions) => MovedOn(new, n)
  BY <1>1, <1>5, <1>8, <1>9
<1>12. is_open(new) => \A i \in Said(new, Len(new.questions)) :
                         new.messages[i].intent \notin ANSWERING_INTENTS
  <2>1. CASE event = "substantive_response"
    BY <1>5, <1>6, <2>1
  <2>2. CASE event # "substantive_response" /\ is_open(new)
    <3>1. ~ row.opens_exchange /\ row.target \in OPEN_STATES
      BY <1>2, <1>3, <2>2 DEF RowOK, is_open
    <3>2. intent \notin ANSWERING_INTENTS
      BY <3>1, StayingRow DEF Takes, MayTake, is_open, row
    <3> QED BY <1>4, <1>5, <1>6, <1>7, <2>2, <3>2
  <2> QED BY <2>1, <2>2
<1>13. new.resolution \in {"capped", "loop_detected"} => MovedOn(new, Len(new.questions))
  BY <1>2, <1>3, <1>5, <1>8 DEF RowOK
<1> QED BY <1>10, <1>11, <1>12, <1>13 DEF ChainOK, new

\* A turn asks no question again, and says which one it found repeated.
LEMMA TurnKeepsLoop ==
  ASSUME NEW d \in Copy, GoodCopy(d), is_open(d), LoopOK(d),
         NEW intent \in IntentKind, NEW event, NEW q, Takes(d, intent, event, q)
  PROVE  LoopOK(ApplyTurn(d, intent, event, q))
<1> DEFINE row == lookup(d.state, event)
           new == ApplyTurn(d, intent, event, q)
<1>1. /\ d.questions \in Seq(Questions) /\ Len(d.questions) \in Nat
      /\ DOMAIN d.questions = 1..Len(d.questions)
      /\ d.loop_matched_exchange \in Nat \cup {None}
  BY DEF Copy, DialogueType
<1>0. MayTake(d, event, q)
  BY DEF Takes
<1>2. /\ event = "substantive_response" => new.questions = Append(d.questions, q)
      /\ event # "substantive_response" => new.questions = d.questions
      /\ event = "loop_detected" => new.loop_matched_exchange = best_index(q, d.questions)
      /\ event # "loop_detected" => new.loop_matched_exchange = d.loop_matched_exchange
      /\ new.resolution = row.resolution
  BY <1>0, TurnFields
<1>3. RowOK(row) /\ row.event = event
  BY LegalRow DEF Takes, MayTake, is_open
<1>4. d.loop_matched_exchange = None
  <2>1. d.resolution = None
    BY DEF GoodCopy
  <2>2. None # "loop_detected"
    BY NoneAssumption DEF Resolution
  <2> QED BY <2>1, <2>2 DEF LoopOK
<1>5. event = "loop_detected" => best_index(q, d.questions) \in DOMAIN d.questions
  BY <1>1, RepeatIsMatched DEF Takes
<1>6. None \notin DOMAIN d.questions
  BY <1>1, NoneAssumption
<1>7. new.resolution = "loop_detected" <=> event = "loop_detected"
  BY <1>2, <1>3 DEF RowOK
<1> HIDE DEF new, row
<1>8. \A n \in DOMAIN new.questions :
        ~ is_repeat(new.questions[n], SubSeq(new.questions, 1, n - 1))
  <2>1. CASE event = "substantive_response"
    <3>1. q \in Questions /\ ~ is_repeat(q, d.questions)
      BY <2>1 DEF Takes, MayTake
    <3>2. /\ new.questions = Append(d.questions, q)
          /\ DOMAIN new.questions = 1..(Len(d.questions) + 1)
          /\ new.questions[Len(d.questions) + 1] = q
          /\ \A n \in DOMAIN d.questions : new.questions[n] = d.questions[n]
      BY <1>1, <1>2, <2>1, <3>1
    <3>3. \A n \in 1..(Len(d.questions) + 1) :
            SubSeq(new.questions, 1, n - 1) = SubSeq(d.questions, 1, n - 1)
      BY <1>1, <3>1, <3>2
    <3>4. SubSeq(d.questions, 1, Len(d.questions)) = d.questions
      BY <1>1, SubSeqFull
    <3>5. ASSUME NEW n \in 1..(Len(d.questions) + 1)
          PROVE  ~ is_repeat(new.questions[n], SubSeq(new.questions, 1, n - 1))
      <4>1. CASE n = Len(d.questions) + 1
        <5>1. n - 1 = Len(d.questions)
          BY <1>1, <4>1
        <5>2. SubSeq(new.questions, 1, n - 1) = d.questions
          BY <3>3, <3>4, <5>1
        <5> QED BY <3>1, <3>2, <4>1, <5>2
      <4>2. CASE n # Len(d.questions) + 1
        <5>1. n \in DOMAIN d.questions
          BY <1>1, <4>2
        <5> QED BY <3>2, <3>3, <5>1 DEF LoopOK
      <4> QED BY <4>1, <4>2
    <3> QED BY <3>2, <3>5
  <2>2. CASE event # "substantive_response"
    BY <1>2, <2>2 DEF LoopOK
  <2> QED BY <2>1, <2>2
<1>9. /\ new.resolution = "loop_detected" <=> new.loop_matched_exchange # None
      /\ new.loop_matched_exchange # None => new.loop_matched_exchange \in DOMAIN new.questions
  <2>1. CASE event = "loop_detected"
    BY <1>2, <1>5, <1>6, <1>7, <2>1
  <2>2. CASE event # "loop_detected"
    BY <1>2, <1>4, <1>7, <2>2
  <2> QED BY <2>1, <2>2
<1> QED BY <1>8, <1>9 DEF LoopOK, new

\* A turn leaves a deep copy deep.
LEMMA TurnKeepsDeep ==
  ASSUME NEW d \in Copy, GoodCopy(d), is_open(d), DeepCopy(d),
         NEW intent \in IntentKind, NEW event, NEW q, Takes(d, intent, event, q)
  PROVE  DeepCopy(ApplyTurn(d, intent, event, q))
  BY TurnKeepsChain, TurnKeepsLoop DEF DeepCopy

\* Turning the mode off abandons.
LEMMA AbandoningRow ==
  ASSUME NEW s \in OPEN_STATES
  PROVE  /\ lookup(s, "mode_toggled_off").target = "abandoned"
         /\ lookup(s, "mode_toggled_off").resolution = "abandoned"
<1>1. \A t \in TRANSITIONS :
        t.event = "mode_toggled_off" => t.target = "abandoned" /\ t.resolution = "abandoned"
  BY DEF TRANSITIONS, ExitRows, ClosingRows, Asks, Stays, Closes, Row
<1> QED BY <1>1, LookupRow, EveryEventHasARow

\* So does turning the mode off: it closes the dialogue and touches nothing said.
LEMMA AbandonKeepsDeep ==
  ASSUME NEW d \in Copy, GoodCopy(d), is_open(d), DeepCopy(d)
  PROVE  DeepCopy(Abandoned(d))
<1> DEFINE row == lookup(d.state, "mode_toggled_off")
           new == Abandoned(d)
<1>1. row.target = "abandoned" /\ row.resolution = "abandoned"
  BY AbandoningRow DEF is_open
<1>2. new = [d EXCEPT !.state = row.target, !.resolution = row.resolution]
  BY DEF Abandoned
<1>3. /\ row.resolution # None /\ row.resolution \notin {"capped", "loop_detected"}
      /\ row.target \notin OPEN_STATES
  BY <1>1, NoneAssumption DEF OPEN_STATES, Resolution, AWAITING, CONFIRMING
<1> HIDE DEF row
<1>4. /\ new.questions = d.questions /\ new.messages = d.messages
      /\ new.loop_matched_exchange = d.loop_matched_exchange
      /\ new.state = row.target /\ new.resolution = row.resolution
  BY <1>2 DEF Copy, DialogueType
<1>5. d.loop_matched_exchange = None
  BY NoneAssumption DEF GoodCopy, DeepCopy, LoopOK, Resolution
<1> HIDE DEF new
<1>6. ChainOK(new)
  <2>1. \A n : MovedOn(d, n) => MovedOn(new, n)
    BY <1>4 DEF MovedOn, Said
  <2> QED BY <1>3, <1>4, <2>1 DEF DeepCopy, ChainOK, is_open
<1>7. LoopOK(new)
  BY <1>3, <1>4, <1>5 DEF DeepCopy, LoopOK
<1> QED BY <1>6, <1>7 DEF DeepCopy, new

\* And linking the copy to its record.
LEMMA LinkKeepsDeep ==
  ASSUME NEW d \in Copy, DeepCopy(d), NEW n \in Nat
  PROVE  DeepCopy([d EXCEPT !.last_interaction = n])
<1> DEFINE new == [d EXCEPT !.last_interaction = n]
<1>1. /\ new.questions = d.questions /\ new.messages = d.messages
      /\ new.loop_matched_exchange = d.loop_matched_exchange
      /\ new.state = d.state /\ new.resolution = d.resolution
  BY DEF Copy, DialogueType
<1> HIDE DEF new
<1>2. \A k : MovedOn(d, k) => MovedOn(new, k)
  BY <1>1 DEF MovedOn, Said
<1>3. ChainOK(new)
  <2>1. Said(new, Len(new.questions)) = Said(d, Len(d.questions))
    BY <1>1 DEF Said
  <2> QED BY <1>1, <1>2, <2>1 DEF DeepCopy, ChainOK, is_open
<1>4. LoopOK(new)
  BY <1>1 DEF DeepCopy, LoopOK
<1> QED BY <1>3, <1>4 DEF DeepCopy, new

\* A dialogue starts with one question, to which nothing was said.
LEMMA NewIsDeep ==
  ASSUME NEW user, NEW text, NEW q \in Questions
  PROVE  DeepCopy(NewDialogue(user, text, q))
<1> DEFINE new == NewDialogue(user, text, q)
<1>1. /\ new.questions = <<q>> /\ new.messages = <<>> /\ new.resolution = None
      /\ new.loop_matched_exchange = None
  BY DEF NewDialogue
<1> HIDE DEF new
<1>2. Len(new.questions) = 1 /\ DOMAIN new.questions = {1} /\ DOMAIN new.messages = {}
  BY <1>1
<1>3. None \notin {"capped", "loop_detected"}
  BY NoneAssumption DEF Resolution
<1>4. ChainOK(new)
  BY <1>1, <1>2, <1>3 DEF ChainOK, Said
<1>5. ~ is_repeat(q, SubSeq(new.questions, 1, 0))
  <2>1. SubSeq(new.questions, 1, 0) = <<>>
    BY SubSeqEmpty
  <2> QED BY <2>1 DEF is_repeat
<1>6. LoopOK(new)
  <2>1. new.questions[1] = q
    BY <1>1
  <2> QED BY <1>1, <1>2, <1>3, <1>5, <2>1 DEF LoopOK
<1> QED BY <1>4, <1>6 DEF DeepCopy, new

-----------------------------------------------------------------------------
(* The invariant: every copy is deep, wherever it is.                      *)

DeepRequest(r) ==
  /\ r.copy # None => DeepCopy(r.copy)
  /\ \A pair \in r.found : DeepCopy(pair[2])

DeepInv ==
  /\ \A i \in DialogueIds : dialogues[i] # None => DeepCopy(dialogues[i])
  /\ \A w \in Workers : DeepRequest(req[w])

LEMMA InitDeep == Init => DeepInv
  BY DEF Init, DeepInv, DeepRequest, NoRequest

\* It suffices to look at what a step stores and at what it leaves its own
\* request with.
LEMMA DeepStep ==
  ASSUME IInv, DeepInv, NEW w \in Workers, NEW r, DeepRequest(r),
         req' = [req EXCEPT ![w] = r],
         \A i \in DialogueIds : dialogues'[i] # None =>
           dialogues'[i] = dialogues[i] \/ DeepCopy(dialogues'[i])
  PROVE  DeepInv'
<1>1. \A v \in Workers : DeepRequest(req'[v])
  BY DEF DeepInv, IInv, TypeOK
<1>2. \A i \in DialogueIds : dialogues'[i] # None => DeepCopy(dialogues'[i])
  BY DEF DeepInv
<1> QED BY <1>1, <1>2 DEF DeepInv, DeepRequest

LEMMA NoRequestDeep == DeepRequest(NoRequest)
  BY DEF DeepRequest, NoRequest

LEMMA SetModeDeep ==
  ASSUME IInv, DeepInv, NEW w \in Workers,
         BeginSetMode(w) \/ WriteMode(w) \/ ListOpen(w) \/ CloseNext(w)
  PROVE  DeepInv'
<1>0. req[w] \in Request /\ req \in [Workers -> Request] /\ DeepRequest(req[w])
  BY DEF IInv, TypeOK, DeepInv
<1>1. CASE BeginSetMode(w)
  <2>1. PICK user \in Users, enabled \in BOOLEAN :
          req' = [req EXCEPT ![w] = [NoRequest EXCEPT !.user = user, !.enabled = enabled]]
    BY <1>1 DEF BeginSetMode
  <2>2. DeepRequest([NoRequest EXCEPT !.user = user, !.enabled = enabled])
    BY DEF DeepRequest, NoRequest
  <2> QED BY <1>1, <2>1, <2>2, DeepStep DEF BeginSetMode
<1>2. CASE WriteMode(w)
  <2>1. CASE req[w].enabled
    BY <1>2, <2>1, NoRequestDeep, DeepStep DEF WriteMode, Return
  <2>2. CASE ~ req[w].enabled
    <3>1. req' = [req EXCEPT ![w] = req[w]] /\ dialogues' = dialogues
      BY <1>0, <1>2, <2>2 DEF WriteMode
    <3> QED BY <1>0, <3>1, DeepStep
  <2> QED BY <2>1, <2>2
<1>3. CASE ListOpen(w)
  <2> DEFINE found == OpenCopies(req[w].user)
  <2>1. CASE found = {}
    BY <1>3, <2>1, NoRequestDeep, DeepStep DEF ListOpen, Return
  <2>2. CASE found # {}
    <3> DEFINE r == [req[w] EXCEPT !.found = found]
    <3>1. req' = [req EXCEPT ![w] = r] /\ dialogues' = dialogues
      BY <1>3, <2>2 DEF ListOpen
    <3>2. \A pair \in found : DeepCopy(pair[2])
      BY DEF OpenCopies, DeepInv
    <3>3. r.copy = req[w].copy /\ r.found = found
      BY <1>0 DEF Request
    <3>4. DeepRequest(r)
      BY <1>0, <3>2, <3>3 DEF DeepRequest
    <3> HIDE DEF r
    <3> QED BY <3>1, <3>4, DeepStep
  <2> QED BY <2>1, <2>2
<1>4. CASE CloseNext(w)
  <2>1. PICK pair \in req[w].found :
          /\ dialogues' = [dialogues EXCEPT ![pair[1]] = Abandoned(pair[2])]
          /\ IF req[w].found = {pair} THEN Return(w)
             ELSE req' = [req EXCEPT ![w].found = @ \ {pair}] /\ UNCHANGED pc
    BY <1>4 DEF CloseNext
  <2>2. pair[2] \in Copy /\ GoodCopy(pair[2]) /\ is_open(pair[2]) /\ DeepCopy(pair[2])
    <3>1. RequestOK(req[w], pc[w])
      BY DEF IInv
    <3> QED BY <1>0, <2>1, <3>1 DEF Request, RequestOK, CopyOK, Copy, DeepRequest
  <2>3. DeepCopy(Abandoned(pair[2]))
    BY <2>2, AbandonKeepsDeep
  <2>4. \A i \in DialogueIds : dialogues'[i] # None =>
          dialogues'[i] = dialogues[i] \/ DeepCopy(dialogues'[i])
    BY <2>1, <2>3 DEF IInv, TypeOK
  <2>5. CASE req[w].found = {pair}
    BY <2>1, <2>4, <2>5, NoRequestDeep, DeepStep DEF Return
  <2>6. CASE req[w].found # {pair}
    <3> DEFINE r == [req[w] EXCEPT !.found = @ \ {pair}]
    <3>1. req' = [req EXCEPT ![w] = r]
      BY <2>1, <2>6
    <3>2. r.copy = req[w].copy /\ r.found \subseteq req[w].found
      BY <1>0 DEF Request
    <3>3. DeepRequest(r)
      BY <1>0, <3>2 DEF DeepRequest
    <3> HIDE DEF r
    <3> QED BY <2>4, <3>1, <3>3, DeepStep
  <2> QED BY <2>5, <2>6
<1> QED BY <1>1, <1>2, <1>3, <1>4

LEMMA AskDeep ==
  ASSUME IInv, DeepInv, NEW w \in Workers, BeginAsk(w) \/ OpenDialogue(w)
  PROVE  DeepInv'
<1>0. req[w] \in Request /\ req \in [Workers -> Request] /\ DeepRequest(req[w])
  BY DEF IInv, TypeOK, DeepInv
<1>1. CASE BeginAsk(w)
  <2>1. PICK user \in Users : req' = [req EXCEPT ![w] = [NoRequest EXCEPT !.user = user]]
    BY <1>1 DEF BeginAsk
  <2>2. DeepRequest([NoRequest EXCEPT !.user = user])
    BY DEF DeepRequest, NoRequest
  <2> QED BY <1>1, <2>1, <2>2, DeepStep DEF BeginAsk
<1>2. CASE OpenDialogue(w)
  <2>1. PICK d \in DialogueIds, text \in LearnerQuestions, q \in Questions :
          req' = [req EXCEPT ![w].id = d,
                             ![w].copy = NewDialogue(req[w].user, text, q),
                             ![w].kind = "guiding_question"]
    BY <1>2 DEF OpenDialogue
  <2> DEFINE new == NewDialogue(req[w].user, text, q)
             r == [req[w] EXCEPT !.id = d, !.copy = new, !.kind = "guiding_question"]
  <2>2. DeepCopy(new)
    BY NewIsDeep
  <2> HIDE DEF new
  <2>3. r.copy = new /\ r.found = req[w].found
    BY <1>0 DEF Request
  <2>4. DeepRequest(r)
    BY <1>0, <2>2, <2>3 DEF DeepRequest
  <2>5. req' = [req EXCEPT ![w] = r]
    BY <1>0, <2>1 DEF new
  <2> HIDE DEF r
  <2> QED BY <1>2, <2>4, <2>5, DeepStep DEF OpenDialogue
<1> QED BY <1>1, <1>2

\* Whatever turn a request takes on a deep copy, it goes on with a deep one.
LEMMA TakeTurnDeep ==
  ASSUME IInv, DeepInv, NEW w \in Workers, UNCHANGED dialogues,
         req[w].copy # None, is_open(req[w].copy),
         NEW intent \in IntentKind, NEW event, NEW q,
         Takes(req[w].copy, intent, event, q), TakeTurn(w, intent, event, q)
  PROVE  DeepInv'
<1> DEFINE d == req[w].copy
           new == ApplyTurn(d, intent, event, q)
           r == [req[w] EXCEPT !.copy = new, !.intent = None,
                               !.kind = lookup(d.state, event).response_kind]
<1>1. req[w] \in Request /\ req \in [Workers -> Request] /\ DeepRequest(req[w])
  BY DEF IInv, TypeOK, DeepInv
<1>2. d \in Copy /\ GoodCopy(d) /\ DeepCopy(d)
  <2>1. RequestOK(req[w], pc[w])
    BY DEF IInv
  <2> QED BY <1>1, <2>1 DEF Request, RequestOK, CopyOK, Copy, DeepRequest
<1>3. DeepCopy(new)
  BY <1>2, TurnKeepsDeep
<1>4. req' = [req EXCEPT ![w] = r]
  BY <1>1 DEF TakeTurn
<1> HIDE DEF new, d
<1>5. r.copy = new /\ r.found = req[w].found
  BY <1>1 DEF Request
<1>6. DeepRequest(r)
  BY <1>1, <1>3, <1>5 DEF DeepRequest
<1> HIDE DEF r
<1> QED BY <1>4, <1>6, DeepStep

\* Only these intents have the events of the rows that stay.
LEMMA EventsThatStay ==
  ASSUME NEW d \in Copy, NEW intent \in IntentKind,
         EventAtCap(d, intent) \in {"off_topic", "direct_answer_requested", "exit_declined"}
  PROVE  intent \notin ANSWERING_INTENTS
<1>1. event_for_intent(d.state, intent)
        \in {"off_topic", "direct_answer_requested", "exit_declined"}
  BY DEF EventAtCap
<1> QED BY <1>1 DEF event_for_intent, ANSWERING_INTENTS, IntentKind

LEMMA ReplyDeep ==
  ASSUME IInv, DeepInv, NEW w \in Workers,
         BeginReply(w) \/ Classify(w) \/ GenerateNext(w) \/ GenerateAnswer(w)
  PROVE  DeepInv'
<1>0. /\ req[w] \in Request /\ req \in [Workers -> Request] /\ DeepRequest(req[w])
      /\ RequestOK(req[w], pc[w])
  BY DEF IInv, TypeOK, DeepInv
<1> DEFINE d == req[w].copy
<1>1. CASE BeginReply(w)
  <2>1. PICK user \in Users, i \in DialogueIds :
          /\ dialogues[i] # None
          /\ req' = [req EXCEPT ![w] = [NoRequest EXCEPT !.user = user, !.id = i,
                                                         !.copy = dialogues[i]]]
    BY <1>1 DEF BeginReply
  <2>2. DeepRequest([NoRequest EXCEPT !.user = user, !.id = i, !.copy = dialogues[i]])
    BY <2>1 DEF DeepRequest, NoRequest, DeepInv
  <2> QED BY <1>1, <2>1, <2>2, DeepStep DEF BeginReply
<1>2. CASE Classify(w)
  <2>1. PICK intent \in Intents :
          LET event == EventAtCap(d, intent)
          IN IF event = "substantive_response"
             THEN Goto(w, "generate") /\ req' = [req EXCEPT ![w].intent = intent]
             ELSE TakeTurn(w, intent, event, None)
    BY <1>2 DEF Classify
  <2>2. intent \in IntentKind
    BY IntentsAssumption
  <2>3. d # None /\ is_open(d) /\ d \in Copy
    BY <1>0, <1>2 DEF Classify, At, RequestOK, Request, Copy
  <2>4. CASE EventAtCap(d, intent) = "substantive_response"
    <3> DEFINE r == [req[w] EXCEPT !.intent = intent]
    <3>1. req' = [req EXCEPT ![w] = r] /\ dialogues' = dialogues
      BY <1>0, <1>2, <2>1, <2>4 DEF Classify
    <3>2. r.copy = req[w].copy /\ r.found = req[w].found
      BY <1>0 DEF Request
    <3>3. DeepRequest(r)
      BY <1>0, <3>2 DEF DeepRequest
    <3> HIDE DEF r
    <3> QED BY <3>1, <3>3, DeepStep
  <2>5. CASE EventAtCap(d, intent) # "substantive_response"
    <3>1. Takes(d, intent, EventAtCap(d, intent), None)
      <4>1. MayTake(d, EventAtCap(d, intent), None)
        <5>1. /\ is_legal(d.state, event_for_intent(d.state, intent))
              /\ is_legal(d.state, "cap_reached")
          BY <2>2, <2>3, EveryEventHasARow DEF is_open
        <5>2. event_for_intent(d.state, intent) # "cap_reached"
          BY <2>2 DEF event_for_intent, IntentKind
        <5> HIDE DEF d
        <5> QED BY <2>5, <5>1, <5>2 DEF MayTake, EventAtCap
      <4>2. EventAtCap(d, intent) \notin {"mode_toggled_off", "loop_detected"}
        BY <2>2 DEF EventAtCap, event_for_intent, IntentKind
      <4>3. EventAtCap(d, intent) \in {"off_topic", "direct_answer_requested",
                                       "exit_declined"}
              => intent \notin ANSWERING_INTENTS
        BY <2>2, <2>3, EventsThatStay
      <4> HIDE DEF d
      <4> QED BY <2>5, <4>1, <4>2, <4>3 DEF Takes
    <3>2. TakeTurn(w, intent, EventAtCap(d, intent), None)
      BY <2>1, <2>5
    <3>3. dialogues' = dialogues
      BY <1>2 DEF Classify
    <3> QED BY <2>2, <2>3, <3>1, <3>2, <3>3, TakeTurnDeep
  <2> QED BY <2>4, <2>5
<1>3. CASE GenerateNext(w)
  <2>1. PICK q \in Questions :
          TakeTurn(w, req[w].intent,
                   IF is_repeat(q, d.questions) THEN "loop_detected"
                   ELSE "substantive_response", q)
    BY <1>3 DEF GenerateNext
  <2>2. /\ d # None /\ is_open(d) /\ exchanges_used(d) < ExchangeCap
        /\ req[w].intent \in IntentKind
    BY <1>0, <1>3 DEF GenerateNext, At, RequestOK, Request
  <2>3. \A e \in {"loop_detected", "substantive_response"} : MayTake(d, e, q)
    BY <2>2, EveryEventHasARow DEF MayTake, is_open
  <2>4. dialogues' = dialogues
    BY <1>3 DEF GenerateNext
  <2>5. CASE is_repeat(q, d.questions)
    <3>1. Takes(d, req[w].intent, "loop_detected", q)
      BY <2>3, <2>5 DEF Takes
    <3>2. TakeTurn(w, req[w].intent, "loop_detected", q)
      BY <2>1, <2>5
    <3> QED BY <2>2, <2>4, <3>1, <3>2, TakeTurnDeep
  <2>6. CASE ~ is_repeat(q, d.questions)
    <3>1. Takes(d, req[w].intent, "substantive_response", q)
      BY <2>3, <2>6 DEF Takes
    <3>2. TakeTurn(w, req[w].intent, "substantive_response", q)
      BY <2>1, <2>6
    <3> QED BY <2>2, <2>4, <3>1, <3>2, TakeTurnDeep
  <2> QED BY <2>5, <2>6
<1>4. CASE GenerateAnswer(w)
  <2>1. req' = [req EXCEPT ![w] = req[w]] /\ dialogues' = dialogues
    BY <1>0, <1>4 DEF GenerateAnswer
  <2> QED BY <1>0, <2>1, DeepStep
<1> QED BY <1>1, <1>2, <1>3, <1>4

LEMMA FinaliseDeep ==
  ASSUME IInv, DeepInv, NEW w \in Workers,
         SaveTurn(w) \/ AppendRecord(w) \/ SaveLink(w)
  PROVE  DeepInv'
<1>0. /\ req[w] \in Request /\ req \in [Workers -> Request] /\ DeepRequest(req[w])
      /\ RequestOK(req[w], pc[w]) /\ pc[w] \in {"save", "append", "link"}
  BY DEF IInv, TypeOK, DeepInv, SaveTurn, AppendRecord, SaveLink, At
<1>1. req[w].copy \in Copy /\ DeepCopy(req[w].copy)
  BY <1>0 DEF RequestOK, DeepRequest, Request, Copy
<1>2. ASSUME dialogues' = [dialogues EXCEPT ![req[w].id] = req[w].copy]
      PROVE  \A i \in DialogueIds : dialogues'[i] # None =>
               dialogues'[i] = dialogues[i] \/ DeepCopy(dialogues'[i])
  BY <1>1, <1>2 DEF IInv, TypeOK
<1>3. CASE SaveTurn(w)
  <2>1. req' = [req EXCEPT ![w] = req[w]]
    BY <1>0, <1>3 DEF SaveTurn
  <2>2. dialogues' = [dialogues EXCEPT ![req[w].id] = req[w].copy]
    BY <1>3 DEF SaveTurn
  <2> QED BY <1>0, <1>2, <2>1, <2>2, DeepStep
<1>4. CASE AppendRecord(w)
  <2> DEFINE linked == [req[w].copy EXCEPT !.last_interaction = Len(log) + 1]
             r == [req[w] EXCEPT !.copy = linked]
  <2>1. req' = [req EXCEPT ![w] = r] /\ dialogues' = dialogues
    BY <1>0, <1>4 DEF AppendRecord
  <2>2. Len(log) + 1 \in Nat
    BY DEF IInv, TypeOK
  <2>3. DeepCopy(linked)
    BY <1>1, <2>2, LinkKeepsDeep
  <2> HIDE DEF linked
  <2>4. r.copy = linked /\ r.found = req[w].found
    BY <1>0 DEF Request
  <2>5. DeepRequest(r)
    BY <1>0, <2>3, <2>4 DEF DeepRequest
  <2> HIDE DEF r
  <2> QED BY <2>1, <2>5, DeepStep
<1>5. CASE SaveLink(w)
  <2>1. dialogues' = [dialogues EXCEPT ![req[w].id] = req[w].copy]
    BY <1>5 DEF SaveLink
  <2> QED BY <1>2, <1>5, <2>1, NoRequestDeep, DeepStep DEF SaveLink, Return
<1> QED BY <1>3, <1>4, <1>5

LEMMA NextDeep == IInv /\ DeepInv /\ [Next]_vars => DeepInv'
<1> SUFFICES ASSUME IInv, DeepInv, [Next]_vars PROVE DeepInv'
  OBVIOUS
<1>1. CASE UNCHANGED vars
  BY <1>1 DEF vars, DeepInv, DeepRequest
<1>2. ASSUME NEW w \in Workers, Begin(w) PROVE DeepInv'
  BY <1>2, SetModeDeep, AskDeep, ReplyDeep DEF Begin
<1>3. ASSUME NEW w \in Workers, StandardAnswer(w) \/ ProviderFails(w) \/ StoreFails(w)
      PROVE  DeepInv'
  BY <1>3, NoRequestDeep, DeepStep DEF StandardAnswer, ProviderFails, StoreFails, Return
<1>4. ASSUME NEW w \in Workers, Continue(w) PROVE DeepInv'
  BY <1>3, <1>4, SetModeDeep, AskDeep, ReplyDeep, FinaliseDeep DEF Continue
<1> QED BY <1>1, <1>2, <1>4 DEF Next

LEMMA DeepInvariance == Spec => []DeepInv
<1> QED BY InitDeep, NextDeep, Invariance, PTL DEF Spec

LEMMA CopiesDeep ==
  ASSUME IInv, DeepInv, NEW d \in Copies
  PROVE  d \in Copy /\ GoodCopy(d) /\ DeepCopy(d)
<1>1. CASE \E i \in DialogueIds : dialogues[i] # None /\ d = dialogues[i]
  BY <1>1 DEF IInv, TypeOK, StoredOK, CopyOK, Copy, DeepInv
<1>2. CASE \E w \in Workers : req[w].copy # None /\ d = req[w].copy
  <2>1. PICK w \in Workers : req[w].copy # None /\ d = req[w].copy
    BY <1>2
  <2>2. req[w] \in Request /\ RequestOK(req[w], pc[w]) /\ DeepRequest(req[w])
    BY DEF IInv, TypeOK, DeepInv
  <2> QED BY <2>1, <2>2 DEF Request, RequestOK, CopyOK, Copy, DeepRequest
<1>3. CASE \E w \in Workers : \E pair \in req[w].found : d = pair[2]
  <2>1. PICK w \in Workers : \E pair \in req[w].found : d = pair[2]
    BY <1>3
  <2>2. req[w] \in Request /\ RequestOK(req[w], pc[w]) /\ DeepRequest(req[w])
    BY DEF IInv, TypeOK, DeepInv
  <2> QED BY <2>1, <2>2 DEF Request, RequestOK, CopyOK, Copy, DeepRequest
<1> QED BY <1>1, <1>2, <1>3 DEF Copies, Started

\* Loop protection for any questions and any threshold: no copy of a dialogue
\* ever holds a question that repeats an earlier one of it, and one closed as
\* looping names the exchange it matched (is_repeat and best_index in reply).
THEOREM NoQuestionRepeats == Spec => []NoRepeatedQuestion
<1>1. IInv /\ DeepInv => NoRepeatedQuestion
  BY CopiesDeep DEF NoRepeatedQuestion, DeepCopy, LoopOK
<1> QED BY <1>1, Invariance, DeepInvariance, PTL

\* Which message a chain quotes, for an exchange that was moved on from.
LEMMA QuotesTheMove ==
  ASSUME NEW d \in Copy, NEW n, MovedOn(d, n)
  PROVE  /\ learner_response(d, n) \in Said(d, n)
         /\ \A i \in Said(d, n) : i <= learner_response(d, n)
<1> DEFINE said == {i \in DOMAIN d.messages : d.messages[i].exchange = n}
           answering == {i \in said : d.messages[i].intent \in ANSWERING_INTENTS}
           Last(S) == CHOOSE i \in S : \A j \in S : j <= i
<1>1. said = Said(d, n)
  BY DEF Said
<1>2. PICK k \in said : \A i \in said :
        i <= k /\ (d.messages[i].intent \in ANSWERING_INTENTS => i = k)
  BY <1>1 DEF MovedOn
<1>3. k \in Nat /\ said \subseteq Nat
  BY DEF Copy, DialogueType
<1>4. learner_response(d, n) = IF answering # {} THEN Last(answering) ELSE Last(said)
  BY <1>2 DEF learner_response
<1>5. Last(said) = k
  BY <1>2, <1>3
<1>6. answering # {} => Last(answering) = k
  BY <1>2, <1>3
<1> HIDE DEF said, answering, Last
<1> QED BY <1>1, <1>2, <1>4, <1>5, <1>6

\* And of any exchange: a message of it, if there is one.
LEMMA QuotesOrNone ==
  ASSUME NEW d \in Copy, NEW n
  PROVE  learner_response(d, n) = None <=> Said(d, n) = {}
<1> DEFINE said == {i \in DOMAIN d.messages : d.messages[i].exchange = n}
           answering == {i \in said : d.messages[i].intent \in ANSWERING_INTENTS}
           Last(S) == CHOOSE i \in S : \A j \in S : j <= i
<1>1. said = Said(d, n)
  BY DEF Said
<1>2. Len(d.messages) \in Nat /\ said \subseteq 1..Len(d.messages)
  BY DEF Copy, DialogueType
<1>3. ASSUME NEW S \in SUBSET said, S # {}
      PROVE  Last(S) \in S
  <2>1. \E m \in S : \A k \in S : k <= m
    BY <1>2, <1>3, GreatestPosition
  <2> QED BY <2>1
<1>4. None \notin said
  BY <1>2, NoneAssumption
<1>5. CASE said = {}
  BY <1>1, <1>5 DEF learner_response
<1>6. CASE said # {}
  <2>1. learner_response(d, n) = IF answering # {} THEN Last(answering) ELSE Last(said)
    BY <1>6 DEF learner_response
  <2>2. answering \subseteq said
    OBVIOUS
  <2> HIDE DEF said, answering, Last
  <2> QED BY <1>1, <1>3, <1>4, <1>6, <2>1, <2>2
<1> QED BY <1>5, <1>6

\* Every reasoning chain that can ever be built, from whatever copy, quotes for
\* each exchange the message that made the dialogue move on, and for an open
\* last exchange something the learner said in it, if anything was
\* (build_reasoning_chain, ExchangeRecord.learner_response).
THEOREM ChainsQuoteTheMove == Spec => []ChainQuotesTheMove
<1>1. IInv /\ DeepInv => ChainQuotesTheMove
  <2>0. ASSUME IInv, DeepInv, NEW d \in Copies, NEW n \in DOMAIN d.questions
        PROVE  build_reasoning_chain(d)[n].learner_response = learner_response(d, n)
    <3>1. d.questions \in Seq(Questions)
      BY <2>0, CopiesDeep DEF Copy, DialogueType
    <3> QED BY <3>1 DEF build_reasoning_chain
  <2> SUFFICES ASSUME IInv, DeepInv, NEW d \in Copies, NEW n \in DOMAIN d.questions
               PROVE  LET said == Said(d, n)
                          quoted == learner_response(d, n)
                      IN IF n < Len(d.questions)
                            \/ d.resolution \in {"capped", "loop_detected"}
                         THEN quoted \in said /\ \A i \in said : i <= quoted
                         ELSE quoted = None <=> said = {}
    BY <2>0 DEF ChainQuotesTheMove, Said
  <2>1. d \in Copy /\ ChainOK(d)
    BY CopiesDeep DEF DeepCopy
  <2>2. d.questions \in Seq(Questions)
    BY <2>1 DEF Copy, DialogueType
  <2>3. CASE n < Len(d.questions)
    BY <2>1, <2>3, QuotesTheMove DEF ChainOK
  <2>4. CASE ~ (n < Len(d.questions)) /\ d.resolution \in {"capped", "loop_detected"}
    <3>1. n = Len(d.questions)
      BY <2>2, <2>4
    <3> QED BY <2>1, <2>4, <3>1, QuotesTheMove DEF ChainOK
  <2>5. CASE ~ (n < Len(d.questions)) /\ d.resolution \notin {"capped", "loop_detected"}
    BY <2>1, <2>5, QuotesOrNone
  <2> QED BY <2>3, <2>4, <2>5
<1> QED BY <1>1, Invariance, DeepInvariance, PTL

-----------------------------------------------------------------------------
(* SocraticTurns reads the same dialogue module: its operators, reached    *)
(* through the instance, are those of the service.                         *)

LEMMA SameTable == Turns!TRANSITIONS = TRANSITIONS
  BY DEF Turns!TRANSITIONS, TRANSITIONS, Turns!Asks, Asks, Turns!Stays, Stays,
         Turns!Closes, Closes, Turns!Row, Row, Turns!AWAITING, AWAITING,
         Turns!CONFIRMING, CONFIRMING, Turns!ClosingRows, ClosingRows,
         Turns!ExitRows, ExitRows

LEMMA SameLookup == \A s, e : Turns!lookup(s, e) = lookup(s, e)
  BY SameTable DEF Turns!lookup, lookup

LEMMA SameCardinality == \A a : Turns!Cardinality(a) = Cardinality(a)
  BY DEF Turns!Cardinality, Cardinality

LEMMA SameFractions ==
  \A a, b : Turns!Shared(a, b) = Shared(a, b) /\ Turns!Either(a, b) = Either(a, b)
  BY SameCardinality DEF Turns!Shared, Shared, Turns!Either, Either

LEMMA SameTests ==
  \A q, p : /\ Turns!is_repeat(q, p) = is_repeat(q, p)
            /\ Turns!best_index(q, p) = best_index(q, p)
            /\ Turns!Restates(q, p) = Restates(q, p)
<1> TAKE q, p
<1>1. Turns!is_repeat(q, p) = is_repeat(q, p)
  BY SameFractions DEF Turns!is_repeat, is_repeat, Turns!Scores, Scores
<1>2. Turns!best_index(q, p) = best_index(q, p)
  <2>1. \A a, b, c : Turns!Closer(a, b, c) <=> Closer(a, b, c)
    BY SameFractions DEF Turns!Closer, Closer
  <2> DEFINE hits == {i \in DOMAIN p : Shared(q, p[i]) > 0}
             best == {i \in hits :
                        \A j \in hits : /\ ~ Closer(q, p[j], p[i])
                                        /\ j < i => Closer(q, p[i], p[j])}
             theirHits == {i \in DOMAIN p : Turns!Shared(q, p[i]) > 0}
             theirs == {i \in theirHits :
                          \A j \in theirHits : /\ ~ Turns!Closer(q, p[j], p[i])
                                               /\ j < i => Turns!Closer(q, p[i], p[j])}
  <2>2. theirHits = hits
    BY SameFractions
  <2>3. theirs = best
    BY <2>1, <2>2
  <2>4. Turns!best_index(q, p) = IF theirs = {} THEN None ELSE CHOOSE i \in theirs : TRUE
    BY DEF Turns!best_index
  <2>5. best_index(q, p) = IF best = {} THEN None ELSE CHOOSE i \in best : TRUE
    BY DEF best_index
  <2> HIDE DEF theirs, best
  <2> QED BY <2>3, <2>4, <2>5
<1>3. Turns!Restates(q, p) = Restates(q, p)
  BY SameFractions DEF Turns!Restates, Restates
<1> QED BY <1>1, <1>2, <1>3

LEMMA SameEvent == \A d, intent : Turns!EventAtCap(d, intent) = EventAtCap(d, intent)
  BY DEF Turns!EventAtCap, EventAtCap, Turns!event_for_intent, event_for_intent,
         Turns!exchanges_used, exchanges_used, Turns!CONFIRMING, CONFIRMING

LEMMA SameTurn ==
  \A d, i, e, q : Turns!ApplyTurn(d, i, e, q) = ApplyTurn(d, i, e, q)
<1> TAKE d, i, e, q
<1>1. Turns!lookup(d.state, e) = lookup(d.state, e)
  BY SameLookup
<1>2. Turns!best_index(q, d.questions) = best_index(q, d.questions)
  BY SameTests
<1> QED BY <1>1, <1>2, Zenon DEF Turns!ApplyTurn, ApplyTurn

LEMMA SameAbandoning == \A d : Turns!Abandoned(d) = Abandoned(d)
<1> TAKE d
<1>1. Turns!lookup(d.state, "mode_toggled_off") = lookup(d.state, "mode_toggled_off")
  BY SameLookup
<1> QED BY <1>1, Zenon DEF Turns!Abandoned, Abandoned

LEMMA SameOpening ==
  /\ \A u, t, q : Turns!NewDialogue(u, t, q) = NewDialogue(u, t, q)
  /\ \A d : Turns!is_open(d) <=> is_open(d)
  BY DEF Turns!NewDialogue, NewDialogue, Turns!is_open, is_open, Turns!OPEN_STATES,
         OPEN_STATES, Turns!AWAITING, AWAITING, Turns!CONFIRMING, CONFIRMING

\* The log's link apart, a turn, an abandoning and a new dialogue are the same
\* seen with the record's id and without it.
LEMMA TurnUnlinked ==
  ASSUME NEW d \in Copy, NEW intent, NEW event, NEW q,
         ApplyTurn(d, intent, event, q) \in Copy
  PROVE  StoredTurn(ApplyTurn(d, intent, event, q))
           = ApplyTurn(StoredTurn(d), intent, event, q)
<1>1. d # None /\ ApplyTurn(d, intent, event, q) # None
  BY NoneAssumption DEF Copy
<1> DEFINE u == StoredTurn(d)
           row == lookup(d.state, event)
           messages == Append(d.messages, [exchange |-> Len(d.questions), intent |-> intent])
           questions == IF row.opens_exchange THEN Append(d.questions, q) ELSE d.questions
           matched == IF event = "loop_detected" THEN best_index(q, d.questions)
                      ELSE d.loop_matched_exchange
           Turned(x) == [x EXCEPT !.messages = messages, !.questions = questions,
                                  !.loop_matched_exchange = matched,
                                  !.state = row.target, !.resolution = row.resolution]
<1>2. u = [d EXCEPT !.last_interaction = None]
  BY <1>1 DEF StoredTurn
<1>3. /\ u.messages = d.messages /\ u.questions = d.questions /\ u.state = d.state
      /\ u.loop_matched_exchange = d.loop_matched_exchange
  BY <1>2 DEF Copy, DialogueType
<1> HIDE DEF u
<1>4. ApplyTurn(d, intent, event, q) = Turned(d)
  BY Zenon DEF ApplyTurn
<1>5. ApplyTurn(u, intent, event, q) = Turned(u)
  BY <1>3 DEF ApplyTurn
<1> HIDE DEF row, messages, questions, matched
<1>6. [Turned(d) EXCEPT !.last_interaction = None] = Turned(u)
  BY <1>2 DEF Copy, DialogueType
<1> HIDE DEF Turned
<1> QED BY <1>1, <1>4, <1>5, <1>6 DEF StoredTurn, u

LEMMA AbandonUnlinked ==
  ASSUME NEW d \in Copy, Abandoned(d) \in Copy
  PROVE  StoredTurn(Abandoned(d)) = Abandoned(StoredTurn(d))
<1>1. d # None /\ Abandoned(d) # None
  BY NoneAssumption DEF Copy
<1> QED BY <1>1 DEF StoredTurn, Abandoned, Copy, DialogueType

LEMMA OpeningUnlinked ==
  ASSUME NEW u, NEW text, NEW q, NewDialogue(u, text, q) \in Copy
  PROVE  StoredTurn(NewDialogue(u, text, q)) = NewDialogue(u, text, q)
<1>1. NewDialogue(u, text, q) # None
  BY NoneAssumption DEF Copy
<1> QED BY <1>1 DEF StoredTurn, NewDialogue

LEMMA FieldsUnlinked ==
  ASSUME NEW d \in Copy
  PROVE  /\ StoredTurn(d) # None
         /\ is_open(StoredTurn(d)) <=> is_open(d)
         /\ StoredTurn(d).questions = d.questions
         /\ StoredTurn(d).question_text = d.question_text
         /\ \A intent : EventAtCap(StoredTurn(d), intent) = EventAtCap(d, intent)
<1>1. d # None
  BY NoneAssumption DEF Copy
<1>2. StoredTurn(d) = [d EXCEPT !.last_interaction = None]
  BY <1>1 DEF StoredTurn
<1>3. StoredTurn(d) \in Copy
  BY <1>2 DEF Copy, DialogueType
<1>4. StoredTurn(d) # None
  BY <1>3, NoneAssumption DEF Copy
<1>5. /\ StoredTurn(d).questions = d.questions
      /\ StoredTurn(d).question_text = d.question_text
      /\ StoredTurn(d).state = d.state
  BY <1>2 DEF Copy, DialogueType
<1> QED BY <1>4, <1>5 DEF is_open, EventAtCap, exchanges_used

-----------------------------------------------------------------------------
(* One request at a time.  Each request then finds the stored dialogues as *)
(* it read them, and its turn is applied to what is stored.  The await a   *)
(* request is at says how much of its turn is already done.                *)

OneAtATime == \A v, w \in Workers : v = w

\* What a question's turn, or a reply's, makes of the dialogue it began on.
AsksFor(old, new, m) ==
  /\ old = None /\ m # None /\ m.enabled
  /\ \E text \in LearnerQuestions, q \in Questions :
       ~ Restates(q, text) /\ new = NewDialogue(m.owner_user_id, text, q)

RepliesTo(old, new) ==
  /\ old # None /\ is_open(old)
  /\ \E intent \in Intents :
       \/ /\ EventAtCap(old, intent) # "substantive_response"
          /\ new = ApplyTurn(old, intent, EventAtCap(old, intent), None)
       \/ /\ EventAtCap(old, intent) = "substantive_response"
          /\ \E q \in Questions :
               /\ ~ Restates(q, old.question_text)
               /\ new = ApplyTurn(old, intent, IF is_repeat(q, old.questions)
                                               THEN "loop_detected"
                                               ELSE "substantive_response", q)

SoloOK(r, label, m, ds) ==
  /\ label = "set_mode" => (m # None => m.owner_user_id = r.user)
  /\ label = "open" => m # None /\ m.enabled /\ m.owner_user_id = r.user
  /\ label \in {"list", "close"} => m # None /\ ~ m.enabled
  /\ label = "close" => \A pair \in r.found : ds[pair[1]] = pair[2]
  /\ label \in {"classify", "generate"} => ds[r.id] = r.copy
  /\ label = "generate" =>
       r.intent \in Intents /\ EventAtCap(r.copy, r.intent) = "substantive_response"
  /\ label \in {"answer", "save"} =>
       AsksFor(ds[r.id], r.copy, m) \/ RepliesTo(ds[r.id], r.copy)
  /\ label = "append" => ds[r.id] = r.copy
  /\ label = "link" => ds[r.id] # None /\ StoredTurn(r.copy) = StoredTurn(ds[r.id])

SoloInv == \A w \in Workers : SoloOK(req[w], pc[w], mode, dialogues)

LEMMA SoloStep ==
  ASSUME OneAtATime, IInv, NEW w \in Workers, NEW r, NEW label,
         req' = [req EXCEPT ![w] = r], pc' = [pc EXCEPT ![w] = label],
         SoloOK(r, label, mode', dialogues')
  PROVE  SoloInv'
<1>1. ASSUME NEW v \in Workers PROVE SoloOK(req'[v], pc'[v], mode', dialogues')
  <2>1. v = w
    BY DEF OneAtATime
  <2>2. req'[w] = r /\ pc'[w] = label
    BY DEF IInv, TypeOK
  <2> QED BY <2>1, <2>2
<1> QED BY <1>1 DEF SoloInv

LEMMA IdleSolo == \A m, ds : SoloOK(NoRequest, "idle", m, ds)
  BY DEF SoloOK

LEMMA ReturnSolo ==
  ASSUME OneAtATime, IInv, NEW w \in Workers, Return(w)
  PROVE  SoloInv'
  BY IdleSolo, SoloStep DEF Return, Goto

LEMMA InitSolo == Init => SoloInv
  BY IdleSolo DEF Init, SoloInv

LEMMA SetModeSolo ==
  ASSUME OneAtATime, IInv, SoloInv, NEW w \in Workers,
         BeginSetMode(w) \/ WriteMode(w) \/ ListOpen(w) \/ CloseNext(w)
  PROVE  SoloInv'
<1>0. req[w] \in Request /\ req \in [Workers -> Request] /\ pc \in [Workers -> PC]
      /\ mode \in ModeState \cup {None} /\ SoloOK(req[w], pc[w], mode, dialogues)
  BY DEF IInv, TypeOK, SoloInv
<1>1. CASE BeginSetMode(w)
  <2>1. PICK user \in Users, enabled \in BOOLEAN :
          /\ Admitted(user)
          /\ req' = [req EXCEPT ![w] = [NoRequest EXCEPT !.user = user, !.enabled = enabled]]
    BY <1>1 DEF BeginSetMode
  <2> DEFINE r == [NoRequest EXCEPT !.user = user, !.enabled = enabled]
  <2>2. r.user = user
    BY DEF NoRequest
  <2>3. SoloOK(r, "set_mode", mode', dialogues')
    BY <1>1, <2>1, <2>2 DEF SoloOK, BeginSetMode, Admitted
  <2> HIDE DEF r
  <2> QED BY <1>1, <2>1, <2>3, SoloStep DEF BeginSetMode, Goto, r
<1>2. CASE WriteMode(w)
  <2>1. CASE req[w].enabled
    BY <1>2, <2>1, ReturnSolo DEF WriteMode
  <2>2. CASE ~ req[w].enabled
    <3>1. mode' # None /\ ~ mode'.enabled
      <4>1. mode'.enabled = req[w].enabled
        BY <1>2 DEF WriteMode
      <4>2. mode' \in ModeState \cup {None}
        BY <1>2, WriteModeOK DEF IInv, TypeOK
      <4>3. RequestOK(req[w], "set_mode")
        BY <1>2 DEF IInv, WriteMode, At
      <4>4. req[w].user \in Users
        BY <1>0, <4>3 DEF RequestOK, Request
      <4>5. mode' \in ModeState
        BY <1>0, <1>2, <4>4 DEF WriteMode, ModeState, Request
      <4> QED BY <2>2, <4>1, <4>5, NoneAssumption DEF ModeState
    <3>2. SoloOK(req[w], "list", mode', dialogues')
      BY <3>1 DEF SoloOK
    <3>3. req' = [req EXCEPT ![w] = req[w]] /\ pc' = [pc EXCEPT ![w] = "list"]
      BY <1>0, <1>2, <2>2 DEF WriteMode, Goto
    <3> QED BY <3>2, <3>3, SoloStep
  <2> QED BY <2>1, <2>2
<1>3. CASE ListOpen(w)
  <2> DEFINE found == OpenCopies(req[w].user)
  <2>1. CASE found = {}
    BY <1>3, <2>1, ReturnSolo DEF ListOpen
  <2>2. CASE found # {}
    <3> DEFINE r == [req[w] EXCEPT !.found = found]
    <3>1. req' = [req EXCEPT ![w] = r] /\ pc' = [pc EXCEPT ![w] = "close"]
          /\ UNCHANGED <<dialogues, mode>>
      BY <1>3, <2>2 DEF ListOpen, Goto
    <3>2. \A pair \in found : dialogues[pair[1]] = pair[2]
      BY DEF OpenCopies
    <3>3. r.found = found
      BY <1>0 DEF Request
    <3>4. mode # None /\ ~ mode.enabled
      BY <1>0, <1>3 DEF ListOpen, At, SoloOK
    <3>5. SoloOK(r, "close", mode', dialogues')
      BY <3>1, <3>2, <3>3, <3>4 DEF SoloOK
    <3> HIDE DEF r
    <3> QED BY <3>1, <3>5, SoloStep
  <2> QED BY <2>1, <2>2
<1>4. CASE CloseNext(w)
  <2>1. PICK pair \in req[w].found :
          /\ dialogues' = [dialogues EXCEPT ![pair[1]] = Abandoned(pair[2])]
          /\ IF req[w].found = {pair} THEN Return(w)
             ELSE req' = [req EXCEPT ![w].found = @ \ {pair}] /\ UNCHANGED pc
    BY <1>4 DEF CloseNext
  <2>2. CASE req[w].found = {pair}
    BY <2>1, <2>2, ReturnSolo
  <2>3. CASE req[w].found # {pair}
    <3> DEFINE r == [req[w] EXCEPT !.found = @ \ {pair}]
    <3>1. req' = [req EXCEPT ![w] = r] /\ pc' = [pc EXCEPT ![w] = "close"] /\ mode' = mode
      BY <1>0, <1>4, <2>1, <2>3 DEF CloseNext, At
    <3>2. r.found = req[w].found \ {pair}
      BY <1>0 DEF Request
    <3>3. \A p \in req[w].found : dialogues[p[1]] = p[2]
      BY <1>0, <1>4 DEF CloseNext, At, SoloOK
    <3>4. \A p \in req[w].found : p = <<p[1], p[2]>> /\ p[1] \in DialogueIds
      BY <1>0 DEF Request
    <3>5. \A p \in req[w].found \ {pair} : p[1] # pair[1]
      BY <2>1, <3>3, <3>4
    <3>6. \A p \in r.found : dialogues'[p[1]] = p[2]
      BY <2>1, <3>2, <3>3, <3>4, <3>5 DEF IInv, TypeOK
    <3>7. SoloOK(r, "close", mode', dialogues')
      BY <1>0, <1>4, <3>1, <3>6 DEF SoloOK, CloseNext, At
    <3> HIDE DEF r
    <3> QED BY <3>1, <3>7, SoloStep
  <2> QED BY <2>2, <2>3
<1> QED BY <1>1, <1>2, <1>3, <1>4

LEMMA AskSolo ==
  ASSUME OneAtATime, IInv, SoloInv, NEW w \in Workers, BeginAsk(w) \/ OpenDialogue(w)
  PROVE  SoloInv'
<1>0. req[w] \in Request /\ req \in [Workers -> Request]
      /\ SoloOK(req[w], pc[w], mode, dialogues)
  BY DEF IInv, TypeOK, SoloInv
<1>1. CASE BeginAsk(w)
  <2>1. PICK user \in Users :
          /\ Admitted(user)
          /\ req' = [req EXCEPT ![w] = [NoRequest EXCEPT !.user = user]]
    BY <1>1 DEF BeginAsk
  <2> DEFINE r == [NoRequest EXCEPT !.user = user]
             label == IF ModeEnabled THEN "open" ELSE "standard"
  <2>2. r.user = user
    BY DEF NoRequest
  <2>3. SoloOK(r, label, mode', dialogues')
    BY <1>1, <2>1, <2>2 DEF SoloOK, BeginAsk, Admitted, ModeEnabled
  <2>4. req' = [req EXCEPT ![w] = r] /\ pc' = [pc EXCEPT ![w] = label]
    BY <1>1, <2>1 DEF BeginAsk, Goto
  <2> HIDE DEF r, label
  <2> QED BY <2>3, <2>4, SoloStep
<1>2. CASE OpenDialogue(w)
  <2>1. PICK d \in DialogueIds, text \in LearnerQuestions, q \in Questions :
          /\ Fresh(d)
          /\ ~ Restates(q, text)
          /\ req' = [req EXCEPT ![w].id = d,
                                ![w].copy = NewDialogue(req[w].user, text, q),
                                ![w].kind = "guiding_question"]
    BY <1>2 DEF OpenDialogue
  <2> DEFINE new == NewDialogue(req[w].user, text, q)
             r == [req[w] EXCEPT !.id = d, !.copy = new, !.kind = "guiding_question"]
  <2>2. mode # None /\ mode.enabled /\ mode.owner_user_id = req[w].user
    BY <1>0, <1>2 DEF OpenDialogue, At, SoloOK
  <2>3. dialogues[d] = None
    BY <2>1 DEF Fresh
  <2>4. AsksFor(dialogues[d], new, mode)
    BY <2>1, <2>2, <2>3 DEF AsksFor
  <2> HIDE DEF new
  <2>5. r.copy = new /\ r.id = d
    BY <1>0 DEF Request
  <2>6. UNCHANGED <<dialogues, mode>> /\ pc' = [pc EXCEPT ![w] = "save"]
    BY <1>2 DEF OpenDialogue, Goto
  <2>7. SoloOK(r, "save", mode', dialogues')
    BY <2>4, <2>5, <2>6 DEF SoloOK
  <2>8. req' = [req EXCEPT ![w] = r]
    BY <1>0, <2>1 DEF new
  <2> HIDE DEF r
  <2> QED BY <2>6, <2>7, <2>8, SoloStep
<1> QED BY <1>1, <1>2

\* A turn taken on a copy that is what is stored is a reply to what is stored.
LEMMA TakeTurnSolo ==
  ASSUME OneAtATime, IInv, SoloInv, NEW w \in Workers, UNCHANGED <<dialogues, mode>>,
         NEW intent, NEW event, NEW q, TakeTurn(w, intent, event, q),
         RepliesTo(dialogues[req[w].id], ApplyTurn(req[w].copy, intent, event, q))
  PROVE  SoloInv'
<1> DEFINE new == ApplyTurn(req[w].copy, intent, event, q)
           kind == lookup(req[w].copy.state, event).response_kind
           r == [req[w] EXCEPT !.copy = new, !.intent = None, !.kind = kind]
           label == IF kind \in ANSWER_BEARING_KINDS THEN "answer" ELSE "save"
<1>1. req[w] \in Request /\ req \in [Workers -> Request]
  BY DEF IInv, TypeOK
<1>2. req' = [req EXCEPT ![w] = r] /\ pc' = [pc EXCEPT ![w] = label]
  BY <1>1 DEF TakeTurn, Goto
<1> HIDE DEF new, kind
<1>3. r.copy = new /\ r.id = req[w].id
  BY <1>1 DEF Request
<1>4. RepliesTo(dialogues[r.id], r.copy)
  BY <1>3 DEF new
<1>5. SoloOK(r, label, mode', dialogues')
  BY <1>4 DEF SoloOK
<1> HIDE DEF r, label
<1> QED BY <1>2, <1>5, SoloStep

LEMMA ReplySolo ==
  ASSUME OneAtATime, IInv, SoloInv, NEW w \in Workers,
         BeginReply(w) \/ Classify(w) \/ GenerateNext(w) \/ GenerateAnswer(w)
  PROVE  SoloInv'
<1>0. /\ req[w] \in Request /\ req \in [Workers -> Request]
      /\ SoloOK(req[w], pc[w], mode, dialogues) /\ RequestOK(req[w], pc[w])
  BY DEF IInv, TypeOK, SoloInv
<1> DEFINE d == req[w].copy
<1>1. CASE BeginReply(w)
  <2>1. PICK user \in Users, i \in DialogueIds :
          req' = [req EXCEPT ![w] = [NoRequest EXCEPT !.user = user, !.id = i,
                                                      !.copy = dialogues[i]]]
    BY <1>1 DEF BeginReply
  <2> DEFINE r == [NoRequest EXCEPT !.user = user, !.id = i, !.copy = dialogues[i]]
  <2>2. r.id = i /\ r.copy = dialogues[i]
    BY DEF NoRequest
  <2>3. pc' = [pc EXCEPT ![w] = "classify"] /\ UNCHANGED <<dialogues, mode>>
    BY <1>1 DEF BeginReply, Goto
  <2>4. SoloOK(r, "classify", mode', dialogues')
    BY <2>2, <2>3 DEF SoloOK
  <2>5. req' = [req EXCEPT ![w] = r]
    BY <2>1
  <2> HIDE DEF r
  <2> QED BY <2>3, <2>4, <2>5, SoloStep
<1>2. CASE Classify(w)
  <2>0. dialogues[req[w].id] = d /\ d # None /\ is_open(d) /\ UNCHANGED <<dialogues, mode>>
    BY <1>0, <1>2 DEF Classify, At, SoloOK, RequestOK
  <2>1. PICK intent \in Intents :
          LET event == EventAtCap(d, intent)
          IN IF event = "substantive_response"
             THEN Goto(w, "generate") /\ req' = [req EXCEPT ![w].intent = intent]
             ELSE TakeTurn(w, intent, event, None)
    BY <1>2 DEF Classify
  <2>2. CASE EventAtCap(d, intent) = "substantive_response"
    <3> DEFINE r == [req[w] EXCEPT !.intent = intent]
    <3>1. req' = [req EXCEPT ![w] = r] /\ pc' = [pc EXCEPT ![w] = "generate"]
      BY <1>0, <2>1, <2>2 DEF Goto
    <3>2. r.intent = intent /\ r.copy = d /\ r.id = req[w].id
      BY <1>0 DEF Request
    <3>3. SoloOK(r, "generate", mode', dialogues')
      BY <2>0, <2>2, <3>2 DEF SoloOK
    <3> HIDE DEF r
    <3> QED BY <3>1, <3>3, SoloStep
  <2>3. CASE EventAtCap(d, intent) # "substantive_response"
    <3>1. TakeTurn(w, intent, EventAtCap(d, intent), None)
      BY <2>1, <2>3
    <3>2. RepliesTo(d, ApplyTurn(d, intent, EventAtCap(d, intent), None))
      BY <2>0, <2>3 DEF RepliesTo
    <3> QED BY <2>0, <3>1, <3>2, TakeTurnSolo
  <2> QED BY <2>2, <2>3
<1>3. CASE GenerateNext(w)
  <2>0. /\ dialogues[req[w].id] = d /\ d # None /\ is_open(d) /\ UNCHANGED <<dialogues, mode>>
        /\ req[w].intent \in Intents /\ EventAtCap(d, req[w].intent) = "substantive_response"
    BY <1>0, <1>3 DEF GenerateNext, At, SoloOK, RequestOK
  <2>1. PICK q \in Questions :
          /\ ~ Restates(q, d.question_text)
          /\ TakeTurn(w, req[w].intent,
                      IF is_repeat(q, d.questions)
                      THEN "loop_detected" ELSE "substantive_response", q)
    BY <1>3 DEF GenerateNext
  <2>2. RepliesTo(d, ApplyTurn(d, req[w].intent,
                               IF is_repeat(q, d.questions)
                               THEN "loop_detected" ELSE "substantive_response", q))
    BY <2>0, <2>1 DEF RepliesTo
  <2> QED BY <2>0, <2>1, <2>2, TakeTurnSolo
<1>4. CASE GenerateAnswer(w)
  <2>1. req' = [req EXCEPT ![w] = req[w]] /\ pc' = [pc EXCEPT ![w] = "save"]
        /\ UNCHANGED <<dialogues, mode>>
    BY <1>0, <1>4 DEF GenerateAnswer, Goto
  <2>2. SoloOK(req[w], "save", mode', dialogues')
    BY <1>0, <1>4, <2>1 DEF GenerateAnswer, At, SoloOK
  <2> QED BY <2>1, <2>2, SoloStep
<1> QED BY <1>1, <1>2, <1>3, <1>4

LEMMA FinaliseSolo ==
  ASSUME OneAtATime, IInv, SoloInv, NEW w \in Workers,
         SaveTurn(w) \/ AppendRecord(w) \/ SaveLink(w)
  PROVE  SoloInv'
<1>0. /\ req[w] \in Request /\ req \in [Workers -> Request]
      /\ dialogues \in [DialogueIds -> Copy \cup {None}]
      /\ SoloOK(req[w], pc[w], mode, dialogues) /\ RequestOK(req[w], pc[w])
  BY DEF IInv, TypeOK, SoloInv, Copy
<1>1. CASE SaveTurn(w)
  <2>1. req' = [req EXCEPT ![w] = req[w]] /\ pc' = [pc EXCEPT ![w] = "append"]
        /\ dialogues' = [dialogues EXCEPT ![req[w].id] = req[w].copy]
    BY <1>0, <1>1 DEF SaveTurn, Goto
  <2>2. req[w].id \in DialogueIds
    BY <1>0, <1>1 DEF SaveTurn, At, RequestOK, Request
  <2>3. dialogues'[req[w].id] = req[w].copy
    BY <1>0, <2>1, <2>2
  <2>4. SoloOK(req[w], "append", mode', dialogues')
    BY <2>3 DEF SoloOK
  <2> QED BY <2>1, <2>4, SoloStep
<1>2. CASE AppendRecord(w)
  <2> DEFINE r == [req[w] EXCEPT !.copy.last_interaction = Len(log) + 1]
  <2>1. req' = [req EXCEPT ![w] = r] /\ pc' = [pc EXCEPT ![w] = "link"]
        /\ UNCHANGED <<dialogues, mode>>
    BY <1>0, <1>2 DEF AppendRecord, Goto
  <2>2. req[w].copy \in Copy /\ dialogues[req[w].id] = req[w].copy
    BY <1>0, <1>2 DEF AppendRecord, At, RequestOK, Request, Copy, SoloOK
  <2>3. r.copy = [req[w].copy EXCEPT !.last_interaction = Len(log) + 1] /\ r.id = req[w].id
    BY <1>0 DEF Request
  <2>4. Len(log) \in Nat
    BY DEF IInv, TypeOK
  <2>5. r.copy # None /\ dialogues[req[w].id] # None
    <3>1. PICK c \in Copy, n \in Nat : c = req[w].copy /\ n = Len(log) + 1
      BY <2>2, <2>4
    <3> HIDE DEF r
    <3>2. r.copy = [c EXCEPT !.last_interaction = n]
      BY <2>2, <2>3, <3>1
    <3>3. r.copy \in Copy
      BY <3>2 DEF Copy, DialogueType
    <3> QED BY <2>2, <3>3, NoneAssumption DEF Copy
  <2>6. StoredTurn(r.copy) = StoredTurn(dialogues[req[w].id])
    BY <2>2, <2>3, <2>5 DEF StoredTurn, Copy, DialogueType
  <2> HIDE DEF r
  <2>7. SoloOK(r, "link", mode', dialogues')
    BY <2>1, <2>3, <2>5, <2>6 DEF SoloOK
  <2> QED BY <2>1, <2>7, SoloStep
<1>3. CASE SaveLink(w)
  BY <1>3, ReturnSolo DEF SaveLink
<1> QED BY <1>1, <1>2, <1>3

LEMMA NextSolo == OneAtATime /\ IInv /\ SoloInv /\ [Next]_vars => SoloInv'
<1> SUFFICES ASSUME OneAtATime, IInv, SoloInv, [Next]_vars PROVE SoloInv'
  OBVIOUS
<1>1. CASE UNCHANGED vars
  BY <1>1 DEF vars, SoloInv
<1>2. ASSUME NEW w \in Workers, Begin(w) PROVE SoloInv'
  BY <1>2, SetModeSolo, AskSolo, ReplySolo DEF Begin
<1>3. ASSUME NEW w \in Workers, Continue(w) PROVE SoloInv'
  BY <1>3, SetModeSolo, AskSolo, ReplySolo, FinaliseSolo, ReturnSolo
     DEF Continue, StandardAnswer, ProviderFails, StoreFails
<1> QED BY <1>1, <1>2, <1>3 DEF Next

LEMMA SoloInvariance ==
  ASSUME OneAtATime
  PROVE  Spec => [](IInv /\ SoloInv)
<1>1. Init => IInv /\ SoloInv
  BY InitOK, InitSolo
<1>2. IInv /\ SoloInv /\ [Next]_vars => (IInv /\ SoloInv)'
  BY NextOK, NextSolo
<1> QED BY <1>1, <1>2, PTL DEF Spec

\* What a step may do to a stored dialogue: nothing, save the turn or the
\* abandoning of an open one, or link it to its record.
LEMMA SoloSteps ==
  ASSUME OneAtATime, IInv, SoloInv, Next
  PROVE  \/ UNCHANGED dialogues
         \/ \E i \in DialogueIds, new \in Copy :
              /\ dialogues' = [dialogues EXCEPT ![i] = new]
              /\ \/ dialogues[i] = None \/ is_open(dialogues[i])
                 \/ dialogues[i] # None /\ StoredTurn(new) = StoredTurn(dialogues[i])
<1> DEFINE Allowed ==
             \E i \in DialogueIds, new \in Copy :
               /\ dialogues' = [dialogues EXCEPT ![i] = new]
               /\ \/ dialogues[i] = None \/ is_open(dialogues[i])
                  \/ dialogues[i] # None /\ StoredTurn(new) = StoredTurn(dialogues[i])
<1>1. PICK w \in Workers : Begin(w) \/ Continue(w)
  BY DEF Next
<1>2. /\ req[w] \in Request /\ RequestOK(req[w], pc[w])
      /\ SoloOK(req[w], pc[w], mode, dialogues)
  BY DEF IInv, TypeOK, SoloInv
<1>3. CASE CloseNext(w)
  <2>1. PICK pair \in req[w].found :
          dialogues' = [dialogues EXCEPT ![pair[1]] = Abandoned(pair[2])]
    BY <1>3 DEF CloseNext
  <2>2. /\ pair[1] \in DialogueIds /\ pair[2] \in Copy /\ is_open(pair[2]) /\ GoodCopy(pair[2])
        /\ dialogues[pair[1]] = pair[2]
    BY <1>2, <1>3, <2>1 DEF CloseNext, At, Request, RequestOK, SoloOK, Copy, CopyOK
  <2>3. Abandoned(pair[2]) \in Copy
    BY <2>2, AbandonKeepsCopy
  <2> QED BY <2>1, <2>2, <2>3
<1>4. CASE SaveTurn(w) \/ SaveLink(w)
  <2>1. dialogues' = [dialogues EXCEPT ![req[w].id] = req[w].copy] /\ pc[w] \in {"save", "link"}
    BY <1>4 DEF SaveTurn, SaveLink, At
  <2>2. req[w].id \in DialogueIds /\ req[w].copy \in Copy
    BY <1>2, <2>1 DEF Request, RequestOK, Copy
  <2>3. CASE pc[w] = "save"
    <3>1. dialogues[req[w].id] = None \/ is_open(dialogues[req[w].id])
      BY <1>2, <2>3 DEF SoloOK, AsksFor, RepliesTo
    <3> QED BY <2>1, <2>2, <3>1
  <2>4. CASE pc[w] = "link"
    <3>1. /\ dialogues[req[w].id] # None
          /\ StoredTurn(req[w].copy) = StoredTurn(dialogues[req[w].id])
      BY <1>2, <2>4 DEF SoloOK
    <3> QED BY <2>1, <2>2, <3>1
  <2> QED BY <2>1, <2>3, <2>4
<1>5. CASE ~ CloseNext(w) /\ ~ SaveTurn(w) /\ ~ SaveLink(w)
  BY <1>1, <1>5
     DEF Begin, Continue, BeginSetMode, BeginAsk, BeginReply, WriteMode, ListOpen,
         StandardAnswer, OpenDialogue, Classify, GenerateNext, GenerateAnswer,
         AppendRecord, ProviderFails, StoreFails
<1> QED BY <1>3, <1>4, <1>5

LEMMA NeverReopened ==
  ASSUME OneAtATime, IInv, SoloInv, [Next]_vars
  PROVE  \A d \in Started : ~ is_open(dialogues[d]) =>
           /\ dialogues'[d].state = dialogues[d].state
           /\ dialogues'[d].resolution = dialogues[d].resolution
<1>1. CASE UNCHANGED dialogues
  BY <1>1
<1>2. CASE ~ UNCHANGED dialogues
  <2>1. PICK i \in DialogueIds, new \in Copy :
          /\ dialogues' = [dialogues EXCEPT ![i] = new]
          /\ \/ dialogues[i] = None \/ is_open(dialogues[i])
             \/ dialogues[i] # None /\ StoredTurn(new) = StoredTurn(dialogues[i])
    BY <1>2, SoloSteps DEF vars
  <2>2. dialogues \in [DialogueIds -> Copy \cup {None}]
    BY DEF IInv, TypeOK, Copy
  <2>3. ASSUME dialogues[i] # None, StoredTurn(new) = StoredTurn(dialogues[i])
        PROVE  new.state = dialogues[i].state /\ new.resolution = dialogues[i].resolution
    <3>1. new # None /\ dialogues[i] \in Copy
      BY <2>2, <2>3, NoneAssumption DEF Copy
    <3>2. [new EXCEPT !.last_interaction = None]
            = [dialogues[i] EXCEPT !.last_interaction = None]
      BY <2>3, <3>1 DEF StoredTurn
    <3>3. \A c \in Copy : /\ [c EXCEPT !.last_interaction = None].state = c.state
                          /\ [c EXCEPT !.last_interaction = None].resolution = c.resolution
      BY DEF Copy, DialogueType
    <3> QED BY <3>1, <3>2, <3>3
  <2> QED BY <2>1, <2>2, <2>3 DEF Started
<1> QED BY <1>1, <1>2

\* "There is no reopen": while requests come one at a time, a dialogue that is
\* stored closed stays as it closed, whatever provider or store call fails
\* (lookup's docstring; _finalise, _close_in_flight).
THEOREM NothingReopens ==
  ASSUME OneAtATime
  PROVE  Spec => NoReopen
<1>1. IInv /\ SoloInv /\ [Next]_vars
        => [\A d \in Started : ~ is_open(dialogues[d]) =>
              /\ dialogues'[d].state = dialogues[d].state
              /\ dialogues'[d].resolution = dialogues[d].resolution]_vars
  BY NeverReopened
<1>2. Spec => [](IInv /\ SoloInv)
  BY SoloInvariance
<1> QED BY <1>1, <1>2, PTL DEF Spec, NoReopen

-----------------------------------------------------------------------------
(* The service implements SocraticTurns: a turn happens when it is first   *)
(* saved, and every other await is a stutter.                              *)

Seen == [d \in DialogueIds |-> StoredTurn(dialogues[d])]

LEMMA StoringSeen ==
  ASSUME IInv, NEW i \in DialogueIds, NEW new,
         dialogues' = [dialogues EXCEPT ![i] = new]
  PROVE  /\ Seen' = [Seen EXCEPT ![i] = StoredTurn(new)]
         /\ Seen[i] = StoredTurn(dialogues[i])
  BY DEF IInv, TypeOK, Seen

LEMMA WriteModeTurn ==
  ASSUME IInv, SoloInv, NEW w \in Workers, WriteMode(w)
  PROVE  Turns!SetMode
<1>1. /\ req[w] \in Request /\ RequestOK(req[w], "set_mode")
      /\ SoloOK(req[w], "set_mode", mode, dialogues)
  BY DEF IInv, TypeOK, SoloInv, WriteMode, At
<1>2. req[w].user \in Users /\ req[w].enabled \in BOOLEAN
  BY <1>1 DEF Request, RequestOK
<1>3. mode # None => mode.owner_user_id = req[w].user
  BY <1>1 DEF SoloOK
<1>4. mode' = [enabled |-> req[w].enabled, owner_user_id |-> req[w].user]
  BY <1>3 DEF WriteMode
<1>5. dialogues' = dialogues
  BY DEF WriteMode
<1> QED BY <1>2, <1>3, <1>4, <1>5 DEF Turns!SetMode

LEMMA CloseNextTurn ==
  ASSUME IInv, SoloInv, NEW w \in Workers, CloseNext(w)
  PROVE  \E i \in DialogueIds : Turns!Abandon(i)
<1>1. PICK pair \in req[w].found :
        dialogues' = [dialogues EXCEPT ![pair[1]] = Abandoned(pair[2])]
  BY DEF CloseNext
<1>2. /\ req[w] \in Request /\ RequestOK(req[w], "close")
      /\ SoloOK(req[w], "close", mode, dialogues) /\ mode' = mode
  BY DEF IInv, TypeOK, SoloInv, CloseNext, At
<1>3. /\ pair[1] \in DialogueIds /\ pair[2] \in Copy /\ is_open(pair[2]) /\ GoodCopy(pair[2])
      /\ dialogues[pair[1]] = pair[2] /\ mode # None /\ ~ mode.enabled
  BY <1>1, <1>2 DEF Request, RequestOK, SoloOK, Copy, CopyOK
<1>4. Abandoned(pair[2]) \in Copy
  BY <1>3, AbandonKeepsCopy
<1>5. StoredTurn(Abandoned(pair[2])) = Turns!Abandoned(StoredTurn(pair[2]))
  BY <1>3, <1>4, AbandonUnlinked, SameAbandoning
<1>6. StoredTurn(pair[2]) # None /\ Turns!is_open(StoredTurn(pair[2]))
  BY <1>3, FieldsUnlinked, SameOpening
<1>7. /\ Seen' = [Seen EXCEPT ![pair[1]] = Turns!Abandoned(Seen[pair[1]])]
      /\ Seen[pair[1]] = StoredTurn(pair[2])
  BY <1>1, <1>3, <1>5, StoringSeen
<1>8. Turns!Abandon(pair[1])
  BY <1>2, <1>3, <1>6, <1>7 DEF Turns!Abandon, Seen
<1> QED BY <1>3, <1>8

LEMMA SaveTurnTurn ==
  ASSUME IInv, SoloInv, NEW w \in Workers, SaveTurn(w)
  PROVE  \E i \in DialogueIds : Turns!Ask(i) \/ Turns!Reply(i)
<1> DEFINE i == req[w].id
           new == req[w].copy
           old == dialogues[i]
<1>1. /\ req[w] \in Request /\ RequestOK(req[w], "save")
      /\ SoloOK(req[w], "save", mode, dialogues) /\ mode' = mode
      /\ dialogues' = [dialogues EXCEPT ![i] = new]
  BY DEF IInv, TypeOK, SoloInv, SaveTurn, At
<1>2. i \in DialogueIds /\ new \in Copy /\ dialogues \in [DialogueIds -> Copy \cup {None}]
  BY <1>1 DEF Request, RequestOK, Copy, IInv, TypeOK
<1>3. Seen' = [Seen EXCEPT ![i] = StoredTurn(new)] /\ Seen[i] = StoredTurn(old)
  BY <1>1, <1>2, StoringSeen
<1>4. AsksFor(old, new, mode) \/ RepliesTo(old, new)
  BY <1>1 DEF SoloOK
<1>5. CASE AsksFor(old, new, mode)
  <2>1. PICK text \in LearnerQuestions, q \in Questions :
          /\ ~ Restates(q, text)
          /\ new = NewDialogue(mode.owner_user_id, text, q)
    BY <1>5 DEF AsksFor
  <2>2. StoredTurn(new) = Turns!NewDialogue(mode.owner_user_id, text, q)
    BY <1>2, <2>1, OpeningUnlinked, SameOpening
  <2>3. ~ Turns!Restates(q, text)
    BY <2>1, SameTests
  <2>4. Seen[i] = None /\ mode # None /\ mode.enabled
    BY <1>3, <1>5 DEF AsksFor, StoredTurn
  <2> HIDE DEF i, new, old
  <2>5. Turns!Ask(i)
    BY <1>1, <1>3, <2>2, <2>3, <2>4 DEF Turns!Ask, Seen
  <2> QED BY <1>2, <2>5
<1>6. CASE RepliesTo(old, new)
  <2> DEFINE seen == StoredTurn(old)
  <2>1. old \in Copy /\ is_open(old)
    BY <1>2, <1>6 DEF RepliesTo
  <2>2. /\ seen # None /\ Turns!is_open(seen)
        /\ seen.questions = old.questions /\ seen.question_text = old.question_text
        /\ \A intent : Turns!EventAtCap(seen, intent) = EventAtCap(old, intent)
    BY <2>1, FieldsUnlinked, SameOpening, SameEvent
  <2>3. PICK intent \in Intents :
          \/ /\ EventAtCap(old, intent) # "substantive_response"
             /\ new = ApplyTurn(old, intent, EventAtCap(old, intent), None)
          \/ /\ EventAtCap(old, intent) = "substantive_response"
             /\ \E q \in Questions :
                  /\ ~ Restates(q, old.question_text)
                  /\ new = ApplyTurn(old, intent, IF is_repeat(q, old.questions)
                                                  THEN "loop_detected"
                                                  ELSE "substantive_response", q)
    BY <1>6 DEF RepliesTo
  <2>4. \A e, q : new = ApplyTurn(old, intent, e, q)
                    => StoredTurn(new) = Turns!ApplyTurn(seen, intent, e, q)
    BY <1>2, <2>1, TurnUnlinked, SameTurn
  <2> DEFINE event == Turns!EventAtCap(seen, intent)
             Take(e, q) == Seen' = [Seen EXCEPT ![i] = Turns!ApplyTurn(seen, intent, e, q)]
  <2>5. event = EventAtCap(old, intent)
    BY <2>2
  <2> HIDE DEF event
  <2>6. CASE event # "substantive_response"
    <3>1. Take(event, None)
      BY <1>3, <2>3, <2>4, <2>5, <2>6
    <3>2. /\ Seen[i] # None /\ Turns!is_open(Seen[i])
          /\ Turns!EventAtCap(Seen[i], intent) # "substantive_response"
          /\ Seen' = [Seen EXCEPT ![i] = Turns!ApplyTurn(Seen[i], intent,
                                        Turns!EventAtCap(Seen[i], intent), None)]
      BY <1>3, <2>2, <2>6, <3>1 DEF event
    <3> HIDE DEF i, new, old
    <3>3. Turns!Reply(i)
      BY <1>1, <2>3, <3>2 DEF Turns!Reply, Seen
    <3> QED BY <1>2, <3>3
  <2>7. CASE event = "substantive_response"
    <3>1. PICK q \in Questions :
            /\ ~ Restates(q, old.question_text)
            /\ new = ApplyTurn(old, intent, IF is_repeat(q, old.questions)
                                            THEN "loop_detected"
                                            ELSE "substantive_response", q)
      BY <2>3, <2>5, <2>7
    <3>2. /\ ~ Turns!Restates(q, seen.question_text)
          /\ Turns!is_repeat(q, seen.questions) <=> is_repeat(q, old.questions)
      BY <2>2, <3>1, SameTests
    <3>3. Take(IF Turns!is_repeat(q, seen.questions) THEN "loop_detected" ELSE event, q)
      BY <1>3, <2>4, <2>7, <3>1, <3>2
    <3>4. /\ Seen[i] # None /\ Turns!is_open(Seen[i])
          /\ Turns!EventAtCap(Seen[i], intent) = "substantive_response"
          /\ ~ Turns!Restates(q, Seen[i].question_text)
          /\ Seen' = [Seen EXCEPT ![i] = Turns!ApplyTurn(Seen[i], intent,
                        IF Turns!is_repeat(q, Seen[i].questions) THEN "loop_detected"
                        ELSE Turns!EventAtCap(Seen[i], intent), q)]
      BY <1>3, <2>2, <2>7, <3>2, <3>3 DEF event
    <3> HIDE DEF i, new, old
    <3>5. Turns!Reply(i)
      BY <1>1, <2>3, <3>1, <3>4 DEF Turns!Reply, Seen
    <3> QED BY <1>2, <3>5
  <2> QED BY <2>6, <2>7
<1> QED BY <1>4, <1>5, <1>6

LEMMA SaveLinkTurn ==
  ASSUME IInv, SoloInv, NEW w \in Workers, SaveLink(w)
  PROVE  Seen' = Seen /\ mode' = mode
<1>1. /\ req[w] \in Request /\ RequestOK(req[w], "link")
      /\ SoloOK(req[w], "link", mode, dialogues) /\ mode' = mode
      /\ dialogues' = [dialogues EXCEPT ![req[w].id] = req[w].copy]
  BY DEF IInv, TypeOK, SoloInv, SaveLink, At
<1>2. req[w].id \in DialogueIds
  BY <1>1 DEF Request, RequestOK
<1>3. StoredTurn(req[w].copy) = StoredTurn(dialogues[req[w].id])
  BY <1>1 DEF SoloOK
<1>4. /\ Seen' = [Seen EXCEPT ![req[w].id] = StoredTurn(req[w].copy)]
      /\ Seen[req[w].id] = StoredTurn(dialogues[req[w].id])
  BY <1>1, <1>2, StoringSeen
<1> QED BY <1>1, <1>2, <1>3, <1>4 DEF Seen

LEMMA StepOfTurns ==
  ASSUME IInv, SoloInv, [Next]_vars
  PROVE  [Turns!TurnsNext]_(Turns!turnVars)
<1>1. CASE Seen' = Seen /\ mode' = mode
  BY <1>1 DEF Turns!turnVars, Seen
<1>2. CASE dialogues' = dialogues /\ mode' = mode
  BY <1>1, <1>2 DEF Seen
<1>3. ASSUME NEW w \in Workers, WriteMode(w) \/ CloseNext(w) \/ SaveTurn(w) \/ SaveLink(w)
      PROVE  [Turns!TurnsNext]_(Turns!turnVars)
  BY <1>1, <1>3, WriteModeTurn, CloseNextTurn, SaveTurnTurn, SaveLinkTurn
     DEF Turns!TurnsNext
<1>4. CASE Next
  <2>1. PICK w \in Workers : Begin(w) \/ Continue(w)
    BY <1>4 DEF Next
  <2>2. CASE ~ (WriteMode(w) \/ CloseNext(w) \/ SaveTurn(w) \/ SaveLink(w))
    BY <1>2, <2>1, <2>2
       DEF Begin, Continue, BeginSetMode, BeginAsk, BeginReply, ListOpen,
           StandardAnswer, OpenDialogue, Classify, GenerateNext, GenerateAnswer,
           AppendRecord, ProviderFails, StoreFails
  <2> QED BY <1>3, <2>2
<1> QED BY <1>2, <1>4 DEF vars

\* However many awaits a turn takes and whatever call in it fails, as long as
\* requests come one at a time the stored dialogues go through the turns of
\* SocraticTurns and nothing else (ask, reply, set_mode, _finalise).
THEOREM ServiceImplementsTurns ==
  ASSUME OneAtATime
  PROVE  Spec => ImplementsTurns
<1>1. Init => Turns!TurnsInit
  BY DEF Init, Turns!TurnsInit, StoredTurn
<1>2. IInv /\ SoloInv /\ [Next]_vars => [Turns!TurnsNext]_(Turns!turnVars)
  BY StepOfTurns
<1>3. Spec => [](IInv /\ SoloInv)
  BY SoloInvariance
<1> QED BY <1>1, <1>2, <1>3, PTL DEF Spec, ImplementsTurns, Turns!TurnsSpec

-----------------------------------------------------------------------------
(* One request at a time over stores that work: _finalise then always runs *)
(* to its end, and the log keeps pace with the dialogues.                  *)

StoresWork == ~ StoreMayFail

Own(i) == {n \in DOMAIN log : log[n].dialogue_id = i}

Chained(i) ==
  \A n \in Own(i) : LET before == {j \in Own(i) : j < n}
                    IN IF before = {} THEN log[n].follow_up_of = None
                       ELSE /\ log[n].follow_up_of \in before
                            /\ \A j \in before : j <= log[n].follow_up_of

\* The last record of the dialogue, None without one.
Latest(i, last) ==
  /\ Own(i) = {} => last = None
  /\ Own(i) # {} => last \in Own(i) /\ \A n \in Own(i) : n <= last

\* The last record says how the dialogue stands.
Tells(i, d) ==
  /\ Own(i) # {}
  /\ log[d.last_interaction].exchange_number = exchanges_used(d)
  /\ d.state # "abandoned" => log[d.last_interaction].resolution = d.resolution

Offered(i) == \E n \in Own(i) : log[n].response_kind = "exit_offer"

LogRequestOK(r, label) ==
  /\ label \in {"answer", "save", "append"} =>
       /\ r.copy.state = CONFIRMING => r.kind = "exit_offer"
       /\ r.copy.resolution = "exited_on_request" => Offered(r.id)
  /\ label = "append" => Latest(r.id, r.copy.last_interaction)
  /\ label = "link" => Latest(r.id, r.copy.last_interaction) /\ Tells(r.id, r.copy)

Finishing(i) == \E w \in Workers : pc[w] \in {"append", "link"} /\ req[w].id = i
Recording(i) == \E w \in Workers : pc[w] = "append" /\ req[w].id = i

LogStands(i) ==
  /\ Chained(i)
  /\ dialogues[i] = None => Own(i) = {}
  /\ dialogues[i] # None /\ ~ Finishing(i) =>
       Latest(i, dialogues[i].last_interaction) /\ Tells(i, dialogues[i])
  /\ dialogues[i] # None /\ dialogues[i].state = CONFIRMING => Offered(i) \/ Recording(i)

LogInv ==
  /\ ExitWasOffered
  /\ \A i \in DialogueIds : LogStands(i)
  /\ \A w \in Workers : LogRequestOK(req[w], pc[w])

LEMMA InitLog == Init => LogInv
  BY DEF Init, LogInv, ExitWasOffered, LogStands, Chained, Own, LogRequestOK

\* An offer is made with the state that asks for its confirmation, and only
\* from that state is an answer given on request (T05 to T08).
LEMMA OfferRow ==
  ASSUME NEW s, NEW e, is_legal(s, e)
  PROVE  /\ lookup(s, e).target = CONFIRMING => lookup(s, e).response_kind = "exit_offer"
         /\ lookup(s, e).resolution = "exited_on_request" => s = CONFIRMING
<1>1. \A t \in TRANSITIONS :
        /\ t.target = CONFIRMING => t.response_kind = "exit_offer"
        /\ t.resolution = "exited_on_request" => t.source = CONFIRMING
  <2>1. None # "exited_on_request"
    BY NoneAssumption DEF Resolution
  <2> QED BY <2>1 DEF TRANSITIONS, ExitRows, ClosingRows, Asks, Stays, Closes, Row,
                      AWAITING, CONFIRMING
<1> QED BY <1>1, LookupRow

\* A step that neither stores, records nor belongs to _finalise.
LEMMA QuietLog ==
  ASSUME OneAtATime, IInv, LogInv, NEW w \in Workers, NEW r, NEW label,
         UNCHANGED <<dialogues, log>>, pc[w] \notin {"append", "link"},
         req' = [req EXCEPT ![w] = r], pc' = [pc EXCEPT ![w] = label],
         label \notin {"append", "link"}, LogRequestOK(r, label)
  PROVE  LogInv'
<1>1. \A v \in Workers : v = w
  BY DEF OneAtATime
<1>2. req'[w] = r /\ pc'[w] = label
  BY DEF IInv, TypeOK
<1>3. \A i : ~ Finishing(i) /\ ~ Recording(i) /\ ~ Finishing(i)' /\ ~ Recording(i)'
  BY <1>1, <1>2 DEF Finishing, Recording
<1>4. \A i : Own(i)' = Own(i)
  BY DEF Own
<1>5. ASSUME NEW i \in DialogueIds PROVE LogStands(i)'
  <2>1. LogStands(i)
    BY DEF LogInv
  <2> QED BY <1>3, <1>4, <2>1 DEF LogStands, Chained, Latest, Tells, Offered
<1>6. ASSUME NEW v \in Workers PROVE LogRequestOK(req[v], pc[v])'
  BY <1>1, <1>2, <1>4 DEF LogRequestOK, Latest, Tells, Offered
<1>7. ExitWasOffered'
  BY DEF LogInv, ExitWasOffered
<1> QED BY <1>5, <1>6, <1>7 DEF LogInv

LEMMA ReturnLog ==
  ASSUME OneAtATime, IInv, LogInv, NEW w \in Workers, Return(w),
         UNCHANGED <<dialogues, log>>, pc[w] \notin {"append", "link"}
  PROVE  LogInv'
<1>1. LogRequestOK(NoRequest, "idle")
  BY DEF LogRequestOK
<1> QED BY <1>1, QuietLog DEF Return, Goto

\* Abandoning leaves the questions and the link of a dialogue as they are.
LEMMA CloseNextLog ==
  ASSUME OneAtATime, IInv, SoloInv, LogInv, NEW w \in Workers, CloseNext(w)
  PROVE  LogInv'
<1>1. PICK pair \in req[w].found :
        /\ dialogues' = [dialogues EXCEPT ![pair[1]] = Abandoned(pair[2])]
        /\ IF req[w].found = {pair} THEN Return(w)
           ELSE req' = [req EXCEPT ![w].found = @ \ {pair}] /\ UNCHANGED pc
  BY DEF CloseNext
<1>2. /\ req[w] \in Request /\ RequestOK(req[w], "close") /\ pc[w] = "close" /\ log' = log
      /\ SoloOK(req[w], "close", mode, dialogues) /\ pc \in [Workers -> PC]
      /\ dialogues \in [DialogueIds -> Copy \cup {None}]
  BY DEF IInv, TypeOK, SoloInv, CloseNext, At, Copy
<1> DEFINE k == pair[1]
           new == Abandoned(pair[2])
<1>3. /\ k \in DialogueIds /\ pair[2] \in Copy /\ is_open(pair[2]) /\ GoodCopy(pair[2])
      /\ dialogues[k] = pair[2] /\ dialogues[k] # None
  BY <1>1, <1>2, NoneAssumption DEF Request, RequestOK, SoloOK, Copy, CopyOK
<1>4. /\ new.state = "abandoned" /\ new.questions = pair[2].questions
      /\ new.last_interaction = pair[2].last_interaction
  <2>1. lookup(pair[2].state, "mode_toggled_off").target = "abandoned"
    BY <1>3, AbandoningRow DEF is_open
  <2> QED BY <1>3, <2>1 DEF Abandoned, Copy, DialogueType
<1>5. \A v \in Workers : v = w
  BY DEF OneAtATime
<1>6. pc'[w] \in {"idle", "close"}
  BY <1>1, <1>2 DEF Return, Goto
<1>7. \A i : ~ Finishing(i) /\ ~ Recording(i) /\ ~ Finishing(i)' /\ ~ Recording(i)'
  BY <1>2, <1>5, <1>6 DEF Finishing, Recording
<1>8. \A i : Own(i)' = Own(i)
  BY <1>2 DEF Own
<1> HIDE DEF new
<1>9. ASSUME NEW i \in DialogueIds PROVE LogStands(i)'
  <2>1. LogStands(i)
    BY DEF LogInv
  <2>2. CASE i # k
    <3>1. dialogues'[i] = dialogues[i]
      BY <1>1, <1>2, <2>2
    <3> QED BY <1>2, <1>7, <1>8, <2>1, <3>1 DEF LogStands, Chained, Latest, Tells, Offered
  <2>3. CASE i = k
    <3>1. dialogues'[i] = new
      BY <1>1, <1>2, <2>3 DEF new
    <3>2. Latest(i, pair[2].last_interaction) /\ Tells(i, pair[2])
      BY <1>3, <1>7, <2>1, <2>3 DEF LogStands
    <3>3. Latest(i, new.last_interaction) /\ Tells(i, new)
      BY <1>4, <3>2 DEF Tells, exchanges_used
    <3>4. CONFIRMING # "abandoned"
      BY DEF CONFIRMING
    <3>5. dialogues'[i] # None => dialogues'[i].state # CONFIRMING
      BY <1>4, <3>1, <3>4
    <3>6. dialogues'[i] = None => Own(i) = {}
      <4>1. Abandoned(pair[2]) \in Copy
        BY <1>3, AbandonKeepsCopy
      <4> QED BY <3>1, <4>1, NoneAssumption DEF new, Copy
    <3>7. Latest(i, dialogues[i].last_interaction)' /\ Tells(i, dialogues[i])'
      BY <1>2, <1>8, <3>1, <3>3 DEF Latest, Tells
    <3>8. Chained(i)'
      BY <1>2, <1>8, <2>1 DEF LogStands, Chained
    <3> QED BY <1>8, <3>5, <3>6, <3>7, <3>8 DEF LogStands
  <2> QED BY <2>2, <2>3
<1>10. ASSUME NEW v \in Workers PROVE LogRequestOK(req[v], pc[v])'
  BY <1>5, <1>6 DEF LogRequestOK
<1>11. ExitWasOffered'
  BY <1>2 DEF LogInv, ExitWasOffered
<1> QED BY <1>9, <1>10, <1>11 DEF LogInv

\* Whatever turn is taken on the stored dialogue, an offer is recorded as one
\* and an answer on request had its offer.
LEMMA TakeTurnLog ==
  ASSUME OneAtATime, IInv, SoloInv, LogInv, NEW w \in Workers,
         pc[w] \in {"classify", "generate"}, UNCHANGED <<dialogues, mode, log>>,
         NEW intent \in IntentKind, NEW event, NEW q,
         MayTake(req[w].copy, event, q), TakeTurn(w, intent, event, q)
  PROVE  LogInv'
<1> DEFINE d == req[w].copy
           new == ApplyTurn(d, intent, event, q)
           kind == lookup(d.state, event).response_kind
           r == [req[w] EXCEPT !.copy = new, !.intent = None, !.kind = kind]
           label == IF kind \in ANSWER_BEARING_KINDS THEN "answer" ELSE "save"
<1>1. /\ req[w] \in Request /\ req \in [Workers -> Request] /\ RequestOK(req[w], pc[w])
      /\ SoloOK(req[w], pc[w], mode, dialogues)
  BY DEF IInv, TypeOK, SoloInv
<1>2. /\ d \in Copy /\ GoodCopy(d) /\ is_open(d) /\ req[w].id \in DialogueIds
      /\ dialogues[req[w].id] = d /\ d # None
  BY <1>1 DEF RequestOK, Request, Copy, CopyOK, SoloOK
<1>3. /\ new.state = lookup(d.state, event).target
      /\ new.resolution = lookup(d.state, event).resolution
  BY <1>2, TurnFields
<1>4. /\ new.state = CONFIRMING => kind = "exit_offer"
      /\ new.resolution = "exited_on_request" => d.state = CONFIRMING
  BY <1>3, OfferRow DEF MayTake
<1>5. d.state = CONFIRMING => Offered(req[w].id)
  <2>1. ~ Recording(req[w].id)
    BY DEF Recording, OneAtATime
  <2> QED BY <1>2, <2>1 DEF LogInv, LogStands
<1>6. req' = [req EXCEPT ![w] = r] /\ pc' = [pc EXCEPT ![w] = label]
  BY <1>1 DEF TakeTurn, Goto
<1> HIDE DEF new, kind
<1>7. r.copy = new /\ r.id = req[w].id /\ r.kind = kind
  BY <1>1 DEF Request
<1>8. LogRequestOK(r, label)
  BY <1>4, <1>5, <1>7 DEF LogRequestOK
<1> HIDE DEF r
<1> QED BY <1>6, <1>8, QuietLog

LEMMA TurnLog ==
  ASSUME OneAtATime, IInv, SoloInv, LogInv, NEW w \in Workers,
         OpenDialogue(w) \/ BeginReply(w) \/ Classify(w) \/ GenerateNext(w) \/ GenerateAnswer(w)
  PROVE  LogInv'
<1>0. /\ req[w] \in Request /\ req \in [Workers -> Request]
      /\ RequestOK(req[w], pc[w]) /\ LogRequestOK(req[w], pc[w])
  BY DEF IInv, TypeOK, LogInv
<1> DEFINE d == req[w].copy
<1>1. CASE OpenDialogue(w)
  <2>1. PICK i \in DialogueIds, text \in LearnerQuestions, q \in Questions :
          req' = [req EXCEPT ![w].id = i,
                             ![w].copy = NewDialogue(req[w].user, text, q),
                             ![w].kind = "guiding_question"]
    BY <1>1 DEF OpenDialogue
  <2> DEFINE new == NewDialogue(req[w].user, text, q)
             r == [req[w] EXCEPT !.id = i, !.copy = new, !.kind = "guiding_question"]
  <2>2. new.state = AWAITING /\ new.resolution = None
    BY DEF NewDialogue
  <2> HIDE DEF new
  <2>3. r.copy = new
    BY <1>0 DEF Request
  <2>4. AWAITING # CONFIRMING /\ None # "exited_on_request"
    BY NoneAssumption DEF AWAITING, CONFIRMING, Resolution
  <2>5. LogRequestOK(r, "save")
    BY <2>2, <2>3, <2>4 DEF LogRequestOK
  <2>6. req' = [req EXCEPT ![w] = r]
    BY <1>0, <2>1 DEF new
  <2>7. pc' = [pc EXCEPT ![w] = "save"] /\ pc[w] = "open" /\ UNCHANGED <<dialogues, log>>
    BY <1>1 DEF OpenDialogue, At, Goto
  <2> HIDE DEF r
  <2> QED BY <2>5, <2>6, <2>7, QuietLog
<1>2. CASE BeginReply(w)
  <2>1. PICK r : req' = [req EXCEPT ![w] = r]
    BY <1>2 DEF BeginReply
  <2>2. LogRequestOK(r, "classify")
    BY DEF LogRequestOK
  <2>3. pc' = [pc EXCEPT ![w] = "classify"] /\ pc[w] = "idle" /\ UNCHANGED <<dialogues, log>>
    BY <1>2 DEF BeginReply, At, Goto
  <2> QED BY <2>1, <2>2, <2>3, QuietLog
<1>3. CASE Classify(w)
  <2>0. /\ pc[w] = "classify" /\ d # None /\ is_open(d) /\ d \in Copy /\ GoodCopy(d)
        /\ UNCHANGED <<dialogues, mode, log>>
    BY <1>0, <1>3 DEF Classify, At, RequestOK, Request, Copy, CopyOK
  <2>1. PICK intent \in Intents :
          LET event == EventAtCap(d, intent)
          IN IF event = "substantive_response"
             THEN Goto(w, "generate") /\ req' = [req EXCEPT ![w].intent = intent]
             ELSE TakeTurn(w, intent, event, None)
    BY <1>3 DEF Classify
  <2>2. CASE EventAtCap(d, intent) = "substantive_response"
    <3>1. /\ req' = [req EXCEPT ![w] = [req[w] EXCEPT !.intent = intent]]
          /\ pc' = [pc EXCEPT ![w] = "generate"]
      BY <1>0, <2>1, <2>2 DEF Goto
    <3>2. \A r : LogRequestOK(r, "generate")
      BY DEF LogRequestOK
    <3>3. PICK r : r = [req[w] EXCEPT !.intent = intent]
      OBVIOUS
    <3>4. req' = [req EXCEPT ![w] = r] /\ LogRequestOK(r, "generate")
      BY <3>1, <3>2, <3>3
    <3>5. pc[w] \notin {"append", "link"} /\ UNCHANGED <<dialogues, log>>
      BY <2>0
    <3> QED BY <1>0, <3>1, <3>4, <3>5, QuietLog
  <2>3. CASE EventAtCap(d, intent) # "substantive_response"
    <3>1. intent \in IntentKind
      BY IntentsAssumption
    <3>2. is_legal(d.state, event_for_intent(d.state, intent)) /\ is_legal(d.state, "cap_reached")
      BY <2>0, <3>1, EveryEventHasARow DEF is_open
    <3>3. event_for_intent(d.state, intent) # "cap_reached"
      BY <3>1 DEF event_for_intent, IntentKind
    <3>4. MayTake(d, EventAtCap(d, intent), None)
      <4> HIDE DEF d
      <4> QED BY <2>3, <3>2, <3>3 DEF MayTake, EventAtCap
    <3> QED BY <2>0, <2>1, <2>3, <3>1, <3>4, TakeTurnLog
  <2> QED BY <2>2, <2>3
<1>4. CASE GenerateNext(w)
  <2>0. /\ pc[w] = "generate" /\ is_open(d) /\ exchanges_used(d) < ExchangeCap
        /\ req[w].intent \in IntentKind /\ UNCHANGED <<dialogues, mode, log>>
    BY <1>0, <1>4 DEF GenerateNext, At, RequestOK, Request
  <2>1. PICK q \in Questions :
          TakeTurn(w, req[w].intent,
                   IF is_repeat(q, d.questions)
                   THEN "loop_detected" ELSE "substantive_response", q)
    BY <1>4 DEF GenerateNext
  <2>2. \A e \in {"loop_detected", "substantive_response"} : MayTake(d, e, q)
    BY <2>0, EveryEventHasARow DEF MayTake, is_open
  <2>3. CASE is_repeat(q, d.questions)
    BY <2>0, <2>1, <2>2, <2>3, TakeTurnLog
  <2>4. CASE ~ is_repeat(q, d.questions)
    BY <2>0, <2>1, <2>2, <2>4, TakeTurnLog
  <2> QED BY <2>3, <2>4
<1>5. CASE GenerateAnswer(w)
  <2>1. /\ req' = [req EXCEPT ![w] = req[w]] /\ pc' = [pc EXCEPT ![w] = "save"]
        /\ pc[w] = "answer" /\ UNCHANGED <<dialogues, log>>
    BY <1>0, <1>5 DEF GenerateAnswer, At, Goto
  <2>2. LogRequestOK(req[w], "save")
    BY <1>0, <2>1 DEF LogRequestOK
  <2> QED BY <2>1, <2>2, QuietLog
<1> QED BY <1>1, <1>2, <1>3, <1>4, <1>5

\* The turn is stored before its record: until then the log ends where the
\* dialogue's link says.
LEMMA SaveTurnLog ==
  ASSUME OneAtATime, IInv, SoloInv, LogInv, NEW w \in Workers, SaveTurn(w)
  PROVE  LogInv'
<1> DEFINE k == req[w].id
           new == req[w].copy
<1>1. /\ req[w] \in Request /\ RequestOK(req[w], "save") /\ LogRequestOK(req[w], "save")
      /\ SoloOK(req[w], "save", mode, dialogues)
      /\ dialogues \in [DialogueIds -> Copy \cup {None}]
      /\ dialogues' = [dialogues EXCEPT ![k] = new] /\ log' = log /\ req' = req
      /\ pc[w] = "save" /\ pc' = [pc EXCEPT ![w] = "append"] /\ pc \in [Workers -> PC]
  BY DEF IInv, TypeOK, SoloInv, LogInv, SaveTurn, At, Goto, Copy
<1>2. k \in DialogueIds /\ new \in Copy /\ new # None
  BY <1>1 DEF Request, RequestOK, Copy
<1>3. pc'[w] = "append"
  BY <1>1
<1>4. /\ \A i : ~ Finishing(i) /\ ~ Recording(i)
      /\ Finishing(k)' /\ Recording(k)'
      /\ \A i : i # k => ~ Finishing(i)' /\ ~ Recording(i)'
  BY <1>1, <1>3 DEF Finishing, Recording, OneAtATime
<1>5. \A i : Own(i)' = Own(i)
  BY <1>1 DEF Own
<1>6. Latest(k, new.last_interaction)
  <2>1. CASE AsksFor(dialogues[k], new, mode)
    <3>1. dialogues[k] = None /\ new.last_interaction = None
      BY <2>1 DEF AsksFor, NewDialogue
    <3>2. Own(k) = {}
      BY <1>2, <3>1 DEF LogInv, LogStands
    <3> QED BY <3>1, <3>2 DEF Latest
  <2>2. CASE RepliesTo(dialogues[k], new)
    <3>1. dialogues[k] # None /\ dialogues[k] \in Copy
      BY <1>1, <1>2, <2>2 DEF RepliesTo
    <3>2. \A i, e, q : ApplyTurn(dialogues[k], i, e, q).last_interaction
                        = dialogues[k].last_interaction
      BY <3>1 DEF ApplyTurn, Copy, DialogueType
    <3>3. new.last_interaction = dialogues[k].last_interaction
      <4>1. PICK i, e, q : new = ApplyTurn(dialogues[k], i, e, q)
        BY <2>2 DEF RepliesTo
      <4> QED BY <3>2, <4>1
    <3>4. Latest(k, dialogues[k].last_interaction)
      BY <1>2, <1>4, <3>1 DEF LogInv, LogStands
    <3> QED BY <3>3, <3>4
  <2> QED BY <1>1, <2>1, <2>2 DEF SoloOK
<1>7. ASSUME NEW i \in DialogueIds PROVE LogStands(i)'
  <2>1. LogStands(i)
    BY DEF LogInv
  <2>2. CASE i # k
    <3>1. dialogues'[i] = dialogues[i]
      BY <1>1, <2>2
    <3> QED BY <1>1, <1>4, <1>5, <2>1, <2>2, <3>1
            DEF LogStands, Chained, Latest, Tells, Offered
  <2>3. CASE i = k
    <3>1. dialogues'[i] # None
      BY <1>1, <1>2, <2>3
    <3>2. Chained(i)'
      BY <1>1, <1>5, <2>1 DEF LogStands, Chained
    <3> QED BY <1>4, <2>3, <3>1, <3>2 DEF LogStands
  <2> QED BY <2>2, <2>3
<1>8. LogRequestOK(req[w], "append")'
  <2>1. Latest(k, new.last_interaction)'
    BY <1>1, <1>5, <1>6 DEF Latest
  <2>2. Offered(k)' <=> Offered(k)
    BY <1>1, <1>5 DEF Offered
  <2> QED BY <1>1, <2>1, <2>2 DEF LogRequestOK
<1>9. ASSUME NEW v \in Workers PROVE LogRequestOK(req[v], pc[v])'
  <2>1. v = w
    BY DEF OneAtATime
  <2> QED BY <1>3, <1>8, <2>1
<1>10. ExitWasOffered'
  BY <1>1 DEF LogInv, ExitWasOffered
<1> QED BY <1>7, <1>9, <1>10 DEF LogInv

\* The record of a turn joins the chain of its dialogue as its last.
LEMMA AppendRecordLog ==
  ASSUME OneAtATime, IInv, SoloInv, LogInv, NEW w \in Workers, AppendRecord(w)
  PROVE  LogInv'
<1>a. PICK k, d, n0 : k = req[w].id /\ d = req[w].copy /\ n0 = Len(log) + 1
  OBVIOUS
<1>b. PICK rec :
        rec = [dialogue_id |-> k,
               exchange_number |-> IF exchanges_used(d) > 1 THEN exchanges_used(d) ELSE 1,
               response_kind |-> req[w].kind, resolution |-> d.resolution,
               follow_up_of |-> d.last_interaction]
  OBVIOUS
<1>c. PICK r : r = [req[w] EXCEPT !.copy.last_interaction = n0]
  OBVIOUS
<1>1. /\ req[w] \in Request /\ req \in [Workers -> Request]
      /\ RequestOK(req[w], "append") /\ LogRequestOK(req[w], "append")
      /\ SoloOK(req[w], "append", mode, dialogues) /\ log \in Seq(LogRecord)
      /\ dialogues' = dialogues /\ log' = Append(log, rec)
      /\ pc[w] = "append" /\ pc' = [pc EXCEPT ![w] = "link"] /\ pc \in [Workers -> PC]
  BY <1>a, <1>b DEF IInv, TypeOK, SoloInv, LogInv, AppendRecord, At, Goto
<1>2. k \in DialogueIds /\ d \in Copy /\ d # None /\ dialogues[k] = d /\ GoodCopy(d)
  BY <1>1, <1>a DEF Request, RequestOK, Copy, SoloOK, CopyOK
<1>3. req'[w] = r
  BY <1>1, <1>a, <1>c DEF AppendRecord
<1>4. r.id = k /\ r.copy = [d EXCEPT !.last_interaction = n0] /\ r.kind = req[w].kind
  BY <1>1, <1>a, <1>c DEF Request
<1>5. /\ r.copy.last_interaction = n0 /\ r.copy.questions = d.questions
      /\ r.copy.state = d.state /\ r.copy.resolution = d.resolution
  BY <1>2, <1>4 DEF Copy, DialogueType
<1>6. /\ rec.dialogue_id = k /\ rec.response_kind = req[w].kind
      /\ rec.resolution = d.resolution /\ rec.follow_up_of = d.last_interaction
      /\ rec.exchange_number = exchanges_used(d)
  <2>1. exchanges_used(d) \in Nat /\ exchanges_used(d) >= 1
    BY <1>2, CapAssumption DEF GoodCopy
  <2> QED BY <1>b, <2>1
<1>7. /\ Len(log) \in Nat /\ n0 = Len(log) + 1 /\ DOMAIN log = 1..Len(log) /\ DOMAIN log' = 1..n0
      /\ \A n \in 1..Len(log) : log'[n] = log[n]
      /\ log'[n0] = rec
  BY <1>1, <1>a
<1>8. Own(k)' = Own(k) \cup {n0} /\ \A i : i # k => Own(i)' = Own(i)
  <2>1. \A n : n \in 1..n0 <=> n = n0 \/ n \in 1..Len(log)
    BY <1>7
  <2>2. n0 \notin 1..Len(log) /\ log'[n0].dialogue_id = k
    BY <1>6, <1>7
  <2>3. \A i, n : n \in Own(i)' <=> n \in Own(i) \/ (n = n0 /\ i = k)
    BY <1>7, <2>1, <2>2 DEF Own
  <2>4. Own(k)' = Own(k) \cup {n0}
    BY <2>3
  <2>5. ASSUME NEW i, i # k PROVE Own(i)' = Own(i)
    BY <2>3, <2>5
  <2> QED BY <2>4, <2>5
<1>9. \A i : Own(i) \subseteq 1..Len(log) /\ \A n \in Own(i) : log'[n] = log[n] /\ n < n0
  BY <1>7 DEF Own
<1>10. Latest(k, d.last_interaction) /\ Chained(k)
  BY <1>1, <1>2, <1>a DEF LogRequestOK, LogInv, LogStands
<1>11. Chained(k)'
  <2>1. ASSUME NEW n \in Own(k)
        PROVE  {j \in Own(k)' : j < n} = {j \in Own(k) : j < n} /\ log'[n] = log[n]
    BY <1>7, <1>8, <1>9
  <2>2. {j \in Own(k)' : j < n0} = Own(k)
    BY <1>7, <1>8, <1>9
  <2>3. IF Own(k) = {} THEN log'[n0].follow_up_of = None
        ELSE /\ log'[n0].follow_up_of \in Own(k)
             /\ \A j \in Own(k) : j <= log'[n0].follow_up_of
    BY <1>6, <1>7, <1>10 DEF Latest
  <2>4. ASSUME NEW n \in Own(k)'
        PROVE  IF {j \in Own(k)' : j < n} = {} THEN log'[n].follow_up_of = None
               ELSE /\ log'[n].follow_up_of \in {j \in Own(k)' : j < n}
                    /\ \A j \in {j \in Own(k)' : j < n} : j <= log'[n].follow_up_of
    <3>1. CASE n = n0
      BY <2>2, <2>3, <3>1
    <3>2. CASE n \in Own(k)
      BY <1>10, <2>1, <3>2 DEF Chained
    <3> QED BY <1>8, <3>1, <3>2
  <2> QED BY <2>4 DEF Chained
<1>12. Latest(k, n0)' /\ Tells(k, r.copy)'
  <2>1. Latest(k, n0)'
    <3>1. n0 \in Own(k)' /\ Own(k)' # {}
      BY <1>8
    <3>2. \A n \in Own(k)' : n <= n0
      BY <1>7, <1>8, <1>9
    <3> QED BY <3>1, <3>2 DEF Latest
  <2>2. exchanges_used(r.copy) = exchanges_used(d)
    BY <1>5 DEF exchanges_used
  <2>3. Own(k)' # {}
    BY <1>8
  <2>4. /\ log'[r.copy.last_interaction].exchange_number = exchanges_used(r.copy)
        /\ log'[r.copy.last_interaction].resolution = r.copy.resolution
    BY <1>5, <1>6, <1>7, <2>2
  <2>5. Tells(k, r.copy)'
    BY <1>3, <2>3, <2>4 DEF Tells
  <2> QED BY <2>1, <2>5
<1>13. \A i : /\ i # k => ~ Finishing(i) /\ ~ Finishing(i)' /\ ~ Recording(i)'
              /\ i # k => ~ Recording(i)
  BY <1>1, <1>3, <1>4, <1>a DEF Finishing, Recording, OneAtATime
<1>14. Finishing(k)'
  BY <1>1, <1>3, <1>4, <1>a DEF Finishing
<1>15. d.state = CONFIRMING => Offered(k)'
  <2>1. d.state = CONFIRMING => rec.response_kind = "exit_offer"
    BY <1>1, <1>6, <1>a DEF LogRequestOK
  <2> QED BY <1>7, <1>8, <2>1 DEF Offered
<1>16. ASSUME NEW i \in DialogueIds PROVE LogStands(i)'
  <2>1. LogStands(i)
    BY DEF LogInv
  <2>2. CASE i = k
    <3>1. dialogues'[k] = d
      BY <1>1, <1>2
    <3>2. LogStands(k)'
      BY <1>2, <1>11, <1>14, <1>15, <3>1 DEF LogStands
    <3> QED BY <2>2, <3>2
  <2>3. CASE i # k
    <3>1. Own(i)' = Own(i) /\ \A n \in Own(i) : log'[n] = log[n]
      BY <1>8, <1>9, <2>3
    <3>2. Chained(i)'
      BY <2>1, <3>1 DEF LogStands, Chained
    <3>3. dialogues[i] # None =>
            Latest(i, dialogues[i].last_interaction)' /\ Tells(i, dialogues[i])'
      <4> SUFFICES ASSUME dialogues[i] # None
                   PROVE  Latest(i, dialogues[i].last_interaction)' /\ Tells(i, dialogues[i])'
        OBVIOUS
      <4>1. Latest(i, dialogues[i].last_interaction) /\ Tells(i, dialogues[i])
        BY <1>13, <2>1, <2>3 DEF LogStands
      <4>2. dialogues[i].last_interaction \in Own(i)
        BY <4>1 DEF Latest, Tells
      <4> QED BY <1>1, <3>1, <4>1, <4>2 DEF Latest, Tells
    <3>4. Offered(i) => Offered(i)'
      BY <3>1 DEF Offered
    <3> QED BY <1>1, <1>13, <2>1, <2>3, <3>1, <3>2, <3>3, <3>4 DEF LogStands
  <2> QED BY <2>2, <2>3
<1>17. ASSUME NEW v \in Workers PROVE LogRequestOK(req[v], pc[v])'
  <2>1. v = w /\ pc'[w] = "link"
    BY <1>1 DEF OneAtATime
  <2>2. req'[v] = r /\ pc'[v] = "link"
    BY <1>3, <2>1
  <2>3. Latest(req[v].id, req[v].copy.last_interaction)' /\ Tells(req[v].id, req[v].copy)'
    BY <1>4, <1>5, <1>12, <2>2
  <2> QED BY <2>2, <2>3 DEF LogRequestOK
<1>18. ExitWasOffered'
  <2>1. rec.resolution = "exited_on_request" => Offered(k)
    BY <1>1, <1>6, <1>a DEF LogRequestOK
  <2>2. rec.resolution = "exited_on_request" =>
          \E j \in 1..Len(log) : log[j].dialogue_id = k /\ log[j].response_kind = "exit_offer"
    BY <1>7, <2>1 DEF Offered, Own
  <2>3. ASSUME NEW n \in DOMAIN log', log'[n].resolution = "exited_on_request"
        PROVE  \E j \in 1..(n - 1) : /\ log'[j].dialogue_id = log'[n].dialogue_id
                                     /\ log'[j].response_kind = "exit_offer"
    <3>1. CASE n = n0
      BY <1>6, <1>7, <2>2, <2>3, <3>1
    <3>2. CASE n \in 1..Len(log)
      <4>1. PICK j \in 1..(n - 1) : /\ log[j].dialogue_id = log[n].dialogue_id
                                    /\ log[j].response_kind = "exit_offer"
        BY <1>7, <2>3, <3>2 DEF LogInv, ExitWasOffered
      <4>2. j \in 1..Len(log)
        BY <1>7, <3>2
      <4> QED BY <1>7, <3>2, <4>1, <4>2
    <3> QED BY <1>7, <3>1, <3>2
  <2> QED BY <2>3 DEF ExitWasOffered
<1> QED BY <1>16, <1>17, <1>18 DEF LogInv

LEMMA SaveLinkLog ==
  ASSUME OneAtATime, IInv, SoloInv, LogInv, NEW w \in Workers, SaveLink(w)
  PROVE  LogInv'
<1> DEFINE k == req[w].id
           new == req[w].copy
<1>1. /\ req[w] \in Request /\ RequestOK(req[w], "link") /\ LogRequestOK(req[w], "link")
      /\ SoloOK(req[w], "link", mode, dialogues)
      /\ dialogues \in [DialogueIds -> Copy \cup {None}]
      /\ dialogues' = [dialogues EXCEPT ![k] = new] /\ log' = log
      /\ pc[w] = "link" /\ pc' = [pc EXCEPT ![w] = "idle"] /\ pc \in [Workers -> PC]
  BY DEF IInv, TypeOK, SoloInv, LogInv, SaveLink, At, Goto, Return, Copy
<1>2. k \in DialogueIds /\ new \in Copy /\ new # None
  BY <1>1 DEF Request, RequestOK, Copy
<1>3. pc'[w] = "idle" /\ \A v \in Workers : v = w
  BY <1>1 DEF OneAtATime
<1>4. /\ \A i : ~ Finishing(i)' /\ ~ Recording(i)' /\ ~ Recording(i)
      /\ \A i : i # k => ~ Finishing(i)
  BY <1>1, <1>3 DEF Finishing, Recording
<1>5. \A i : Own(i)' = Own(i)
  BY <1>1 DEF Own
<1>6. dialogues[k] # None /\ new.state = dialogues[k].state
  <2>1. dialogues[k] # None /\ StoredTurn(new) = StoredTurn(dialogues[k])
    BY <1>1 DEF SoloOK
  <2>2. [new EXCEPT !.last_interaction = None]
          = [dialogues[k] EXCEPT !.last_interaction = None]
    BY <1>2, <2>1 DEF StoredTurn
  <2>3. \A c \in Copy : [c EXCEPT !.last_interaction = None].state = c.state
    BY DEF Copy, DialogueType
  <2>4. dialogues[k] \in Copy
    BY <1>1, <1>2, <2>1
  <2> QED BY <1>2, <2>1, <2>2, <2>3, <2>4
<1>7. Latest(k, new.last_interaction) /\ Tells(k, new)
  BY <1>1 DEF LogRequestOK
<1>8. ASSUME NEW i \in DialogueIds PROVE LogStands(i)'
  <2>1. LogStands(i)
    BY DEF LogInv
  <2>2. CASE i # k
    <3>1. dialogues'[i] = dialogues[i]
      BY <1>1, <2>2
    <3> QED BY <1>1, <1>4, <1>5, <2>1, <2>2, <3>1
            DEF LogStands, Chained, Latest, Tells, Offered
  <2>3. CASE i = k
    <3>1. dialogues'[i] = new
      BY <1>1, <1>2, <2>3
    <3>2. Latest(i, dialogues[i].last_interaction)' /\ Tells(i, dialogues[i])'
      BY <1>1, <1>5, <1>7, <2>3, <3>1 DEF Latest, Tells
    <3>3. Chained(i)'
      BY <1>1, <1>5, <2>1 DEF LogStands, Chained
    <3>4. new.state = CONFIRMING => Offered(i)'
      BY <1>1, <1>4, <1>5, <1>6, <2>1, <2>3 DEF LogStands, Offered
    <3> QED BY <1>2, <3>1, <3>2, <3>3, <3>4 DEF LogStands
  <2> QED BY <2>2, <2>3
<1>9. ASSUME NEW v \in Workers PROVE LogRequestOK(req[v], pc[v])'
  BY <1>3 DEF LogRequestOK
<1>10. ExitWasOffered'
  BY <1>1 DEF LogInv, ExitWasOffered
<1> QED BY <1>8, <1>9, <1>10 DEF LogInv

LEMMA NextLog ==
  OneAtATime /\ StoresWork /\ IInv /\ SoloInv /\ LogInv /\ [Next]_vars => LogInv'
<1> SUFFICES ASSUME OneAtATime, StoresWork, IInv, SoloInv, LogInv, [Next]_vars PROVE LogInv'
  OBVIOUS
<1>1. CASE UNCHANGED vars
  <2>1. UNCHANGED <<dialogues, mode, log, pc, req>>
    BY <1>1 DEF vars
  <2>2. ExitWasOffered'
    BY <2>1 DEF LogInv, ExitWasOffered
  <2>3. ASSUME NEW i \in DialogueIds PROVE LogStands(i)'
    BY <2>1 DEF LogInv, LogStands, Chained, Own, Latest, Tells, Offered, Finishing, Recording
  <2>4. ASSUME NEW w \in Workers PROVE LogRequestOK(req[w], pc[w])'
    BY <2>1 DEF LogInv, LogRequestOK, Own, Latest, Tells, Offered
  <2> QED BY <2>2, <2>3, <2>4 DEF LogInv
<1>2. ASSUME NEW w \in Workers, BeginSetMode(w) \/ BeginAsk(w) \/ WriteMode(w) \/ ListOpen(w)
      PROVE  LogInv'
  <2>1. \A r, label : label \in {"set_mode", "open", "standard", "list", "close"}
                        => LogRequestOK(r, label)
    BY DEF LogRequestOK
  <2>2. req \in [Workers -> Request] /\ pc[w] \notin {"append", "link"}
        /\ UNCHANGED <<dialogues, log>>
    BY <1>2 DEF IInv, TypeOK, BeginSetMode, BeginAsk, WriteMode, ListOpen, At
  <2>3. CASE Return(w)
    BY <2>2, <2>3, ReturnLog
  <2>4. CASE ~ Return(w)
    <3>1. PICK r : req' = [req EXCEPT ![w] = r]
      <4>1. CASE WriteMode(w)
        <5>1. req' = [req EXCEPT ![w] = req[w]]
          BY <2>2, <2>4, <4>1 DEF WriteMode
        <5> QED BY <5>1
      <4>2. CASE ListOpen(w)
        <5>1. req' = [req EXCEPT ![w] = [req[w] EXCEPT !.found = OpenCopies(req[w].user)]]
          BY <2>4, <4>2 DEF ListOpen
        <5> QED BY <5>1
      <4> QED BY <1>2, <4>1, <4>2 DEF BeginSetMode, BeginAsk
    <3>2. \E label \in {"set_mode", "open", "standard", "list", "close"} :
            pc' = [pc EXCEPT ![w] = label]
      BY <1>2, <2>4 DEF BeginSetMode, BeginAsk, WriteMode, ListOpen, Goto
    <3> QED BY <2>1, <2>2, <3>1, <3>2, QuietLog
  <2> QED BY <2>3, <2>4
<1>3. ASSUME NEW w \in Workers, StandardAnswer(w) \/ ProviderFails(w) PROVE LogInv'
  BY <1>3, ReturnLog DEF StandardAnswer, ProviderFails, At, ProviderSteps
<1>4. ASSUME NEW w \in Workers, Begin(w) PROVE LogInv'
  BY <1>2, <1>4, TurnLog DEF Begin
<1>5. ASSUME NEW w \in Workers, Continue(w) PROVE LogInv'
  BY <1>2, <1>3, <1>5, CloseNextLog, TurnLog, SaveTurnLog, AppendRecordLog, SaveLinkLog
     DEF Continue, StoreFails, StoresWork
<1> QED BY <1>1, <1>4, <1>5 DEF Next

LEMMA LogInvariance ==
  ASSUME OneAtATime, StoresWork
  PROVE  Spec => [](IInv /\ LogInv)
<1>1. Init => LogInv
  BY InitLog
<1>2. IInv /\ SoloInv /\ LogInv /\ [Next]_vars => LogInv'
  BY NextLog
<1>3. Spec => [](IInv /\ SoloInv)
  BY SoloInvariance
<1> QED BY <1>1, <1>2, <1>3, PTL DEF Spec

\* With requests one at a time and stores that work, every stored dialogue can
\* be told from the log once nothing is in flight: its records are one chain
\* that ends at its link, and the last says how it stands (_finalise).
THEOREM LogTells ==
  ASSUME OneAtATime, StoresWork
  PROVE  Spec => []LogTellsTheDialogue
<1>1. IInv /\ LogInv => LogTellsTheDialogue
  <2> SUFFICES ASSUME LogInv, Quiet, NEW d \in Started
               PROVE  /\ Latest(d, dialogues[d].last_interaction)
                      /\ Tells(d, dialogues[d]) /\ Chained(d)
    BY DEF LogTellsTheDialogue, Latest, Tells, Chained, Own
  <2>1. ~ Finishing(d)
    BY DEF Quiet, Finishing
  <2> QED BY <2>1 DEF LogInv, LogStands, Started
<1>2. Spec => [](IInv /\ LogInv)
  BY LogInvariance
<1> QED BY <1>1, <1>2, PTL

\* "Never exit on the first request": with requests one at a time and stores
\* that work, the answer is only given on request after an offer that the log
\* shows (reply step 5, T05 to T08).
THEOREM ExitsWereOffered ==
  ASSUME OneAtATime, StoresWork
  PROVE  Spec => []ExitWasOffered
<1>1. IInv /\ LogInv => ExitWasOffered
  BY DEF LogInv
<1>2. Spec => [](IInv /\ LogInv)
  BY LogInvariance
<1> QED BY <1>1, <1>2, PTL

=============================================================================
