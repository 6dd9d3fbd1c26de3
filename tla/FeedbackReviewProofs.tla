-------------------------- MODULE FeedbackReviewProofs --------------------------
(***************************************************************************)
(* What TLAPS proves of UC-10, for any answers, topics, rule and windows,  *)
(* whichever store call fails: type correctness however requests           *)
(* interleave, and the rest when they come one at a time.                  *)
(***************************************************************************)
EXTENDS FeedbackReview, TLAPS, FiniteSetTheorems, SequenceTheorems, WellFoundedInduction

-----------------------------------------------------------------------------
(* Finite sets of positions. *)

\* A non-empty set of natural numbers has a least one.
LEMMA LeastNatural ==
  ASSUME NEW S \in SUBSET Nat, S # {}
  PROVE  \E m \in S : \A k \in S : m <= k
<1> DEFINE Below(m) == {k \in S : k < m}
           Pieces == {Below(m) : m \in S}
           R == StrictSubsetOrdering(S)
<1>1. IsWellFoundedOn(R, FiniteSubsetsOf(S))
  BY FS_StrictSubsetOrderingWellFounded
<1>2. \A m \in S : Below(m) \in FiniteSubsetsOf(S)
  <2> TAKE m \in S
  <2>1. IsFiniteSet(Below(m))
    BY FS_BoundedSetOfNaturals
  <2> QED BY <2>1 DEF FiniteSubsetsOf
<1>3. Pieces \subseteq FiniteSubsetsOf(S) /\ Pieces # {}
  BY <1>2
<1>4. PICK P \in Pieces : \A Q \in Pieces : ~ (<<Q, P>> \in R)
  <2> HIDE DEF Pieces, R
  <2> QED BY <1>1, <1>3, WFMin
<1>5. PICK m \in S : P = Below(m)
  BY <1>4
<1>6. ASSUME NEW k \in S, k < m PROVE FALSE
  <2>0. k \in Nat /\ m \in Nat /\ \A j \in S : j \in Nat
    OBVIOUS
  <2>7. ASSUME NEW j \in Below(k) PROVE j \in Below(m)
    <3>1. j \in S /\ j < k /\ j \in Nat
      BY <2>0
    <3>2. j < m
      BY <1>6, <2>0, <3>1
    <3> QED BY <3>1, <3>2
  <2>1. Below(k) \subseteq Below(m)
    BY <2>7
  <2>4. k \in Below(m)
    BY <1>6, <2>0
  <2>5. k \notin Below(k)
    BY <2>0
  <2>6. Below(m) \subseteq S /\ Below(k) \subseteq S
    OBVIOUS
  <2> HIDE DEF Below
  <2>2. <<Below(k), P>> \in R
    BY <1>5, <2>1, <2>4, <2>5, <2>6 DEF StrictSubsetOrdering
  <2>3. Below(k) \in Pieces
    OBVIOUS
  <2> QED BY <1>4, <2>2, <2>3
<1>7. \A k \in S : ~ (k < m)
  BY <1>6
<1> QED BY <1>7

\* The positions in a set can be gone through in order, which is how run_cycle
\* reads the pending intents.
InOrder(s) == \A i, j \in DOMAIN s : i < j => s[i] < s[j]

LEMMA Enumerated ==
  ASSUME NEW n \in Nat, NEW S \in SUBSET (1..n)
  PROVE  \E s \in [1..Cardinality(S) -> S] : InOrder(s)
<1> DEFINE Part(m) == S \cap (1..m)
           Done(m) == \E s \in [1..Cardinality(Part(m)) -> Part(m)] : InOrder(s)
           Bad == {m \in Nat : ~ Done(m)}
<1>1. \A m \in Nat : IsFiniteSet(Part(m)) /\ Cardinality(Part(m)) \in Nat
  <2> TAKE m \in Nat
  <2>1. Part(m) \in SUBSET Nat /\ \A s \in Part(m) : s <= m
    OBVIOUS
  <2>2. IsFiniteSet(Part(m))
    BY <2>1, FS_BoundedSetOfNaturals
  <2> QED BY <2>2, FS_CardinalityType
<1>2. Done(0)
  <2>1. Part(0) = {}
    OBVIOUS
  <2>2. Cardinality(Part(0)) = 0
    BY <2>1, FS_EmptySet
  <2>3. [i \in 1..0 |-> 0] \in [1..0 -> {}] /\ InOrder([i \in 1..0 |-> 0])
    BY DEF InOrder
  <2> HIDE DEF Part
  <2> QED BY <2>1, <2>2, <2>3
<1>3. ASSUME NEW m \in Nat, Done(m) PROVE Done(m + 1)
  <2>1. PICK s \in [1..Cardinality(Part(m)) -> Part(m)] : InOrder(s)
    BY <1>3
  <2>2. CASE m + 1 \notin S
    <3>1. Part(m + 1) = Part(m)
      BY <2>2
    <3> QED BY <1>3, <3>1
  <2>3. CASE m + 1 \in S
    <3> DEFINE c == Cardinality(Part(m))
               t == [i \in 1..(c + 1) |-> IF i \in 1..c THEN s[i] ELSE m + 1]
    <3>1. Part(m + 1) = Part(m) \cup {m + 1} /\ m + 1 \notin Part(m)
      BY <2>3
    <3>2. Cardinality(Part(m + 1)) = c + 1
      <4>1. IsFiniteSet(Part(m))
        BY <1>1
      <4> HIDE DEF Part
      <4> QED BY <3>1, <4>1, FS_AddElement
    <3>0. Cardinality(Part(m)) \in Nat
      BY <1>1
    <3>a. c \in Nat
      BY <3>0
    <3>b. \A i \in 1..c : s[i] \in Part(m)
      <4> HIDE DEF Part
      <4> QED BY <2>1
    <3>c. \A k \in Part(m) : k \in Nat /\ k < m + 1
      OBVIOUS
    <3>3. c \in Nat /\ \A i \in 1..c : s[i] \in Part(m) /\ s[i] \in Nat /\ s[i] < m + 1
      <4> HIDE DEF Part, c
      <4> QED BY <3>a, <3>b, <3>c
    <3>4. t \in [1..(c + 1) -> Part(m + 1)]
      BY <3>1, <3>3
    <3>5. \A i, j \in 1..c : i < j => s[i] < s[j]
      BY <2>1 DEF InOrder
    <3>6. \A i \in 1..(c + 1) : i \in 1..c \/ i = c + 1
      BY <3>3
    <3>7. InOrder(t)
      <4>1. ASSUME NEW i \in 1..(c + 1), NEW j \in 1..(c + 1), i < j PROVE t[i] < t[j]
        <5>1. i \in 1..c
          BY <3>3, <4>1
        <5> HIDE DEF c
        <5> QED BY <3>3, <3>5, <3>6, <4>1, <5>1
      <4> QED BY <4>1 DEF InOrder
    <3> HIDE DEF Part, t
    <3> QED BY <3>2, <3>4, <3>7
  <2> QED BY <2>2, <2>3
<1>4. Bad = {}
  <2> SUFFICES ASSUME Bad # {} PROVE FALSE
    OBVIOUS
  <2>1. Bad \in SUBSET Nat
    OBVIOUS
  <2> HIDE DEF Bad
  <2>2. PICK m \in Bad : \A k \in Bad : m <= k
    BY <2>1, LeastNatural
  <2>3. m \in Nat /\ ~ Done(m)
    BY <2>2 DEF Bad
  <2> HIDE DEF Done
  <2>4. m # 0
    BY <1>2, <2>3
  <2>5. m - 1 \in Nat /\ (m - 1) + 1 = m
    BY <2>3, <2>4
  <2>6. m - 1 \notin Bad
    BY <2>2, <2>3, <2>5
  <2>7. Done(m - 1)
    BY <2>5, <2>6 DEF Bad
  <2> QED BY <1>3, <2>3, <2>5, <2>7
<1>5. Done(n) /\ Part(n) = S
  BY <1>4
<1> HIDE DEF Part
<1> QED BY <1>5

\* Writing a place of a sequence, whether it has that place or not.
LEMMA WritePlace ==
  ASSUME NEW S, NEW s \in Seq(S), NEW i, NEW e, i \in DOMAIN s => e \in S
  PROVE  /\ [s EXCEPT ![i] = e] \in Seq(S)
         /\ Len([s EXCEPT ![i] = e]) = Len(s)
         /\ DOMAIN [s EXCEPT ![i] = e] = DOMAIN s
<1>1. Len(s) \in Nat /\ s \in [1..Len(s) -> S] /\ DOMAIN s = 1..Len(s)
  BY LenProperties
<1>2. [s EXCEPT ![i] = e] \in [1..Len(s) -> S]
  BY <1>1
<1>3. [s EXCEPT ![i] = e] \in Seq(S)
  BY <1>1, <1>2, SeqDef
<1>4. DOMAIN [s EXCEPT ![i] = e] = 1..Len(s)
  BY <1>1
<1> QED BY <1>1, <1>3, <1>4, LenProperties


\* The values of a sequence of naturals are bounded.
LEMMA Bounded ==
  ASSUME NEW n \in Nat, NEW f, \A i \in 1..n : f[i] \in Nat
  PROVE  \E b \in Nat : \A i \in 1..n : f[i] <= b
<1> DEFINE Done(m) == \E b \in Nat : \A i \in 1..m : i <= n => f[i] <= b
           Bad == {m \in Nat : ~ Done(m)}
<1>1. Done(0)
  OBVIOUS
<1>2. ASSUME NEW m \in Nat, Done(m) PROVE Done(m + 1)
  <2>1. PICK b \in Nat : \A i \in 1..m : i <= n => f[i] <= b
    BY <1>2
  <2>2. \A i \in 1..(m + 1) : i \in 1..m \/ i = m + 1
    OBVIOUS
  <2>3. CASE m + 1 <= n
    <3>1. f[m + 1] \in Nat
      BY <2>3
    <3>2. CASE f[m + 1] <= b
      BY <2>1, <2>2, <3>2
    <3>3. CASE b <= f[m + 1]
      <4>1. \A i \in 1..(m + 1) : i <= n => f[i] <= f[m + 1]
        <5> TAKE i \in 1..(m + 1)
        <5> HAVE i <= n
        <5>1. f[i] \in Nat
          OBVIOUS
        <5> QED BY <2>1, <2>2, <3>1, <3>3, <5>1
      <4> QED BY <3>1, <4>1
    <3> QED BY <3>1, <3>2, <3>3
  <2>4. CASE ~ (m + 1 <= n)
    BY <2>1, <2>2, <2>4
  <2> QED BY <2>3, <2>4
<1>3. Bad = {}
  <2> SUFFICES ASSUME Bad # {} PROVE FALSE
    OBVIOUS
  <2>1. Bad \in SUBSET Nat
    OBVIOUS
  <2> HIDE DEF Bad
  <2>2. PICK m \in Bad : \A k \in Bad : m <= k
    BY <2>1, LeastNatural
  <2>3. m \in Nat /\ ~ Done(m)
    BY <2>2 DEF Bad
  <2> HIDE DEF Done
  <2>4. m # 0
    BY <1>1, <2>3
  <2>5. m - 1 \in Nat /\ (m - 1) + 1 = m
    BY <2>3, <2>4
  <2>6. m - 1 \notin Bad
    BY <2>2, <2>3, <2>5
  <2>7. Done(m - 1)
    BY <2>5, <2>6 DEF Bad
  <2> QED BY <1>2, <2>3, <2>5, <2>7
<1>4. Done(n)
  BY <1>3
<1> QED BY <1>4

\* Of some positions, one has the greatest value, and is the first that has.
LEMMA Greatest ==
  ASSUME NEW n \in Nat, NEW f, \A i \in 1..n : f[i] \in Nat, NEW S \in SUBSET (1..n), S # {}
  PROVE  \E k \in S : \A l \in S : f[l] < f[k] \/ (f[l] = f[k] /\ k <= l)
<1>1. PICK b \in Nat : \A i \in 1..n : f[i] <= b
  BY Bounded
<1> DEFINE Short == {b - f[i] : i \in S}
<1>2. \A i \in S : i \in Nat /\ f[i] \in Nat /\ f[i] <= b /\ b - f[i] \in Nat
  BY <1>1
<1>3. Short \in SUBSET Nat /\ Short # {}
  BY <1>2
<1>4. PICK d \in Short : \A e \in Short : d <= e
  <2> HIDE DEF Short
  <2> QED BY <1>3, LeastNatural
<1> DEFINE Best == {i \in S : b - f[i] = d}
<1>5. Best \in SUBSET Nat /\ Best # {}
  BY <1>2, <1>4
<1>6. PICK k \in Best : \A l \in Best : k <= l
  <2> HIDE DEF Best
  <2> QED BY <1>5, LeastNatural
<1>7. ASSUME NEW l \in S PROVE f[l] < f[k] \/ (f[l] = f[k] /\ k <= l)
  <2>1. b - f[l] \in Short /\ k \in S /\ b - f[k] = d
    BY <1>6
  <2>2. d <= b - f[l]
    BY <1>4, <2>1
  <2>3. f[l] \in Nat /\ f[k] \in Nat /\ f[l] <= b /\ f[k] <= b
    BY <1>2, <2>1
  <2>4. f[l] <= f[k]
    BY <2>1, <2>2, <2>3
  <2>5. CASE f[l] = f[k]
    <3>1. l \in Best
      BY <2>1, <2>5
    <3> QED BY <1>6, <2>5, <3>1
  <2> QED BY <2>3, <2>4, <2>5
<1> QED BY <1>6, <1>7

-----------------------------------------------------------------------------
(* Type correctness, whatever the interleaving. *)

StoresTyped ==
  /\ now \in Nat
  /\ ratings \in Seq(RatingRecord)
  /\ flags \in Seq(Flag)
  /\ queue \in Seq(WorkItem)

\* What a step finds set by the steps before it.
JobTyped(j, label) ==
  /\ label \in {"save", "history", "supersede"} => j.rating \in RatingRecord
  /\ label \in {"history", "supersede"} => j.id \in Nat
  /\ label = "evaluate" => j.topic \in Topics
  /\ j.item # None => j.candidate \in FlagCandidate
  /\ label \in {"pending", "intent", "lookup", "write", "resolve"} => j.candidate \in FlagCandidate
  /\ label = "set_status" => j.flag \in Flag

JobsTyped ==
  /\ pc \in [Workers -> PC]
  /\ job \in [Workers -> Job]
  /\ \A w \in Workers : JobTyped(job[w], pc[w])

TypeInv == StoresTyped /\ JobsTyped

LEMMA NoJobTyped == NoJob \in Job /\ JobTyped(NoJob, "idle")
<1>1. <<>> \in Seq([item : Nat, candidate : FlagCandidate])
  OBVIOUS
<1> QED BY <1>1 DEF NoJob, Job, JobTyped

LEMMA StepTyped ==
  ASSUME JobsTyped, NEW w \in Workers, NEW label \in PC, NEW l \in Job,
         JobTyped(l, label), Step(w, label, l)
  PROVE  JobsTyped'
<1>1. pc' = [pc EXCEPT ![w] = label] /\ job' = [job EXCEPT ![w] = l]
  BY DEF Step
<1>2. pc' \in [Workers -> PC] /\ job' \in [Workers -> Job]
  BY <1>1 DEF JobsTyped
<1>3. ASSUME NEW v \in Workers PROVE JobTyped(job'[v], pc'[v])
  <2>1. CASE v = w
    <3>1. job'[v] = l /\ pc'[v] = label
      BY <1>1, <2>1 DEF JobsTyped
    <3> QED BY <3>1
  <2>2. CASE v # w
    <3>1. job'[v] = job[v] /\ pc'[v] = pc[v]
      BY <1>1, <2>2 DEF JobsTyped
    <3> QED BY <3>1 DEF JobsTyped
  <2> QED BY <2>1, <2>2
<1> QED BY <1>2, <1>3 DEF JobsTyped

LEMMA EndTyped ==
  ASSUME JobsTyped, NEW w \in Workers, End(w)
  PROVE  JobsTyped'
<1>1. Step(w, "idle", NoJob) /\ "idle" \in PC
  BY DEF End, PC
<1> QED BY <1>1, NoJobTyped, StepTyped

LEMMA UnchangedTyped ==
  ASSUME JobsTyped, pc' = pc, job' = job
  PROVE  JobsTyped'
BY DEF JobsTyped

\* The locals NextEvaluation leaves, one operator for each of its cases.
RetryNext(j) ==
  [NoJob EXCEPT
     !.listed = FALSE, !.todo = Tail(j.todo),
     !.handled = j.handled \cup {Head(j.todo).candidate.topic},
     !.topic = Head(j.todo).candidate.topic, !.candidate = Head(j.todo).candidate,
     !.item = Head(j.todo).item]
ListNext(j) == [NoJob EXCEPT !.listed = FALSE, !.handled = j.handled]
TopicNext(j, topic) == [NoJob EXCEPT !.topics = j.topics \ {topic}, !.topic = topic]

LEMMA NextEvaluationIs ==
  ASSUME NEW w, NEW j, NextEvaluation(w, j)
  PROVE  \/ j.todo # <<>> /\ Step(w, "evaluate", RetryNext(j))
         \/ j.todo = <<>> /\ Step(w, "topics", ListNext(j))
         \/ \E topic \in j.topics : j.todo = <<>> /\ Step(w, "evaluate", TopicNext(j, topic))
         \/ j.todo = <<>> /\ End(w)
BY DEF NextEvaluation, RetryNext, ListNext, TopicNext

LEMMA NextTyped ==
  ASSUME JobsTyped, NEW w \in Workers, NEW j \in Job, NextEvaluation(w, j)
  PROVE  JobsTyped'
<1>1. j.todo \in Seq([item : Nat, candidate : FlagCandidate])
      /\ j.handled \in SUBSET Topics /\ j.topics \in SUBSET Topics
  BY DEF Job
<1>2. CASE j.todo # <<>> /\ Step(w, "evaluate", RetryNext(j))
  <2>1. Head(j.todo) \in [item : Nat, candidate : FlagCandidate]
        /\ Tail(j.todo) \in Seq([item : Nat, candidate : FlagCandidate])
    BY <1>1, <1>2, HeadTailProperties
  <2>2. /\ Head(j.todo).item \in Nat
        /\ Head(j.todo).candidate \in FlagCandidate
        /\ Head(j.todo).candidate.topic \in Topics
    BY <2>1 DEF FlagCandidate
  <2>3. RetryNext(j) \in Job
    <3>1. PICK a \in Nat, c \in FlagCandidate, done \in SUBSET Topics,
               rest \in Seq([item : Nat, candidate : FlagCandidate]) :
            /\ a = Head(j.todo).item /\ c = Head(j.todo).candidate
            /\ done = j.handled \cup {c.topic} /\ rest = Tail(j.todo)
      BY <1>1, <2>1, <2>2
    <3>2. RetryNext(j) = [NoJob EXCEPT !.listed = FALSE, !.todo = rest, !.handled = done,
                                       !.topic = c.topic, !.candidate = c, !.item = a]
      BY <3>1 DEF RetryNext
    <3>3. c.topic \in Topics
      BY <2>2, <3>1
    <3> QED BY <3>1, <3>2, <3>3, NoJobTyped DEF Job
  <2>4. JobTyped(RetryNext(j), "evaluate") /\ "evaluate" \in PC
    BY <2>2 DEF RetryNext, NoJob, JobTyped, PC
  <2> QED BY <1>2, <2>3, <2>4, StepTyped
<1>3. CASE Step(w, "topics", ListNext(j))
  <2>1. ListNext(j) \in Job
    BY <1>1, NoJobTyped DEF ListNext, NoJob, Job
  <2>2. JobTyped(ListNext(j), "topics") /\ "topics" \in PC
    BY DEF ListNext, NoJob, JobTyped, PC
  <2> QED BY <1>3, <2>1, <2>2, StepTyped
<1>4. ASSUME NEW topic \in j.topics, Step(w, "evaluate", TopicNext(j, topic)) PROVE JobsTyped'
  <2>1. TopicNext(j, topic) \in Job
    BY <1>1, NoJobTyped DEF TopicNext, NoJob, Job
  <2>2. JobTyped(TopicNext(j, topic), "evaluate") /\ "evaluate" \in PC
    BY <1>1 DEF TopicNext, NoJob, JobTyped, PC
  <2> QED BY <1>4, <2>1, <2>2, StepTyped
<1>5. CASE End(w)
  BY <1>5, EndTyped
<1> QED BY <1>2, <1>3, <1>4, <1>5, NextEvaluationIs


\* An index of a store is a natural number, and what it holds has its type.
LEMMA Places ==
  ASSUME NEW S, NEW s \in Seq(S)
  PROVE  /\ Len(s) \in Nat
         /\ DOMAIN s = 1..Len(s)
         /\ \A k \in DOMAIN s : k \in Nat /\ s[k] \in S
BY LenProperties

LEMMA Stored ==
  ASSUME StoresTyped
  PROVE  /\ Len(ratings) \in Nat /\ DOMAIN ratings = 1..Len(ratings)
         /\ Len(flags) \in Nat /\ DOMAIN flags = 1..Len(flags)
         /\ Len(queue) \in Nat /\ DOMAIN queue = 1..Len(queue)
         /\ \A k \in DOMAIN ratings : k \in Nat /\ ratings[k] \in RatingRecord
         /\ \A k \in DOMAIN flags : k \in Nat /\ flags[k] \in Flag
         /\ \A k \in DOMAIN queue : k \in Nat /\ queue[k] \in WorkItem
<1>1. ratings \in Seq(RatingRecord) /\ flags \in Seq(Flag) /\ queue \in Seq(WorkItem)
  BY DEF StoresTyped
<1> QED BY <1>1, Places

LEMMA CandidateTyped ==
  ASSUME StoresTyped, NEW topic \in Topics, NEW end \in Nat
  PROVE  evaluate_topic(topic, end) \in FlagCandidate \cup {None}
<1> DEFINE ids == {k \in current_in_window(end) : TopicOf[ratings[k].interaction] = topic}
           downs == {k \in ids : ratings[k].down}
           evidence == {ratings[k].interaction : k \in downs}
<1>1. ids \subseteq 1..Len(ratings) /\ downs \subseteq 1..Len(ratings) /\ Len(ratings) \in Nat
  BY Stored DEF current_in_window
<1>2. Cardinality(ids) \in Nat /\ Cardinality(downs) \in Nat
  <2> HIDE DEF ids, downs
  <2>1. IsFiniteSet(1..Len(ratings))
    BY <1>1, FS_Interval
  <2> QED BY <1>1, <2>1, FS_Subset, FS_CardinalityType
<1>3. evidence \in SUBSET Interactions
  <2>1. \A k \in DOMAIN ratings : ratings[k].interaction \in Interactions
    BY Stored DEF RatingRecord
  <2> QED BY <2>1 DEF current_in_window
<1>4. \/ evaluate_topic(topic, end) = None
      \/ evaluate_topic(topic, end) =
           [topic |-> topic, window_end |-> end, total |-> Cardinality(ids),
            downs |-> Cardinality(downs), interactions |-> evidence]
  BY DEF evaluate_topic
<1> HIDE DEF ids, downs, evidence
<1> QED BY <1>2, <1>3, <1>4 DEF FlagCandidate

\* open_flag_for finds the open flag of the topic whose window overlaps and
\* ends last, or finds that there is none.
LEMMA Found ==
  ASSUME StoresTyped, NEW candidate
  PROVE  \/ OpenFlags(candidate) = {} /\ open_flag_for(candidate) = None
         \/ /\ open_flag_for(candidate) \in OpenFlags(candidate)
            /\ \A g \in OpenFlags(candidate) :
                 flags[g].candidate.window_end
                   <= flags[open_flag_for(candidate)].candidate.window_end
<1> DEFINE ends == [i \in 1..Len(flags) |-> flags[i].candidate.window_end]
<1>1. OpenFlags(candidate) \in SUBSET (1..Len(flags)) /\ Len(flags) \in Nat
  BY Stored DEF OpenFlags
<1>2. \A i \in 1..Len(flags) : flags[i].candidate.window_end \in Nat
  BY Stored DEF Flag, FlagCandidate
<1>3. CASE OpenFlags(candidate) = {}
  BY <1>3 DEF open_flag_for
<1>4. CASE OpenFlags(candidate) # {}
  <2> DEFINE Best(f) == \A g \in OpenFlags(candidate) :
                   \/ flags[g].candidate.window_end < flags[f].candidate.window_end
                   \/ flags[g].candidate.window_end = flags[f].candidate.window_end /\ f <= g
  <2>1. \A i \in 1..Len(flags) : ends[i] \in Nat /\ ends[i] = flags[i].candidate.window_end
    BY <1>2
  <2>2. \E k \in OpenFlags(candidate) :
          \A l \in OpenFlags(candidate) : ends[l] < ends[k] \/ (ends[l] = ends[k] /\ k <= l)
    <3> HIDE DEF ends
    <3> QED BY <1>1, <1>4, <2>1, Greatest
  <2>3. \E f \in OpenFlags(candidate) : Best(f)
    <3>1. PICK k \in OpenFlags(candidate) :
            \A l \in OpenFlags(candidate) : ends[l] < ends[k] \/ (ends[l] = ends[k] /\ k <= l)
      BY <2>2
    <3>2. \A l \in OpenFlags(candidate) :
            l \in 1..Len(flags) /\ ends[l] = flags[l].candidate.window_end
      BY <1>1, <2>1
    <3>3. Best(k)
      <4> HIDE DEF ends
      <4> QED BY <3>1, <3>2
    <3> HIDE DEF Best
    <3> QED BY <3>3
  <2>4. open_flag_for(candidate) = CHOOSE f \in OpenFlags(candidate) : Best(f)
    BY <1>4 DEF open_flag_for
  <2> DEFINE found == open_flag_for(candidate)
  <2>5. found \in OpenFlags(candidate) /\ Best(found)
    <3> HIDE DEF Best
    <3> QED BY <2>3, <2>4
  <2>6. \A g \in OpenFlags(candidate) : flags[g].candidate.window_end \in Nat
    BY <1>1, <1>2
  <2>7. \A g \in OpenFlags(candidate) :
          flags[g].candidate.window_end <= flags[found].candidate.window_end
    <3> TAKE g \in OpenFlags(candidate)
    <3>1. flags[g].candidate.window_end \in Nat /\ flags[found].candidate.window_end \in Nat
      BY <2>5, <2>6
    <3> QED BY <2>5, <3>1
  <2> QED BY <2>5, <2>7
<1> QED BY <1>3, <1>4

\* run_cycle: the pending intents, each as it was read, in the order of the queue.
CycleStart(order) ==
  [NoJob EXCEPT !.listed = FALSE,
     !.todo = [i \in DOMAIN order |-> [item |-> order[i], candidate |-> queue[order[i]].candidate]]]

LEMMA CycleIs ==
  ASSUME StoresTyped, NEW w, BeginCycle(w)
  PROVE  \E s \in [1..Cardinality(pending) -> pending] :
           InOrder(s) /\ NextEvaluation(w, CycleStart(s))
<1> DEFINE order == CHOOSE s \in [1..Cardinality(pending) -> pending] : InOrder(s)
<1>1. pending \in SUBSET (1..Len(queue)) /\ Len(queue) \in Nat
  BY Stored DEF pending
<1>2. \E s \in [1..Cardinality(pending) -> pending] : InOrder(s)
  BY <1>1, Enumerated
<1>3. order \in [1..Cardinality(pending) -> pending] /\ InOrder(order)
  BY <1>2
<1>4. NextEvaluation(w, CycleStart(order))
  BY DEF BeginCycle, CycleStart, InOrder
<1> HIDE DEF order
<1> QED BY <1>3, <1>4

LEMMA CycleTyped ==
  ASSUME StoresTyped, NEW s \in [1..Cardinality(pending) -> pending]
  PROVE  CycleStart(s) \in Job
<1> DEFINE todo == [i \in DOMAIN s |-> [item |-> s[i], candidate |-> queue[s[i]].candidate]]
           Todos == [item : Nat, candidate : FlagCandidate]
<1>1. pending \in SUBSET (1..Len(queue)) /\ Len(queue) \in Nat
  BY Stored DEF pending
<1>2. Cardinality(pending) \in Nat
  <2>1. IsFiniteSet(1..Len(queue))
    BY <1>1, FS_Interval
  <2> QED BY <1>1, <2>1, FS_Subset, FS_CardinalityType
<1>3. \A k \in pending : k \in Nat /\ queue[k].candidate \in FlagCandidate
  BY <1>1, Stored DEF WorkItem
<1>4. todo \in [1..Cardinality(pending) -> Todos]
  BY <1>3
<1>5. todo \in Seq(Todos)
  <2> HIDE DEF todo, Todos
  <2> QED BY <1>2, <1>4, SeqDef
<1>6. CycleStart(s) = [NoJob EXCEPT !.listed = FALSE, !.todo = todo]
  BY DEF CycleStart
<1> HIDE DEF todo
<1> QED BY <1>5, <1>6, NoJobTyped DEF NoJob, Job


LEMMA StoresUnchanged ==
  ASSUME StoresTyped, UNCHANGED <<now, ratings, flags, queue>>
  PROVE  StoresTyped'
BY DEF StoresTyped

\* A step that changes one worker's locals keeps their types.
LEMMA StepKeepsType ==
  ASSUME TypeInv, NEW w \in Workers, NEW label, NEW l,
         label \in PC, l \in Job, JobTyped(l, label), Step(w, label, l)
  PROVE  JobsTyped'
BY StepTyped DEF TypeInv

LEMMA CaptureTyped ==
  ASSUME TypeInv, NEW w \in Workers, Capture(w)
  PROVE  TypeInv'
<1> USE DEF TypeInv
<1>0. /\ job[w] \in Job /\ JobTyped(job[w], pc[w])
      /\ StoresTyped
  BY DEF JobsTyped
<1>1. CASE BeginCapture(w)
  <2>1. PICK i \in Interactions, down \in BOOLEAN :
          Step(w, "save", [NoJob EXCEPT !.rating =
            [interaction |-> i, down |-> down, rated_at |-> now, superseded_by |-> None]])
    BY <1>1 DEF BeginCapture
  <2> DEFINE r == [interaction |-> i, down |-> down, rated_at |-> now, superseded_by |-> None]
             l == [NoJob EXCEPT !.rating = r]
  <2>2. r \in RatingRecord
    BY DEF StoresTyped, RatingRecord
  <2>3. l \in Job /\ JobTyped(l, "save") /\ "save" \in PC
    <3> HIDE DEF r
    <3> QED BY <2>2, NoJobTyped DEF NoJob, Job, JobTyped, PC
  <2>4. JobsTyped'
    <3> HIDE DEF l
    <3> QED BY <2>1, <2>3, StepKeepsType DEF l
  <2>5. StoresTyped'
    BY <1>1 DEF BeginCapture, StoresTyped
  <2> QED BY <2>4, <2>5
<1>2. CASE SaveRating(w)
  <2>1. job[w].rating \in RatingRecord
    BY <1>0, <1>2 DEF JobTyped, SaveRating, At
  <2>2. CASE /\ ratings' = Append(ratings, job[w].rating)
             /\ Step(w, "history", [job[w] EXCEPT !.id = Len(ratings) + 1])
    <3>1. StoresTyped'
      <4>1. ratings' \in Seq(RatingRecord)
        BY <2>1, <2>2, AppendProperties DEF StoresTyped
      <4> QED BY <1>2, <4>1 DEF SaveRating, StoresTyped
    <3> DEFINE l == [job[w] EXCEPT !.id = Len(ratings) + 1]
    <3>2. Len(ratings) + 1 \in Nat
      BY Stored
    <3>3. l \in Job /\ l.id \in Nat /\ l.rating = job[w].rating
          /\ l.item = job[w].item /\ l.candidate = job[w].candidate
      BY <1>0, <3>2 DEF Job
    <3> HIDE DEF l
    <3>4. JobTyped(l, "history") /\ "history" \in PC
      BY <1>0, <2>1, <3>3 DEF JobTyped, PC
    <3>5. JobsTyped'
      BY <2>2, <3>3, <3>4, StepKeepsType DEF l
    <3> QED BY <3>1, <3>5
  <2>3. CASE End(w) /\ UNCHANGED ratings
    BY <1>2, <2>3, EndTyped, StoresUnchanged DEF SaveRating
  <2> QED BY <1>2, <2>2, <2>3 DEF SaveRating
<1>3. ASSUME job[w].rating \in RatingRecord, Trigger(w) PROVE JobsTyped'
  <2> DEFINE l == [NoJob EXCEPT !.topic = TopicOf[job[w].rating.interaction]]
  <2>1. TopicOf[job[w].rating.interaction] \in Topics
    BY <1>3, TopicAssumption DEF RatingRecord
  <2>2. l \in Job /\ JobTyped(l, "evaluate") /\ "evaluate" \in PC
    BY <2>1, NoJobTyped DEF NoJob, Job, JobTyped, PC
  <2> HIDE DEF l
  <2> QED BY <1>3, <2>2, StepKeepsType DEF Trigger, l
<1>4. CASE ReadHistory(w)
  <2>1. job[w].rating \in RatingRecord /\ job[w].id \in Nat
    BY <1>0, <1>4 DEF JobTyped, ReadHistory, At
  <2> DEFINE previous == {k \in DOMAIN ratings :
                            /\ ratings[k].interaction = job[w].rating.interaction
                            /\ k # job[w].id
                            /\ IsCurrent(k)}
  <2>2. previous \in SUBSET Nat
    BY Stored
  <2>3. Step(w, "supersede", [job[w] EXCEPT !.previous = previous]) \/ Trigger(w)
    BY <1>4 DEF ReadHistory
  <2>4. StoresTyped'
    BY <1>4, StoresUnchanged DEF ReadHistory
  <2> DEFINE l == [job[w] EXCEPT !.previous = previous]
  <2> HIDE DEF previous
  <2>5. l \in Job /\ l.id = job[w].id /\ l.rating = job[w].rating
        /\ l.item = job[w].item /\ l.candidate = job[w].candidate
    BY <1>0, <2>2 DEF Job
  <2> HIDE DEF l
  <2>6. JobTyped(l, "supersede") /\ "supersede" \in PC
    BY <1>0, <2>1, <2>5 DEF JobTyped, PC
  <2>7. JobsTyped'
    BY <1>3, <2>1, <2>3, <2>5, <2>6, StepKeepsType DEF l
  <2> QED BY <2>4, <2>7
<1>5. CASE Supersede(w)
  <2>1. job[w].rating \in RatingRecord /\ job[w].id \in Nat /\ job[w].previous \in SUBSET Nat
    BY <1>0, <1>5 DEF JobTyped, Supersede, At, Job
  <2>2. PICK k \in job[w].previous :
          /\ \/ ratings' = [ratings EXCEPT ![k].superseded_by = job[w].id]
             \/ UNCHANGED ratings
          /\ IF job[w].previous = {k} THEN Trigger(w)
             ELSE Step(w, "supersede", [job[w] EXCEPT !.previous = @ \ {k}])
    BY <1>5 DEF Supersede
  <2>3. StoresTyped'
    <3> DEFINE e == [ratings[k] EXCEPT !.superseded_by = job[w].id]
    <3>1. k \in DOMAIN ratings => e \in RatingRecord
      BY <2>1, Stored DEF RatingRecord
    <3>2. [ratings EXCEPT ![k] = e] \in Seq(RatingRecord)
      <4>1. ratings \in Seq(RatingRecord)
        BY DEF StoresTyped
      <4> HIDE DEF e
      <4> QED BY <3>1, <4>1, WritePlace
    <3>3. ratings' \in Seq(RatingRecord)
      BY <2>2, <3>2 DEF StoresTyped
    <3> QED BY <1>5, <3>3 DEF Supersede, StoresTyped
  <2> DEFINE l == [job[w] EXCEPT !.previous = job[w].previous \ {k}]
  <2>4. l \in Job /\ l.id = job[w].id /\ l.rating = job[w].rating
        /\ l.item = job[w].item /\ l.candidate = job[w].candidate
    BY <1>0, <2>1 DEF Job
  <2>5. Trigger(w) \/ Step(w, "supersede", l)
    BY <2>2
  <2> HIDE DEF l
  <2>6. JobTyped(l, "supersede") /\ "supersede" \in PC
    BY <1>0, <2>1, <2>4 DEF JobTyped, PC
  <2>7. JobsTyped'
    BY <1>3, <2>1, <2>4, <2>5, <2>6, StepKeepsType
  <2> QED BY <2>3, <2>7
<1> QED BY <1>1, <1>2, <1>4, <1>5 DEF Capture

LEMMA FlaggingTyped ==
  ASSUME TypeInv, NEW w \in Workers, Flagging(w)
  PROVE  TypeInv'
<1> USE DEF TypeInv
<1>0. /\ job[w] \in Job /\ JobTyped(job[w], pc[w])
      /\ StoresTyped /\ now \in Nat
  BY DEF JobsTyped, StoresTyped
<1>1. CASE BeginCycle(w)
  <2>1. StoresTyped'
    BY <1>1, StoresUnchanged DEF BeginCycle
  <2>2. JobsTyped'
    BY <1>1, CycleIs, CycleTyped, NextTyped
  <2> QED BY <2>1, <2>2
<1>2. CASE ReadTopics(w)
  <2>1. StoresTyped'
    BY <1>2, StoresUnchanged DEF ReadTopics
  <2> DEFINE T == topics_in(current_in_window(now)) \ job[w].handled
             l == [NoJob EXCEPT !.topics = T]
  <2>2. T \in SUBSET Topics
    <3>1. \A k \in DOMAIN ratings : TopicOf[ratings[k].interaction] \in Topics
      BY Stored, TopicAssumption DEF RatingRecord
    <3> QED BY <3>1 DEF topics_in, current_in_window
  <2>3. NextEvaluation(w, l) \/ End(w)
    BY <1>2 DEF ReadTopics
  <2>4. l \in Job
    <3> HIDE DEF T
    <3> QED BY <2>2, NoJobTyped DEF NoJob, Job
  <2>5. JobsTyped'
    <3> HIDE DEF l
    <3> QED BY <2>3, <2>4, NextTyped, EndTyped
  <2> QED BY <2>1, <2>5
<1>3. CASE Evaluate(w)
  <2>1. StoresTyped'
    BY <1>3, StoresUnchanged DEF Evaluate
  <2>2. job[w].topic \in Topics
    BY <1>0, <1>3 DEF JobTyped, Evaluate, At
  <2> DEFINE fresh == evaluate_topic(job[w].topic, now)
             l == [job[w] EXCEPT !.candidate = fresh]
  <2>3. fresh \in FlagCandidate \cup {None}
    BY <1>0, <2>2, CandidateTyped
  <2>4. \/ /\ fresh # None
           /\ Step(w, IF job[w].item # None THEN "intent" ELSE "pending", l)
        \/ job[w].item # None /\ Step(w, "lookup", job[w])
        \/ NextEvaluation(w, job[w])
        \/ End(w)
    BY <1>3 DEF Evaluate
  <2> HIDE DEF fresh
  <2>5. fresh # None => l \in Job /\ l.candidate \in FlagCandidate
    BY <1>0, <2>3 DEF Job
  <2> HIDE DEF l
  <2>6. fresh # None => JobTyped(l, "intent") /\ JobTyped(l, "pending")
    BY <2>5 DEF JobTyped
  <2>7. job[w].item # None => JobTyped(job[w], "lookup")
    BY <1>0 DEF JobTyped
  <2>8. {"intent", "pending", "lookup"} \subseteq PC
    BY DEF PC
  <2>9. JobsTyped'
    <3>1. CASE fresh # None /\ Step(w, IF job[w].item # None THEN "intent" ELSE "pending", l)
      BY <2>5, <2>6, <2>8, <3>1, StepKeepsType
    <3>2. CASE job[w].item # None /\ Step(w, "lookup", job[w])
      BY <1>0, <2>7, <2>8, <3>2, StepKeepsType
    <3>3. CASE NextEvaluation(w, job[w]) \/ End(w)
      BY <1>0, <3>3, NextTyped, EndTyped
    <3> QED BY <2>4, <3>1, <3>2, <3>3
  <2> QED BY <2>1, <2>9
<1>4. CASE ReadPending(w)
  <2>1. StoresTyped'
    BY <1>4, StoresUnchanged DEF ReadPending
  <2>2. job[w].candidate \in FlagCandidate
    BY <1>0, <1>4 DEF JobTyped, ReadPending, At
  <2>3. \/ Step(w, "intent", job[w])
        \/ \E k \in pending : Step(w, "intent", [job[w] EXCEPT !.item = k])
        \/ End(w)
    BY <1>4 DEF ReadPending
  <2>4. JobTyped(job[w], "intent") /\ "intent" \in PC
    BY <2>2 DEF JobTyped, PC
  <2>5. ASSUME NEW k \in pending, Step(w, "intent", [job[w] EXCEPT !.item = k]) PROVE JobsTyped'
    <3> DEFINE l == [job[w] EXCEPT !.item = k]
    <3>1. k \in Nat
      BY Stored DEF pending
    <3>2. l \in Job /\ l.candidate = job[w].candidate
      BY <1>0, <3>1 DEF Job
    <3> HIDE DEF l
    <3>3. JobTyped(l, "intent")
      BY <2>2, <3>2 DEF JobTyped
    <3> QED BY <2>4, <2>5, <3>2, <3>3, StepKeepsType DEF l
  <2>6. JobsTyped'
    BY <1>0, <2>3, <2>4, <2>5, StepKeepsType, EndTyped
  <2> QED BY <2>1, <2>6
<1>5. CASE RecordIntent(w)
  <2>1. job[w].candidate \in FlagCandidate
    BY <1>0, <1>5 DEF JobTyped, RecordIntent, At
  <2>2. "lookup" \in PC /\ JobTyped(job[w], "lookup")
    BY <2>1 DEF PC, JobTyped
  <2>3. CASE /\ queue' = Append(queue, [candidate |-> job[w].candidate, resolved |-> None])
             /\ Step(w, "lookup", [job[w] EXCEPT !.item = Len(queue) + 1])
    <3> DEFINE l == [job[w] EXCEPT !.item = Len(queue) + 1]
               e == [candidate |-> job[w].candidate, resolved |-> None]
    <3>1. e \in WorkItem
      BY <2>1 DEF WorkItem
    <3>2. StoresTyped'
      <4>1. queue' \in Seq(WorkItem)
        <5> HIDE DEF e
        <5> QED BY <2>3, <3>1, AppendProperties DEF StoresTyped, e
      <4> QED BY <1>5, <4>1 DEF RecordIntent, StoresTyped
    <3>3. Len(queue) + 1 \in Nat
      BY Stored
    <3>4. l \in Job /\ l.candidate = job[w].candidate
      BY <1>0, <3>3 DEF Job
    <3> HIDE DEF l
    <3>5. JobTyped(l, "lookup")
      BY <2>1, <3>4 DEF JobTyped
    <3>6. JobsTyped'
      BY <2>2, <2>3, <3>4, <3>5, StepKeepsType DEF l
    <3> QED BY <3>2, <3>6
  <2>4. CASE /\ queue' = [queue EXCEPT ![job[w].item].candidate = job[w].candidate]
             /\ Step(w, "lookup", job[w])
    <3> DEFINE e == [queue[job[w].item] EXCEPT !.candidate = job[w].candidate]
    <3>1. job[w].item \in DOMAIN queue => e \in WorkItem
      BY <2>1, Stored DEF WorkItem
    <3>2. [queue EXCEPT ![job[w].item] = e] \in Seq(WorkItem)
      <4>1. queue \in Seq(WorkItem)
        BY DEF StoresTyped
      <4> HIDE DEF e
      <4> QED BY <3>1, <4>1, WritePlace
    <3>3. StoresTyped'
      BY <1>5, <2>4, <3>2 DEF RecordIntent, StoresTyped
    <3>4. JobsTyped'
      BY <1>0, <2>2, <2>4, StepKeepsType
    <3> QED BY <3>3, <3>4
  <2>5. CASE End(w) /\ UNCHANGED queue
    BY <1>5, <2>5, EndTyped, StoresUnchanged DEF RecordIntent
  <2> QED BY <1>5, <2>3, <2>4, <2>5 DEF RecordIntent
<1>6. ASSUME WriteFails(w) PROVE JobsTyped'
  BY <1>0, <1>6, NextTyped, EndTyped DEF WriteFails
<1>7. CASE LookupFlag(w)
  <2>1. StoresTyped'
    BY <1>7, StoresUnchanged DEF LookupFlag
  <2>2. job[w].candidate \in FlagCandidate
    BY <1>0, <1>7 DEF JobTyped, LookupFlag, At
  <2> DEFINE found == open_flag_for(job[w].candidate)
             flag == IF found = None THEN None ELSE flags[found]
             l == [job[w] EXCEPT !.flag_id = found, !.flag = flag]
  <2>3. Step(w, "write", l) \/ WriteFails(w)
    BY <1>7 DEF LookupFlag
  <2>4. found = None \/ found \in DOMAIN flags
    BY Found DEF OpenFlags
  <2> HIDE DEF found
  <2>5. found \in Nat \cup {None} /\ flag \in Flag \cup {None}
    BY <2>4, Stored
  <2> HIDE DEF flag
  <2>6. l \in Job /\ l.candidate = job[w].candidate
    <3>1. PICK j \in Job, a \in Nat \cup {None}, f \in Flag \cup {None} :
            j = job[w] /\ a = found /\ f = flag
      BY <1>0, <2>5
    <3>2. l = [j EXCEPT !.flag_id = a, !.flag = f]
      BY <3>1
    <3> HIDE DEF l
    <3> QED BY <3>1, <3>2 DEF Job
  <2> HIDE DEF l
  <2>7. JobTyped(l, "write") /\ "write" \in PC
    BY <2>2, <2>6 DEF JobTyped, PC
  <2>8. JobsTyped'
    BY <1>6, <2>3, <2>6, <2>7, StepKeepsType
  <2> QED BY <2>1, <2>8
<1>8. CASE WriteFlag(w)
  <2>1. job[w].candidate \in FlagCandidate
    BY <1>0, <1>8 DEF JobTyped, WriteFlag, At
  <2>2. CASE /\ job[w].flag # None
             /\ flags' = [flags EXCEPT ![job[w].flag_id] = Merge(job[w].flag, job[w].candidate)]
             /\ Step(w, "resolve", [job[w] EXCEPT !.flag = None])
    <3> DEFINE l == [job[w] EXCEPT !.flag = None]
               e == Merge(job[w].flag, job[w].candidate)
    <3>1. job[w].flag \in Flag
      BY <1>0, <2>2 DEF Job
    <3>2. e \in Flag
      BY <2>1, <3>1 DEF Merge, Flag, FlagCandidate
    <3> HIDE DEF e
    <3>3. [flags EXCEPT ![job[w].flag_id] = e] \in Seq(Flag)
      BY <3>2, WritePlace DEF StoresTyped
    <3>4. StoresTyped'
      BY <1>8, <2>2, <3>3 DEF WriteFlag, StoresTyped, e
    <3>5. l \in Job /\ l.candidate = job[w].candidate
      BY <1>0 DEF Job
    <3> HIDE DEF l
    <3>6. JobTyped(l, "resolve") /\ "resolve" \in PC
      BY <2>1, <3>5 DEF JobTyped, PC
    <3>7. JobsTyped'
      BY <2>2, <3>5, <3>6, StepKeepsType DEF l
    <3> QED BY <3>4, <3>7
  <2>3. CASE /\ flags' = Append(flags, [candidate |-> job[w].candidate, status |-> "open"])
             /\ Step(w, "resolve", [job[w] EXCEPT !.flag_id = Len(flags) + 1])
    <3> DEFINE l == [job[w] EXCEPT !.flag_id = Len(flags) + 1]
               e == [candidate |-> job[w].candidate, status |-> "open"]
    <3>1. e \in Flag
      BY <2>1 DEF Flag, FlagStatus
    <3>2. StoresTyped'
      <4>1. flags' \in Seq(Flag)
        <5> HIDE DEF e
        <5> QED BY <2>3, <3>1, AppendProperties DEF StoresTyped, e
      <4> QED BY <1>8, <4>1 DEF WriteFlag, StoresTyped
    <3>3. Len(flags) + 1 \in Nat
      BY Stored
    <3>4. l \in Job /\ l.candidate = job[w].candidate
      BY <1>0, <3>3 DEF Job
    <3> HIDE DEF l
    <3>5. JobTyped(l, "resolve") /\ "resolve" \in PC
      BY <2>1, <3>4 DEF JobTyped, PC
    <3>6. JobsTyped'
      BY <2>3, <3>4, <3>5, StepKeepsType DEF l
    <3> QED BY <3>2, <3>6
  <2>4. CASE WriteFails(w) /\ UNCHANGED flags
    BY <1>6, <1>8, <2>4, StoresUnchanged DEF WriteFlag
  <2> QED BY <1>8, <2>2, <2>3, <2>4 DEF WriteFlag
<1>9. CASE Resolve(w)
  <2> DEFINE e == [queue[job[w].item] EXCEPT !.resolved = job[w].flag_id]
  <2>1. job[w].item \in DOMAIN queue => e \in WorkItem
    BY <1>0, Stored DEF WorkItem, Job
  <2>2. [queue EXCEPT ![job[w].item] = e] \in Seq(WorkItem)
    <3>1. queue \in Seq(WorkItem)
      BY DEF StoresTyped
    <3> HIDE DEF e
    <3> QED BY <2>1, <3>1, WritePlace
  <2>3. StoresTyped'
    BY <1>9, <2>2 DEF Resolve, StoresTyped
  <2>4. JobsTyped'
    BY <1>0, <1>9, NextTyped DEF Resolve
  <2> QED BY <2>3, <2>4
<1> QED BY <1>1, <1>2, <1>3, <1>4, <1>5, <1>7, <1>8, <1>9 DEF Flagging

LEMMA StatusTyped ==
  ASSUME TypeInv, NEW w \in Workers, BeginSetStatus(w) \/ SetStatus(w)
  PROVE  TypeInv'
<1> USE DEF TypeInv
<1>0. /\ job[w] \in Job /\ JobTyped(job[w], pc[w])
      /\ StoresTyped
  BY DEF JobsTyped
<1>1. CASE BeginSetStatus(w)
  <2>1. StoresTyped'
    BY <1>1, StoresUnchanged DEF BeginSetStatus
  <2>2a. PICK f \in DOMAIN flags : \E status \in ALLOWED_TRANSITIONS[flags[f].status] :
          Step(w, "set_status", [NoJob EXCEPT !.flag_id = f,
                 !.flag = [flags[f] EXCEPT !.status = status]])
    BY <1>1 DEF BeginSetStatus
  <2>2. PICK status \in ALLOWED_TRANSITIONS[flags[f].status] :
          Step(w, "set_status", [NoJob EXCEPT !.flag_id = f,
                 !.flag = [flags[f] EXCEPT !.status = status]])
    BY <2>2a
  <2> DEFINE e == [flags[f] EXCEPT !.status = status]
             l == [NoJob EXCEPT !.flag_id = f, !.flag = e]
  <2>3. flags[f] \in Flag /\ f \in Nat
    BY Stored
  <2>4. status \in FlagStatus
    BY <2>3 DEF Flag, FlagStatus, ALLOWED_TRANSITIONS
  <2>5. e \in Flag
    BY <2>3, <2>4 DEF Flag
  <2>6. Step(w, "set_status", l)
    BY <2>2
  <2> HIDE DEF e
  <2>7. l \in Job /\ JobTyped(l, "set_status") /\ "set_status" \in PC
    BY <2>3, <2>5, NoJobTyped DEF NoJob, Job, JobTyped, PC
  <2> HIDE DEF l
  <2>8. JobsTyped'
    BY <2>6, <2>7, StepKeepsType
  <2> QED BY <2>1, <2>8
<1>2. CASE SetStatus(w)
  <2>1. job[w].flag \in Flag
    BY <1>0, <1>2 DEF JobTyped, SetStatus, At
  <2>2. [flags EXCEPT ![job[w].flag_id] = job[w].flag] \in Seq(Flag)
    BY <2>1, WritePlace DEF StoresTyped
  <2>3. StoresTyped'
    BY <1>2, <2>2 DEF SetStatus, StoresTyped
  <2>4. JobsTyped'
    BY <1>2, EndTyped DEF SetStatus
  <2> QED BY <2>3, <2>4
<1> QED BY <1>1, <1>2

LEMMA TypeInvHolds == Spec => []TypeInv
<1>1. Init => TypeInv
  <2> SUFFICES ASSUME Init PROVE TypeInv
    OBVIOUS
  <2>1. StoresTyped
    BY DEF Init, StoresTyped
  <2>2. pc \in [Workers -> PC] /\ job \in [Workers -> Job]
    BY NoJobTyped DEF Init, PC
  <2>3. \A w \in Workers : JobTyped(job[w], pc[w])
    BY NoJobTyped DEF Init
  <2> QED BY <2>1, <2>2, <2>3 DEF TypeInv, JobsTyped
<1>2. TypeInv /\ [Next]_vars => TypeInv'
  <2> SUFFICES ASSUME TypeInv, [Next]_vars PROVE TypeInv'
    OBVIOUS
  <2>1. CASE UNCHANGED vars
    BY <2>1, StoresUnchanged, UnchangedTyped DEF vars, TypeInv
  <2>2. CASE Tick
    <3>1. StoresTyped'
      BY <2>2 DEF Tick, TypeInv, StoresTyped
    <3> QED BY <2>2, <3>1, UnchangedTyped DEF Tick, TypeInv
  <2>3. ASSUME NEW w \in Workers, \/ Capture(w) \/ Flagging(w)
                                  \/ BeginSetStatus(w) \/ SetStatus(w)
        PROVE  TypeInv'
    BY <2>3, CaptureTyped, FlaggingTyped, StatusTyped
  <2> QED BY <2>1, <2>2, <2>3 DEF Next
<1> QED BY <1>1, <1>2, PTL DEF Spec

\* The stores and every request's locals keep their types, however the
\* store calls of any number of requests interleave or fail.
THEOREM TypeCorrect == Spec => []TypeOK
<1>1. TypeInv => TypeOK
  BY DEF TypeInv, StoresTyped, JobsTyped, TypeOK
<1> QED BY <1>1, TypeInvHolds, PTL


-----------------------------------------------------------------------------
(* One request or cycle at a time, every store call of which may fail.     *)

OneAtATime == \A v, w \in Workers : v = w

LEMMA SoloStep ==
  ASSUME OneAtATime, TypeInv, NEW w \in Workers, NEW label, NEW l, Step(w, label, l),
         NEW v \in Workers
  PROVE  job'[v] = l /\ pc'[v] = label
<1>1. v = w
  BY DEF OneAtATime
<1>2. pc \in [Workers -> PC] /\ job \in [Workers -> Job]
  BY DEF TypeInv, JobsTyped
<1> QED BY <1>1, <1>2 DEF Step

-----------------------------------------------------------------------------
(* Ratings: whatever marker is missing, a marker points to a later rating  *)
(* of the same answer, so the last rating of an answer has none.           *)

RatingsStand(t, rs) ==
  /\ \A k \in DOMAIN rs :
       /\ rs[k].rated_at < t
       /\ rs[k].superseded_by # None =>
            /\ rs[k].superseded_by \in DOMAIN rs
            /\ k < rs[k].superseded_by
            /\ rs[rs[k].superseded_by].interaction = rs[k].interaction
  /\ \A k, l \in DOMAIN rs : k < l => rs[k].rated_at < rs[l].rated_at

\* What a capture knows at each of its store calls.
CaptureOK(j, label, t, rs) ==
  /\ label = "save" =>
       /\ j.rating.superseded_by = None
       /\ j.rating.rated_at < t
       /\ \A k \in DOMAIN rs : rs[k].rated_at < j.rating.rated_at
  /\ label \in {"history", "supersede"} =>
       /\ j.id = Len(rs) /\ j.id \in DOMAIN rs
       /\ rs[j.id].interaction = j.rating.interaction
  /\ label = "supersede" =>
       \A k \in j.previous : /\ k \in DOMAIN rs /\ k < j.id
                             /\ rs[k].interaction = j.rating.interaction

RatingInv ==
  /\ RatingsStand(now, ratings)
  /\ \A w \in Workers : CaptureOK(job[w], pc[w], now, ratings)

LEMMA RatingStep ==
  ASSUME OneAtATime, TypeInv, NEW w \in Workers, NEW label, NEW l, Step(w, label, l),
         CaptureOK(l, label, now', ratings'), RatingsStand(now', ratings')
  PROVE  RatingInv'
<1>1. \A v \in Workers : job'[v] = l /\ pc'[v] = label
  BY SoloStep
<1>2. \A v \in Workers : CaptureOK(job'[v], pc'[v], now', ratings')
  BY <1>1
<1> QED BY <1>2 DEF RatingInv

\* Away from a capture there is nothing to know.
LEMMA NotCapturing ==
  ASSUME NEW l, NEW label, label \notin {"save", "history", "supersede"}, NEW t, NEW rs
  PROVE  CaptureOK(l, label, t, rs)
BY DEF CaptureOK

\* The worker's next store call is none of a capture's.
Elsewhere(w) ==
  \E l : \E label \in PC \ {"save", "history", "supersede"} : Step(w, label, l)

LEMMA GoesElsewhere ==
  ASSUME NEW w, NEW label \in {"idle", "topics", "evaluate", "pending", "intent", "lookup",
                               "write", "resolve", "set_status"},
         NEW l, Step(w, label, l)
  PROVE  Elsewhere(w)
<1>1. label \in PC \ {"save", "history", "supersede"}
  BY DEF PC
<1> QED BY <1>1 DEF Elsewhere

LEMMA NextElsewhere ==
  ASSUME NEW w, NEW j, NextEvaluation(w, j)
  PROVE  Elsewhere(w)
<1>1. \/ Step(w, "evaluate", RetryNext(j))
      \/ Step(w, "topics", ListNext(j))
      \/ \E topic \in j.topics : Step(w, "evaluate", TopicNext(j, topic))
      \/ Step(w, "idle", NoJob)
  BY NextEvaluationIs DEF End
<1> QED BY <1>1, GoesElsewhere

\* A flagging step goes on to another.
LEMMA FlaggingElsewhere ==
  ASSUME NEW w, Flagging(w), StoresTyped
  PROVE  Elsewhere(w)
<1>1. ASSUME NEW j, NextEvaluation(w, j) PROVE Elsewhere(w)
  BY <1>1, NextElsewhere
<1>2. ASSUME End(w) PROVE Elsewhere(w)
  BY <1>2, GoesElsewhere DEF End
<1>3. ASSUME NEW l, NEW label \in {"intent", "pending", "lookup", "write", "resolve"},
             Step(w, label, l)
      PROVE  Elsewhere(w)
  BY <1>3, GoesElsewhere
<1>4. CASE BeginCycle(w)
  BY <1>1, <1>4, CycleIs
<1>5. CASE ReadTopics(w)
  BY <1>1, <1>2, <1>5 DEF ReadTopics
<1>6. CASE Evaluate(w)
  <2>1. \/ \E l : Step(w, "intent", l) \/ Step(w, "pending", l) \/ Step(w, "lookup", l)
        \/ NextEvaluation(w, job[w])
        \/ End(w)
    BY <1>6 DEF Evaluate
  <2> QED BY <1>1, <1>2, <1>3, <2>1
<1>7. CASE ReadPending(w)
  <2>1. \/ \E l : Step(w, "intent", l)
        \/ End(w)
    BY <1>7 DEF ReadPending
  <2> QED BY <1>2, <1>3, <2>1
<1>8. CASE RecordIntent(w)
  <2>1. \/ \E l : Step(w, "lookup", l)
        \/ End(w)
    BY <1>8 DEF RecordIntent
  <2> QED BY <1>2, <1>3, <2>1
<1>9. CASE LookupFlag(w)
  <2>1. \/ \E l : Step(w, "write", l)
        \/ NextEvaluation(w, job[w])
        \/ End(w)
    BY <1>9 DEF LookupFlag, WriteFails
  <2> QED BY <1>1, <1>2, <1>3, <2>1
<1>10. CASE WriteFlag(w)
  <2>1. \/ \E l : Step(w, "resolve", l)
        \/ NextEvaluation(w, job[w])
        \/ End(w)
    BY <1>10 DEF WriteFlag, WriteFails
  <2> QED BY <1>1, <1>2, <1>3, <2>1
<1>11. CASE Resolve(w)
  BY <1>1, <1>11 DEF Resolve
<1> QED BY <1>4, <1>5, <1>6, <1>7, <1>8, <1>9, <1>10, <1>11 DEF Flagging

\* Saving a rating, and writing a marker, keep the ratings in order.
LEMMA RatingSaved ==
  ASSUME NEW t \in Nat, NEW rs \in Seq(RatingRecord), NEW r \in RatingRecord,
         RatingsStand(t, rs), r.superseded_by = None, r.rated_at < t,
         \A k \in DOMAIN rs : rs[k].rated_at < r.rated_at
  PROVE  RatingsStand(t, Append(rs, r))
<1> DEFINE n == Len(rs)
           new == Append(rs, r)
<1>1. n \in Nat /\ DOMAIN rs = 1..n /\ new \in Seq(RatingRecord) /\ Len(new) = n + 1
      /\ DOMAIN new = 1..(n + 1)
      /\ (\A k \in 1..n : new[k] = rs[k]) /\ new[n + 1] = r
  BY AppendProperties, LenProperties
<1>2. \A k \in 1..(n + 1) : k \in 1..n \/ k = n + 1
  BY <1>1
<1> HIDE DEF new, n
<1>3. ASSUME NEW k \in DOMAIN new
      PROVE  /\ new[k].rated_at < t
             /\ new[k].superseded_by # None =>
                  /\ new[k].superseded_by \in DOMAIN new
                  /\ k < new[k].superseded_by
                  /\ new[new[k].superseded_by].interaction = new[k].interaction
  <2>1. CASE k \in 1..n
    <3>1. new[k] = rs[k] /\ k \in DOMAIN rs
      BY <1>1, <2>1
    <3>2. rs[k].superseded_by \in DOMAIN rs =>
            rs[k].superseded_by \in DOMAIN new
            /\ new[rs[k].superseded_by] = rs[rs[k].superseded_by]
      BY <1>1
    <3> QED BY <3>1, <3>2 DEF RatingsStand
  <2>2. CASE k = n + 1
    BY <1>1, <2>2
  <2> QED BY <1>1, <1>2, <2>1, <2>2
<1>4. ASSUME NEW k \in DOMAIN new, NEW l \in DOMAIN new, k < l
      PROVE  new[k].rated_at < new[l].rated_at
  <2>1. k \in 1..n /\ new[k] = rs[k] /\ k \in DOMAIN rs
    BY <1>1, <1>2, <1>4
  <2>2. CASE l \in 1..n
    BY <1>1, <1>4, <2>1, <2>2 DEF RatingsStand
  <2>3. CASE l = n + 1
    BY <1>1, <2>1, <2>3
  <2> QED BY <1>1, <1>2, <2>2, <2>3
<1> QED BY <1>3, <1>4 DEF RatingsStand, new

Marked(rs, k, id) == [rs EXCEPT ![k].superseded_by = id]

LEMMA MarkedIs ==
  ASSUME NEW rs \in Seq(RatingRecord), NEW k \in DOMAIN rs, NEW id
  PROVE  /\ DOMAIN Marked(rs, k, id) = DOMAIN rs
         /\ Len(Marked(rs, k, id)) = Len(rs)
         /\ \A l \in DOMAIN rs :
              /\ Marked(rs, k, id)[l].interaction = rs[l].interaction
              /\ Marked(rs, k, id)[l].rated_at = rs[l].rated_at
              /\ l # k => Marked(rs, k, id)[l].superseded_by = rs[l].superseded_by
         /\ Marked(rs, k, id)[k].superseded_by = id
<1> DEFINE m == Marked(rs, k, id)
<1>1. Len(rs) \in Nat /\ DOMAIN rs = 1..Len(rs) /\ \A l \in DOMAIN rs : rs[l] \in RatingRecord
  BY LenProperties
<1>2. DOMAIN m = DOMAIN rs
  BY DEF Marked
<1>3. Len(m) = Len(rs)
  <2> DEFINE e == [rs[k] EXCEPT !.superseded_by = id]
             T == RatingRecord \cup {e}
  <2>1. rs \in Seq(T) /\ e \in T
    <3> HIDE DEF e
    <3>1. rs \in [1..Len(rs) -> T]
      BY <1>1
    <3> QED BY <1>1, <3>1, SeqDef
  <2>2. m = [rs EXCEPT ![k] = e]
    BY DEF Marked
  <2> HIDE DEF e, T, m
  <2> QED BY <2>1, <2>2, WritePlace
<1>4. \A l \in DOMAIN rs :
        m[l] = IF l = k THEN [rs[l] EXCEPT !.superseded_by = id] ELSE rs[l]
  BY DEF Marked
<1> QED BY <1>1, <1>2, <1>3, <1>4 DEF RatingRecord

LEMMA MarkerWritten ==
  ASSUME NEW t \in Nat, NEW rs \in Seq(RatingRecord), RatingsStand(t, rs),
         NEW k \in DOMAIN rs, NEW id \in DOMAIN rs, k < id,
         rs[k].interaction = rs[id].interaction
  PROVE  RatingsStand(t, Marked(rs, k, id))
<1>1. \A l \in DOMAIN rs : l = k \/ l # k
  OBVIOUS
<1> QED BY <1>1, MarkedIs DEF RatingsStand

LEMMA CaptureKeepsRatings ==
  ASSUME OneAtATime, TypeInv, RatingInv, NEW w \in Workers, Capture(w)
  PROVE  RatingInv'
<1> DEFINE j == job[w]
<1>0. /\ StoresTyped /\ now \in Nat /\ ratings \in Seq(RatingRecord)
      /\ j \in Job /\ JobTyped(j, pc[w])
      /\ CaptureOK(j, pc[w], now, ratings)
      /\ RatingsStand(now, ratings)
  BY DEF TypeInv, JobsTyped, StoresTyped, RatingInv
<1>a. ASSUME Trigger(w), RatingsStand(now', ratings') PROVE RatingInv'
  <2>1. PICK l : Step(w, "evaluate", l)
    BY <1>a DEF Trigger
  <2> QED BY <1>a, <2>1, NotCapturing, RatingStep
<1>1. CASE BeginCapture(w)
  <2>1. PICK i \in Interactions, down \in BOOLEAN :
          Step(w, "save", [NoJob EXCEPT !.rating =
            [interaction |-> i, down |-> down, rated_at |-> now, superseded_by |-> None]])
    BY <1>1 DEF BeginCapture
  <2> DEFINE r == [interaction |-> i, down |-> down, rated_at |-> now, superseded_by |-> None]
             l == [NoJob EXCEPT !.rating = r]
  <2>2. now' = now + 1 /\ ratings' = ratings
    BY <1>1 DEF BeginCapture
  <2>3. \A k \in DOMAIN ratings : ratings[k].rated_at \in Nat
    BY <1>0, Stored DEF RatingRecord
  <2>4. RatingsStand(now + 1, ratings)
    BY <1>0, <2>3 DEF RatingsStand
  <2>5. l.rating = r
    BY DEF NoJob
  <2>6. CaptureOK(l, "save", now + 1, ratings)
    <3>1. r.superseded_by = None /\ r.rated_at = now
      OBVIOUS
    <3>2. \A k \in DOMAIN ratings : ratings[k].rated_at < now
      BY <1>0 DEF RatingsStand
    <3> HIDE DEF l, r
    <3> QED BY <1>0, <2>5, <3>1, <3>2 DEF CaptureOK
  <2> HIDE DEF l
  <2> QED BY <2>1, <2>2, <2>4, <2>6, RatingStep DEF l
<1>2. CASE SaveRating(w)
  <2>1. pc[w] = "save" /\ now' = now
    BY <1>2 DEF SaveRating, At
  <2>2. /\ j.rating \in RatingRecord /\ j.rating.superseded_by = None /\ j.rating.rated_at < now
        /\ \A k \in DOMAIN ratings : ratings[k].rated_at < j.rating.rated_at
    BY <1>0, <2>1 DEF JobTyped, CaptureOK
  <2>3. CASE /\ ratings' = Append(ratings, j.rating)
             /\ Step(w, "history", [j EXCEPT !.id = Len(ratings) + 1])
    <3> DEFINE l == [j EXCEPT !.id = Len(ratings) + 1]
    <3>1. RatingsStand(now, ratings')
      BY <1>0, <2>2, <2>3, RatingSaved
    <3>2. l.id = Len(ratings) + 1 /\ l.rating = j.rating
      BY <1>0 DEF Job
    <3>3. Len(ratings') = Len(ratings) + 1 /\ Len(ratings) + 1 \in DOMAIN ratings'
          /\ ratings'[Len(ratings) + 1] = j.rating
      BY <1>0, <2>2, <2>3, AppendProperties, LenProperties
    <3> HIDE DEF l
    <3>4. CaptureOK(l, "history", now, ratings')
      BY <3>2, <3>3 DEF CaptureOK
    <3> QED BY <2>1, <2>3, <3>1, <3>4, RatingStep DEF l
  <2>4. CASE End(w) /\ UNCHANGED ratings
    <3>1. Step(w, "idle", NoJob)
      BY <2>4 DEF End
    <3> QED BY <1>0, <2>1, <2>4, <3>1, NotCapturing, RatingStep
  <2> QED BY <1>2, <2>3, <2>4 DEF SaveRating
<1>3. CASE ReadHistory(w)
  <2>1. pc[w] = "history" /\ now' = now /\ ratings' = ratings
    BY <1>3 DEF ReadHistory, At
  <2> DEFINE previous == {k \in DOMAIN ratings :
                            /\ ratings[k].interaction = j.rating.interaction
                            /\ k # j.id
                            /\ IsCurrent(k)}
             l == [j EXCEPT !.previous = previous]
  <2>2. Step(w, "supersede", l) \/ Trigger(w)
    BY <1>3 DEF ReadHistory
  <2>3. /\ j.id = Len(ratings) /\ j.id \in DOMAIN ratings
        /\ ratings[j.id].interaction = j.rating.interaction
    BY <1>0, <2>1 DEF CaptureOK
  <2>4. \A k \in previous : /\ k \in DOMAIN ratings /\ k < j.id
                            /\ ratings[k].interaction = j.rating.interaction
    <3>1. \A k \in DOMAIN ratings : k # Len(ratings) => k < Len(ratings)
      BY <1>0, Stored
    <3> QED BY <2>3, <3>1
  <2> HIDE DEF previous
  <2>5. l.previous = previous /\ l.id = j.id /\ l.rating = j.rating
    BY <1>0 DEF Job
  <2> HIDE DEF l
  <2>6. CaptureOK(l, "supersede", now, ratings)
    BY <2>3, <2>4, <2>5 DEF CaptureOK
  <2> QED BY <1>0, <1>a, <2>1, <2>2, <2>6, RatingStep
<1>4. CASE Supersede(w)
  <2>1. pc[w] = "supersede" /\ now' = now
    BY <1>4 DEF Supersede, At
  <2>2. PICK k \in j.previous :
          /\ \/ ratings' = [ratings EXCEPT ![k].superseded_by = j.id]
             \/ UNCHANGED ratings
          /\ IF j.previous = {k} THEN Trigger(w)
             ELSE Step(w, "supersede", [j EXCEPT !.previous = @ \ {k}])
    BY <1>4 DEF Supersede
  <2>3. /\ j.id = Len(ratings) /\ j.id \in DOMAIN ratings
        /\ ratings[j.id].interaction = j.rating.interaction
        /\ \A m \in j.previous : /\ m \in DOMAIN ratings /\ m < j.id
                                 /\ ratings[m].interaction = j.rating.interaction
    BY <1>0, <2>1 DEF CaptureOK
  <2>4. ratings' = Marked(ratings, k, j.id) \/ ratings' = ratings
    BY <2>2 DEF Marked
  <2>5. RatingsStand(now, ratings')
    BY <1>0, <2>3, <2>4, MarkerWritten
  <2>6. /\ Len(ratings') = Len(ratings) /\ DOMAIN ratings' = DOMAIN ratings
        /\ \A m \in DOMAIN ratings : ratings'[m].interaction = ratings[m].interaction
    BY <1>0, <2>3, <2>4, MarkedIs
  <2> DEFINE l == [j EXCEPT !.previous = j.previous \ {k}]
  <2>7. Step(w, "supersede", l) \/ Trigger(w)
    BY <2>2
  <2>8. l.previous = j.previous \ {k} /\ l.id = j.id /\ l.rating = j.rating
    BY <1>0 DEF Job
  <2> HIDE DEF l
  <2>9. CaptureOK(l, "supersede", now, ratings')
    BY <2>3, <2>6, <2>8 DEF CaptureOK
  <2> QED BY <1>a, <2>1, <2>5, <2>7, <2>9, RatingStep
<1> QED BY <1>1, <1>2, <1>3, <1>4 DEF Capture

LEMMA RatingInvHolds ==
  ASSUME OneAtATime
  PROVE  Spec => []RatingInv
<1>1. Init => RatingInv
  BY DEF Init, RatingInv, RatingsStand, CaptureOK, NoJob
<1>2. TypeInv /\ RatingInv /\ [Next]_vars => RatingInv'
  <2> SUFFICES ASSUME TypeInv, RatingInv, [Next]_vars PROVE RatingInv'
    OBVIOUS
  <2>0. StoresTyped /\ RatingsStand(now, ratings)
    BY DEF TypeInv, RatingInv
  <2>1. CASE UNCHANGED vars
    BY <2>1 DEF vars, RatingInv
  <2>2. CASE Tick
    <3>1. now' = now + 1 /\ UNCHANGED <<ratings, pc, job>> /\ now \in Nat
      BY <2>0, <2>2 DEF Tick, StoresTyped
    <3>2. \A k \in DOMAIN ratings : ratings[k].rated_at \in Nat
      BY <2>0, Stored DEF RatingRecord
    <3>3. RatingsStand(now + 1, ratings)
      BY <2>0, <3>1, <3>2 DEF RatingsStand
    <3>4. ASSUME NEW v \in Workers PROVE CaptureOK(job[v], pc[v], now + 1, ratings)
      <4>1. CaptureOK(job[v], pc[v], now, ratings) /\ JobTyped(job[v], pc[v])
        BY DEF RatingInv, TypeInv, JobsTyped
      <4>2. pc[v] = "save" => job[v].rating.rated_at \in Nat
        BY <4>1 DEF JobTyped, RatingRecord
      <4> QED BY <3>1, <4>1, <4>2 DEF CaptureOK
    <3> QED BY <3>1, <3>3, <3>4 DEF RatingInv
  <2>3. ASSUME NEW w \in Workers, Capture(w) PROVE RatingInv'
    BY <2>3, CaptureKeepsRatings
  <2>4. ASSUME NEW w \in Workers, Flagging(w) PROVE RatingInv'
    <3>1. now' = now /\ ratings' = ratings
      BY <2>4 DEF Flagging, BeginCycle, ReadTopics, Evaluate, ReadPending, RecordIntent,
                  LookupFlag, WriteFlag, Resolve
    <3>2. PICK l : \E label \in PC \ {"save", "history", "supersede"} : Step(w, label, l)
      BY <2>0, <2>4, FlaggingElsewhere DEF Elsewhere
    <3> QED BY <2>0, <3>1, <3>2, NotCapturing, RatingStep
  <2>5. ASSUME NEW w \in Workers, BeginSetStatus(w) \/ SetStatus(w) PROVE RatingInv'
    <3>1. now' = now /\ ratings' = ratings
      BY <2>5 DEF BeginSetStatus, SetStatus
    <3>2. \E l : Step(w, "set_status", l) \/ Step(w, "idle", l)
      BY <2>5 DEF BeginSetStatus, SetStatus, End
    <3> QED BY <2>0, <3>1, <3>2, NotCapturing, RatingStep
  <2> QED BY <2>1, <2>2, <2>3, <2>4, <2>5 DEF Next
<1> QED BY <1>1, <1>2, TypeInvHolds, PTL DEF Spec

\* Whichever markers are missing, the rating shown for an answer is the last
\* one saved for it (_supersede_previous, _resolve_current), for any answers
\* and any number of ratings, when requests come one at a time.
THEOREM LatestIsShown ==
  ASSUME OneAtATime
  PROVE  Spec => []CurrentRatingIsLatest
<1>1. TypeInv /\ RatingInv => CurrentRatingIsLatest
  <2> SUFFICES ASSUME TypeInv, RatingInv, NEW i \in Interactions
               PROVE  LET mine == {k \in DOMAIN ratings : ratings[k].interaction = i}
                      IN mine # {} => /\ _resolve_current(i) \in mine
                                      /\ \A k \in mine : k <= _resolve_current(i)
    BY DEF CurrentRatingIsLatest
  <2> DEFINE mine == {k \in DOMAIN ratings : ratings[k].interaction = i}
             shown == {k \in DOMAIN ratings : ratings[k].interaction = i /\ IsCurrent(k)}
             Latest(k) == \A l \in shown : ratings[l].rated_at <= ratings[k].rated_at
  <2> SUFFICES ASSUME mine # {}
               PROVE  _resolve_current(i) \in mine /\ \A k \in mine : k <= _resolve_current(i)
    OBVIOUS
  <2>1. StoresTyped /\ RatingsStand(now, ratings)
    BY DEF TypeInv, RatingInv
  <2>2. mine \in SUBSET (1..Len(ratings)) /\ Len(ratings) \in Nat
        /\ \A k \in 1..Len(ratings) : k \in Nat
    BY <2>1, Stored
  <2>3. PICK last \in mine : \A k \in mine : k <= last
    <3> DEFINE self == [k \in 1..Len(ratings) |-> k]
    <3>1. \A k \in 1..Len(ratings) : self[k] \in Nat /\ self[k] = k
      BY <2>2
    <3>2. \E k \in mine : \A l \in mine : self[l] < self[k] \/ (self[l] = self[k] /\ k <= l)
      <4> HIDE DEF self, mine
      <4> QED BY <2>2, <3>1, Greatest
    <3>3. PICK k \in mine : \A l \in mine : self[l] < self[k] \/ (self[l] = self[k] /\ k <= l)
      BY <3>2
    <3>4. \A l \in mine : l <= k
      <4> HIDE DEF self, mine
      <4> QED BY <2>2, <3>1, <3>3
    <3> QED BY <3>4
  <2>4. IsCurrent(last)
    <3> SUFFICES ASSUME ratings[last].superseded_by # None PROVE FALSE
      BY DEF IsCurrent
    <3> DEFINE by == ratings[last].superseded_by
    <3>1. by \in DOMAIN ratings /\ last < by /\ ratings[by].interaction = i
      BY <2>1 DEF RatingsStand
    <3>2. by \in mine /\ by \in Nat /\ last \in Nat
      BY <2>2, <3>1
    <3> HIDE DEF by
    <3> QED BY <2>3, <3>1, <3>2
  <2>5. \A k \in mine : k = last \/ ratings[k].rated_at < ratings[last].rated_at
    <3> TAKE k \in mine
    <3>1. k \in Nat /\ last \in Nat /\ k <= last /\ k \in DOMAIN ratings /\ last \in DOMAIN ratings
      BY <2>2, <2>3
    <3>2. CASE k < last
      BY <2>1, <3>1, <3>2 DEF RatingsStand
    <3> QED BY <3>1, <3>2
  <2>6. \A k \in mine : ratings[k].rated_at \in Nat
    BY <2>1, Stored DEF RatingRecord
  <2>7. shown \subseteq mine /\ last \in shown
    BY <2>4
  <2> HIDE DEF mine, shown
  <2>8. Latest(last)
    BY <2>5, <2>6, <2>7
  <2>9. \A k \in shown : Latest(k) => k = last
    <3> TAKE k \in shown
    <3> HAVE Latest(k)
    <3>1. ratings[last].rated_at <= ratings[k].rated_at /\ k \in mine
      BY <2>7
    <3> QED BY <2>5, <2>6, <2>7, <3>1
  <2>10. _resolve_current(i) = CHOOSE k \in shown : Latest(k)
    BY <2>7 DEF _resolve_current, shown
  <2>11. _resolve_current(i) = last
    <3> HIDE DEF Latest
    <3> QED BY <2>7, <2>8, <2>9, <2>10
  <2> QED BY <2>3, <2>11
<1> QED BY <1>1, TypeInvHolds, RatingInvHolds, PTL


-----------------------------------------------------------------------------
(* Flags: of the pending intents at most one is of a topic, and the window *)
(* it is for ends no earlier than that of any flag of the topic.  A write  *)
(* then updates the open flag that overlaps it and ends last, and the      *)
(* merged window cannot come to overlap another open one.                  *)

Pending(q) == {k \in DOMAIN q : q[k].resolved = None}

\* The intents still to be retried are as they were read.
TodoOK(todo, q) ==
  /\ \A i \in DOMAIN todo : /\ todo[i].item \in Pending(q)
                            /\ q[todo[i].item].candidate = todo[i].candidate
  /\ \A i, k \in DOMAIN todo : todo[i].item = todo[k].item => i = k

Newest(candidate, fs) ==
  \A f \in DOMAIN fs : fs[f].candidate.topic = candidate.topic =>
    fs[f].candidate.window_end <= candidate.window_end

\* The open flags of the candidate's topic that its window overlaps.
Rivals(candidate, fs) ==
  {f \in DOMAIN fs : /\ fs[f].candidate.topic = candidate.topic
                     /\ fs[f].status = "open"
                     /\ Overlaps(fs[f].candidate.window_end, candidate.window_end)}

Holds(flag, candidate) ==
  /\ flag.topic = candidate.topic
  /\ candidate.interactions \subseteq flag.interactions

Apart(fs) ==
  \A f, g \in DOMAIN fs :
    (/\ f # g /\ fs[f].status = "open" /\ fs[g].status = "open"
     /\ fs[f].candidate.topic = fs[g].candidate.topic)
      => ~ Overlaps(fs[f].candidate.window_end, fs[g].candidate.window_end)

\* No window ends in the future.
FlagsPast(t, fs) == \A f \in DOMAIN fs : fs[f].candidate.window_end <= t
IntentsPast(t, q) == \A k \in DOMAIN q : q[k].candidate.window_end <= t

PendingNewest(fs, q) == \A k \in Pending(q) : Newest(q[k].candidate, fs)
OnePerTopic(q) ==
  \A k, l \in Pending(q) : q[k].candidate.topic = q[l].candidate.topic => k = l

Resolved(fs, q) ==
  \A k \in DOMAIN q : q[k].resolved # None =>
    q[k].resolved \in DOMAIN fs /\ Holds(fs[q[k].resolved].candidate, q[k].candidate)

FlagsStand(t, fs, q) ==
  /\ Apart(fs) /\ FlagsPast(t, fs) /\ IntentsPast(t, q)
  /\ PendingNewest(fs, q) /\ OnePerTopic(q) /\ Resolved(fs, q)

\* What a request knows at each of its store calls.
FlaggingOK(j, label, t, fs, q) ==
  /\ TodoOK(j.todo, q)
  /\ j.item = None => j.todo = <<>>
  /\ j.item # None => \A i \in DOMAIN j.todo : j.todo[i].item # j.item
  /\ label \in {"lookup", "write", "resolve"} => j.item # None
  /\ label \in {"evaluate", "lookup", "write", "resolve"} /\ j.item # None =>
       j.item \in Pending(q) /\ q[j.item].candidate = j.candidate
  /\ label = "evaluate" /\ j.item # None => j.candidate.topic = j.topic
  /\ label = "pending" => j.item = None /\ j.candidate.topic = j.topic
  /\ label \in {"pending", "intent"} =>
       j.candidate.window_end <= t /\ Newest(j.candidate, fs)
  /\ label = "intent" =>
       IF j.item = None
       THEN \A k \in Pending(q) : q[k].candidate.topic # j.candidate.topic
       ELSE j.item \in Pending(q) /\ q[j.item].candidate.topic = j.candidate.topic
  /\ label = "write" =>
       IF j.flag = None THEN Rivals(j.candidate, fs) = {}
       ELSE /\ j.flag_id \in Rivals(j.candidate, fs) /\ fs[j.flag_id] = j.flag
            /\ \A g \in Rivals(j.candidate, fs) :
                 fs[g].candidate.window_end <= j.flag.candidate.window_end
  /\ label = "resolve" =>
       j.flag_id \in DOMAIN fs /\ Holds(fs[j.flag_id].candidate, j.candidate)
  /\ label = "set_status" =>
       /\ j.flag_id \in DOMAIN fs
       /\ j.flag.candidate = fs[j.flag_id].candidate /\ j.flag.status # "open"

FlagInv ==
  /\ FlagsStand(now, flags, queue)
  /\ \A w \in Workers : FlaggingOK(job[w], pc[w], now, flags, queue)

LEMMA FlagStep ==
  ASSUME OneAtATime, TypeInv, NEW w \in Workers, NEW label, NEW l, Step(w, label, l),
         FlaggingOK(l, label, now', flags', queue'), FlagsStand(now', flags', queue')
  PROVE  FlagInv'
<1>1. \A v \in Workers : job'[v] = l /\ pc'[v] = label
  BY SoloStep
<1>2. \A v \in Workers : FlaggingOK(job'[v], pc'[v], now', flags', queue')
  BY <1>1
<1> QED BY <1>2 DEF FlagInv

LEMMA NoTodo == ASSUME NEW q PROVE TodoOK(<<>>, q)
BY DEF TodoOK

\* A job with no intent, at a label that asks nothing of it.
LEMMA FreshJob ==
  ASSUME NEW l, l.todo = <<>>, l.item = None, NEW t, NEW fs, NEW q,
         NEW label \in {"idle", "save", "history", "supersede", "topics", "evaluate"}
  PROVE  FlaggingOK(l, label, t, fs, q)
BY NoTodo DEF FlaggingOK

LEMMA TodoTail ==
  ASSUME NEW todo \in Seq([item : Nat, candidate : FlagCandidate]), todo # <<>>,
         NEW q, TodoOK(todo, q)
  PROVE  /\ TodoOK(Tail(todo), q)
         /\ Head(todo).item \in Pending(q)
         /\ q[Head(todo).item].candidate = Head(todo).candidate
         /\ \A i \in DOMAIN Tail(todo) : Tail(todo)[i].item # Head(todo).item
<1>1. /\ Len(todo) \in Nat /\ Len(todo) >= 1 /\ DOMAIN todo = 1..Len(todo)
      /\ Head(todo) = todo[1]
      /\ Len(Tail(todo)) = Len(todo) - 1 /\ DOMAIN Tail(todo) = 1..(Len(todo) - 1)
      /\ \A i \in 1..(Len(todo) - 1) : Tail(todo)[i] = todo[i + 1]
  BY HeadTailProperties, LenProperties, EmptySeq
<1>2. \A i \in DOMAIN Tail(todo) : i + 1 \in DOMAIN todo /\ i + 1 # 1 /\ Tail(todo)[i] = todo[i + 1]
  BY <1>1
<1>3. 1 \in DOMAIN todo
  BY <1>1
<1>4. \A i \in DOMAIN Tail(todo) : /\ Tail(todo)[i].item \in Pending(q)
                                   /\ q[Tail(todo)[i].item].candidate = Tail(todo)[i].candidate
  BY <1>2 DEF TodoOK
<1>5. \A i, k \in DOMAIN Tail(todo) : Tail(todo)[i].item = Tail(todo)[k].item => i = k
  <2> TAKE i, k \in DOMAIN Tail(todo)
  <2> HAVE Tail(todo)[i].item = Tail(todo)[k].item
  <2>1. i + 1 = k + 1
    BY <1>2 DEF TodoOK
  <2> QED BY <1>1, <2>1
<1> QED BY <1>1, <1>2, <1>3, <1>4, <1>5 DEF TodoOK

LEMMA NextFlagging ==
  ASSUME NEW w, NEW j \in Job, NextEvaluation(w, j), NEW t, NEW fs, NEW q, TodoOK(j.todo, q)
  PROVE  \E l, label : Step(w, label, l) /\ FlaggingOK(l, label, t, fs, q)
<1>1. CASE j.todo # <<>> /\ Step(w, "evaluate", RetryNext(j))
  <2> DEFINE l == RetryNext(j)
  <2>1. j.todo \in Seq([item : Nat, candidate : FlagCandidate])
    BY DEF Job
  <2>2. Head(j.todo).item \in Nat
    <3>1. Head(j.todo) \in [item : Nat, candidate : FlagCandidate]
      BY <1>1, <2>1, HeadTailProperties
    <3> QED BY <3>1
  <2>3. /\ l.todo = Tail(j.todo) /\ l.item = Head(j.todo).item
        /\ l.candidate = Head(j.todo).candidate /\ l.topic = Head(j.todo).candidate.topic
    BY DEF RetryNext, NoJob
  <2> HIDE DEF l
  <2>4. l.item # None
    BY <2>2, <2>3, NoneAssumption
  <2>5. FlaggingOK(l, "evaluate", t, fs, q)
    BY <1>1, <2>1, <2>3, <2>4, TodoTail DEF FlaggingOK
  <2> QED BY <1>1, <2>5 DEF l
<1>2. CASE Step(w, "topics", ListNext(j))
  <2>1. ListNext(j).todo = <<>> /\ ListNext(j).item = None
    BY DEF ListNext, NoJob
  <2> QED BY <1>2, <2>1, FreshJob
<1>3. ASSUME NEW topic \in j.topics, Step(w, "evaluate", TopicNext(j, topic))
      PROVE  \E l, label : Step(w, label, l) /\ FlaggingOK(l, label, t, fs, q)
  <2>1. TopicNext(j, topic).todo = <<>> /\ TopicNext(j, topic).item = None
    BY DEF TopicNext, NoJob
  <2> QED BY <1>3, <2>1, FreshJob
<1>4. CASE End(w)
  <2>1. NoJob.todo = <<>> /\ NoJob.item = None
    BY DEF NoJob
  <2>2. Step(w, "idle", NoJob)
    BY <1>4 DEF End
  <2> QED BY <2>1, <2>2, FreshJob
<1> QED BY <1>1, <1>2, <1>3, <1>4, NextEvaluationIs

\* Ending a request, or going on to the next evaluation, once the stores
\* stand.
LEMMA EndFlags ==
  ASSUME OneAtATime, TypeInv, NEW w \in Workers, End(w), FlagsStand(now', flags', queue')
  PROVE  FlagInv'
<1>1. NoJob.todo = <<>> /\ NoJob.item = None
  BY DEF NoJob
<1>2. Step(w, "idle", NoJob)
  BY DEF End
<1>3. FlaggingOK(NoJob, "idle", now', flags', queue')
  BY <1>1, FreshJob
<1> QED BY <1>2, <1>3, FlagStep

LEMMA NextFlags ==
  ASSUME OneAtATime, TypeInv, NEW w \in Workers, NEW j \in Job, NextEvaluation(w, j),
         TodoOK(j.todo, queue'), FlagsStand(now', flags', queue')
  PROVE  FlagInv'
<1>1. PICK l, label : Step(w, label, l) /\ FlaggingOK(l, label, now', flags', queue')
  BY NextFlagging
<1> QED BY <1>1, FlagStep


\* A flag written at a place, an intent written at a place.
Written(s, k, e) == [s EXCEPT ![k] = e]

LEMMA WrittenIs ==
  ASSUME NEW S, NEW s \in Seq(S), NEW k \in DOMAIN s, NEW e \in S
  PROVE  /\ Written(s, k, e) \in Seq(S)
         /\ DOMAIN Written(s, k, e) = DOMAIN s
         /\ Written(s, k, e)[k] = e
         /\ \A l \in DOMAIN s : l # k => Written(s, k, e)[l] = s[l]
BY WritePlace DEF Written

LEMMA AppendIs ==
  ASSUME NEW S, NEW s \in Seq(S), NEW e \in S
  PROVE  /\ Append(s, e) \in Seq(S)
         /\ Len(s) + 1 \in Nat \ DOMAIN s
         /\ DOMAIN Append(s, e) = DOMAIN s \cup {Len(s) + 1}
         /\ Append(s, e)[Len(s) + 1] = e
         /\ \A l \in DOMAIN s : Append(s, e)[l] = s[l]
<1>1. Len(s) \in Nat /\ DOMAIN s = 1..Len(s)
  BY LenProperties
<1>2. DOMAIN Append(s, e) = 1..(Len(s) + 1)
  BY AppendProperties, LenProperties
<1>3. 1..(Len(s) + 1) = 1..Len(s) \cup {Len(s) + 1} /\ Len(s) + 1 \notin 1..Len(s)
  BY <1>1
<1> QED BY <1>1, <1>2, <1>3, AppendProperties

LEMMA OverlapsIsSymmetric ==
  ASSUME NEW a, NEW b
  PROVE  Overlaps(a, b) <=> Overlaps(b, a)
BY DEF Overlaps

\* The flag that ends last of those a window overlaps, moved to that window,
\* stays apart from every other.
LEMMA MovedStaysApart ==
  ASSUME NEW end \in Nat, NEW a \in Nat, NEW b \in Nat, ~ Overlaps(a, b), a <= end, b <= end,
         Overlaps(b, end) => b <= a, Overlaps(a, end)
  PROVE  ~ Overlaps(end, b) /\ ~ Overlaps(b, end)
BY PolicyAssumption DEF Overlaps

LEMMA MergeStands ==
  ASSUME NEW t \in Nat, NEW fs \in Seq(Flag), NEW q \in Seq(WorkItem), FlagsStand(t, fs, q),
         NEW item \in Pending(q), NEW c \in FlagCandidate, q[item].candidate = c,
         NEW f \in Rivals(c, fs),
         \A g \in Rivals(c, fs) : fs[g].candidate.window_end <= fs[f].candidate.window_end
  PROVE  /\ FlagsStand(t, Written(fs, f, Merge(fs[f], c)), q)
         /\ Holds(Merge(fs[f], c).candidate, c)
<1> DEFINE m == Merge(fs[f], c)
           new == Written(fs, f, m)
<1>1. f \in DOMAIN fs /\ fs[f] \in Flag /\ fs[f].candidate \in FlagCandidate
  <2>1. f \in DOMAIN fs
    BY DEF Rivals
  <2>2. fs[f] \in Flag
    BY <2>1, Places
  <2> QED BY <2>1, <2>2 DEF Flag
<1>2. fs[f].candidate.topic = c.topic /\ fs[f].status = "open"
      /\ Overlaps(fs[f].candidate.window_end, c.window_end)
  BY DEF Rivals
<1>3. /\ m \in Flag /\ m.status = "open" /\ m.candidate.topic = c.topic
      /\ m.candidate.window_end = c.window_end
      /\ m.candidate.interactions = c.interactions \cup fs[f].candidate.interactions
  BY <1>1, <1>2 DEF Merge, Flag, FlagCandidate
<1> HIDE DEF m
<1>4. /\ DOMAIN new = DOMAIN fs /\ new[f] = m
      /\ \A g \in DOMAIN fs : g # f => new[g] = fs[g]
  BY <1>1, <1>3, WrittenIs
<1> HIDE DEF new
<1>5. \A g \in DOMAIN fs : fs[g].candidate.window_end \in Nat
  <2>1. \A g \in DOMAIN fs : fs[g] \in Flag
    BY LenProperties
  <2> QED BY <2>1 DEF Flag, FlagCandidate
<1>6. Newest(c, fs) /\ c.window_end <= t /\ c.window_end \in Nat
  BY DEF FlagsStand, PendingNewest, IntentsPast, Pending, FlagCandidate
<1>7. ASSUME NEW g \in DOMAIN fs, g # f, fs[g].status = "open", fs[g].candidate.topic = c.topic
      PROVE  /\ ~ Overlaps(c.window_end, fs[g].candidate.window_end)
             /\ ~ Overlaps(fs[g].candidate.window_end, c.window_end)
  <2>1. ~ Overlaps(fs[f].candidate.window_end, fs[g].candidate.window_end)
    BY <1>1, <1>2, <1>7 DEF FlagsStand, Apart
  <2>2. fs[f].candidate.window_end <= c.window_end /\ fs[g].candidate.window_end <= c.window_end
    BY <1>1, <1>2, <1>6, <1>7 DEF Newest
  <2>3. Overlaps(fs[g].candidate.window_end, c.window_end) =>
          fs[g].candidate.window_end <= fs[f].candidate.window_end
    BY <1>7 DEF Rivals
  <2>4. fs[f].candidate.window_end \in Nat /\ fs[g].candidate.window_end \in Nat
    BY <1>1, <1>5
  <2> QED BY <1>2, <1>6, <2>1, <2>2, <2>3, <2>4, MovedStaysApart
<1>8. Apart(new)
  <2> SUFFICES ASSUME NEW g \in DOMAIN fs, NEW h \in DOMAIN fs, g # h,
                      new[g].status = "open", new[h].status = "open",
                      new[g].candidate.topic = new[h].candidate.topic
               PROVE  ~ Overlaps(new[g].candidate.window_end, new[h].candidate.window_end)
    BY <1>4 DEF Apart
  <2>1. CASE g = f
    <3>1. new[h] = fs[h] /\ fs[h].candidate.topic = c.topic
      BY <1>3, <1>4, <2>1
    <3> QED BY <1>3, <1>4, <1>7, <2>1, <3>1
  <2>2. CASE h = f
    <3>1. new[g] = fs[g] /\ fs[g].candidate.topic = c.topic
      BY <1>3, <1>4, <2>2
    <3> QED BY <1>3, <1>4, <1>7, <2>2, <3>1
  <2>3. CASE g # f /\ h # f
    BY <1>4, <2>3 DEF FlagsStand, Apart
  <2> QED BY <2>1, <2>2, <2>3
<1>9. FlagsPast(t, new)
  <2> SUFFICES ASSUME NEW g \in DOMAIN fs PROVE new[g].candidate.window_end <= t
    BY <1>4 DEF FlagsPast
  <2> QED BY <1>3, <1>4, <1>6 DEF FlagsStand, FlagsPast
<1>10. PendingNewest(new, q)
  <2> SUFFICES ASSUME NEW k \in Pending(q), NEW g \in DOMAIN fs,
                      new[g].candidate.topic = q[k].candidate.topic
               PROVE  new[g].candidate.window_end <= q[k].candidate.window_end
    BY <1>4 DEF PendingNewest, Newest
  <2>1. CASE g = f
    <3>1. k = item
      BY <1>3, <1>4, <2>1 DEF FlagsStand, OnePerTopic
    <3> QED BY <1>3, <1>4, <1>6, <2>1, <3>1
  <2>2. CASE g # f
    BY <1>4, <2>2 DEF FlagsStand, PendingNewest, Newest
  <2> QED BY <2>1, <2>2
<1>11. Resolved(new, q)
  <2> SUFFICES ASSUME NEW k \in DOMAIN q, q[k].resolved # None
               PROVE  /\ q[k].resolved \in DOMAIN new
                      /\ Holds(new[q[k].resolved].candidate, q[k].candidate)
    BY DEF Resolved
  <2> DEFINE g == q[k].resolved
  <2>1. g \in DOMAIN fs /\ Holds(fs[g].candidate, q[k].candidate)
    BY DEF FlagsStand, Resolved
  <2> HIDE DEF g
  <2>2. CASE g = f
    BY <1>2, <1>3, <1>4, <2>1, <2>2 DEF Holds, g
  <2>3. CASE g # f
    BY <1>4, <2>1, <2>3 DEF g
  <2> QED BY <2>2, <2>3
<1>12. Holds(m.candidate, c)
  BY <1>3 DEF Holds
<1>13. FlagsStand(t, new, q)
  BY <1>8, <1>9, <1>10, <1>11 DEF FlagsStand
<1> QED BY <1>12, <1>13 DEF new, m

LEMMA NewFlagStands ==
  ASSUME NEW t \in Nat, NEW fs \in Seq(Flag), NEW q \in Seq(WorkItem), FlagsStand(t, fs, q),
         NEW item \in Pending(q), NEW c \in FlagCandidate, q[item].candidate = c,
         Rivals(c, fs) = {}, NEW e \in Flag, e.candidate = c
  PROVE  FlagsStand(t, Append(fs, e), q)
<1> DEFINE n == Len(fs) + 1
           new == Append(fs, e)
<1>1. /\ n \in Nat \ DOMAIN fs /\ DOMAIN new = DOMAIN fs \cup {n} /\ new[n] = e
      /\ \A g \in DOMAIN fs : new[g] = fs[g]
  BY AppendIs
<1> HIDE DEF n, new
<1>2. Newest(c, fs) /\ c.window_end <= t /\ c.window_end \in Nat
  BY DEF FlagsStand, PendingNewest, IntentsPast, Pending, FlagCandidate
<1>3. ASSUME NEW g \in DOMAIN fs, fs[g].status = "open", fs[g].candidate.topic = c.topic
      PROVE  /\ ~ Overlaps(c.window_end, fs[g].candidate.window_end)
             /\ ~ Overlaps(fs[g].candidate.window_end, c.window_end)
  BY <1>3, OverlapsIsSymmetric DEF Rivals
<1>4. Apart(new)
  <2> SUFFICES ASSUME NEW g \in DOMAIN new, NEW h \in DOMAIN new, g # h,
                      new[g].status = "open", new[h].status = "open",
                      new[g].candidate.topic = new[h].candidate.topic
               PROVE  ~ Overlaps(new[g].candidate.window_end, new[h].candidate.window_end)
    BY DEF Apart
  <2>1. CASE g = n
    <3>1. h \in DOMAIN fs /\ new[h] = fs[h]
      BY <1>1, <2>1
    <3> QED BY <1>1, <1>3, <2>1, <3>1
  <2>2. CASE h = n
    <3>1. g \in DOMAIN fs /\ new[g] = fs[g]
      BY <1>1, <2>2
    <3> QED BY <1>1, <1>3, <2>2, <3>1
  <2>3. CASE g # n /\ h # n
    BY <1>1, <2>3 DEF FlagsStand, Apart
  <2> QED BY <2>1, <2>2, <2>3
<1>5. FlagsPast(t, new)
  BY <1>1, <1>2 DEF FlagsStand, FlagsPast
<1>6. PendingNewest(new, q)
  <2> SUFFICES ASSUME NEW k \in Pending(q), NEW g \in DOMAIN new,
                      new[g].candidate.topic = q[k].candidate.topic
               PROVE  new[g].candidate.window_end <= q[k].candidate.window_end
    BY DEF PendingNewest, Newest
  <2>1. CASE g = n
    <3>1. k = item
      BY <1>1, <2>1 DEF FlagsStand, OnePerTopic
    <3> QED BY <1>1, <1>2, <2>1, <3>1
  <2>2. CASE g # n
    BY <1>1, <2>2 DEF FlagsStand, PendingNewest, Newest
  <2> QED BY <2>1, <2>2
<1>7. Resolved(new, q)
  BY <1>1 DEF FlagsStand, Resolved
<1>8. FlagsStand(t, new, q)
  BY <1>4, <1>5, <1>6, <1>7 DEF FlagsStand
<1> QED BY <1>8 DEF new

\* Recording an intent: a new one, or the new candidate of a pending one.
LEMMA IntentRecorded ==
  ASSUME NEW t \in Nat, NEW fs \in Seq(Flag), NEW q \in Seq(WorkItem), FlagsStand(t, fs, q),
         NEW c \in FlagCandidate, c.window_end <= t, Newest(c, fs),
         \A k \in Pending(q) : q[k].candidate.topic # c.topic,
         NEW e \in WorkItem, e.candidate = c, e.resolved = None
  PROVE  /\ FlagsStand(t, fs, Append(q, e))
         /\ Len(q) + 1 \in Pending(Append(q, e))
         /\ Append(q, e)[Len(q) + 1].candidate = c
<1> DEFINE n == Len(q) + 1
           new == Append(q, e)
<1>1. /\ n \in Nat \ DOMAIN q /\ DOMAIN new = DOMAIN q \cup {n} /\ new[n] = e
      /\ \A k \in DOMAIN q : new[k] = q[k]
  BY AppendIs
<1> HIDE DEF n, new
<1>2. Pending(new) = Pending(q) \cup {n}
  BY <1>1 DEF Pending
<1>3. \A k \in Pending(q) : new[k] = q[k] /\ k # n
  BY <1>1 DEF Pending
<1>4. IntentsPast(t, new)
  BY <1>1 DEF FlagsStand, IntentsPast
<1>5. PendingNewest(fs, new)
  BY <1>1, <1>2, <1>3 DEF FlagsStand, PendingNewest
<1>6. OnePerTopic(new)
  BY <1>1, <1>2, <1>3 DEF FlagsStand, OnePerTopic
<1>7. Resolved(fs, new)
  BY <1>1 DEF FlagsStand, Resolved
<1>8. FlagsStand(t, fs, new) /\ n \in Pending(new) /\ new[n].candidate = c
  BY <1>1, <1>2, <1>4, <1>5, <1>6, <1>7 DEF FlagsStand
<1> QED BY <1>8 DEF new, n

LEMMA IntentRefreshed ==
  ASSUME NEW t \in Nat, NEW fs \in Seq(Flag), NEW q \in Seq(WorkItem), FlagsStand(t, fs, q),
         NEW item \in Pending(q), NEW c \in FlagCandidate, c.window_end <= t, Newest(c, fs),
         q[item].candidate.topic = c.topic,
         NEW e \in WorkItem, e.candidate = c, e.resolved = None,
         NEW todo, TodoOK(todo, q), \A i \in DOMAIN todo : todo[i].item # item
  PROVE  /\ FlagsStand(t, fs, Written(q, item, e))
         /\ item \in Pending(Written(q, item, e))
         /\ Written(q, item, e)[item].candidate = c
         /\ TodoOK(todo, Written(q, item, e))
<1> DEFINE new == Written(q, item, e)
<1>0. item \in DOMAIN q
  BY DEF Pending
<1>1. /\ DOMAIN new = DOMAIN q /\ new[item] = e
      /\ \A k \in DOMAIN q : k # item => new[k] = q[k]
  BY <1>0, WrittenIs
<1> HIDE DEF new
<1>2. Pending(new) = Pending(q)
  BY <1>0, <1>1 DEF Pending
<1>3. \A k \in Pending(q) : k # item => new[k] = q[k]
  BY <1>1 DEF Pending
<1>4. \A k \in Pending(q) : new[k].candidate.topic = q[k].candidate.topic
  BY <1>1, <1>3
<1>5. IntentsPast(t, new)
  BY <1>1 DEF FlagsStand, IntentsPast
<1>6. PendingNewest(fs, new)
  BY <1>1, <1>2, <1>3 DEF FlagsStand, PendingNewest
<1>7. OnePerTopic(new)
  BY <1>2, <1>4 DEF FlagsStand, OnePerTopic
<1>8. Resolved(fs, new)
  BY <1>1 DEF FlagsStand, Resolved
<1>9. FlagsStand(t, fs, new)
  BY <1>5, <1>6, <1>7, <1>8 DEF FlagsStand
<1>10. TodoOK(todo, new)
  BY <1>2, <1>3 DEF TodoOK
<1> QED BY <1>1, <1>2, <1>9, <1>10 DEF new

\* Resolving an intent with a flag that holds its evidence.
LEMMA IntentResolved ==
  ASSUME NEW t \in Nat, NEW fs \in Seq(Flag), NEW q \in Seq(WorkItem), FlagsStand(t, fs, q),
         NEW item \in Pending(q), NEW f \in DOMAIN fs,
         Holds(fs[f].candidate, q[item].candidate),
         NEW e \in WorkItem, e.candidate = q[item].candidate, e.resolved = f,
         NEW todo, TodoOK(todo, q), \A i \in DOMAIN todo : todo[i].item # item
  PROVE  /\ FlagsStand(t, fs, Written(q, item, e))
         /\ TodoOK(todo, Written(q, item, e))
<1> DEFINE new == Written(q, item, e)
<1>0. item \in DOMAIN q /\ f \in Nat /\ f # None
  BY LenProperties, NoneAssumption DEF Pending
<1>1. /\ DOMAIN new = DOMAIN q /\ new[item] = e
      /\ \A k \in DOMAIN q : k # item => new[k] = q[k]
  BY <1>0, WrittenIs
<1> HIDE DEF new
<1>2. Pending(new) = Pending(q) \ {item}
  BY <1>0, <1>1 DEF Pending
<1>3. \A k \in Pending(new) : new[k] = q[k] /\ k \in Pending(q)
  BY <1>1, <1>2 DEF Pending
<1>4. IntentsPast(t, new)
  BY <1>1 DEF FlagsStand, IntentsPast
<1>5. PendingNewest(fs, new)
  BY <1>3 DEF FlagsStand, PendingNewest
<1>6. OnePerTopic(new)
  BY <1>3 DEF FlagsStand, OnePerTopic
<1>7. Resolved(fs, new)
  <2> SUFFICES ASSUME NEW k \in DOMAIN q, new[k].resolved # None
               PROVE  new[k].resolved \in DOMAIN fs
                      /\ Holds(fs[new[k].resolved].candidate, new[k].candidate)
    BY <1>1 DEF Resolved
  <2>1. CASE k = item
    BY <1>1, <2>1
  <2>2. CASE k # item
    BY <1>1, <2>2 DEF FlagsStand, Resolved
  <2> QED BY <2>1, <2>2
<1>8. FlagsStand(t, fs, new)
  BY <1>4, <1>5, <1>6, <1>7 DEF FlagsStand
<1>9. TodoOK(todo, new)
  BY <1>1, <1>2 DEF TodoOK, Pending
<1> QED BY <1>8, <1>9 DEF new

\* A decision on a flag.
LEMMA StatusStands ==
  ASSUME NEW t \in Nat, NEW fs \in Seq(Flag), NEW q \in Seq(WorkItem), FlagsStand(t, fs, q),
         NEW f \in DOMAIN fs, NEW e \in Flag, e.candidate = fs[f].candidate, e.status # "open"
  PROVE  FlagsStand(t, Written(fs, f, e), q)
<1> DEFINE new == Written(fs, f, e)
<1>1. /\ DOMAIN new = DOMAIN fs /\ new[f] = e
      /\ \A g \in DOMAIN fs : g # f => new[g] = fs[g]
  BY WrittenIs
<1> HIDE DEF new
<1>2. \A g \in DOMAIN fs : /\ new[g].candidate = fs[g].candidate
                           /\ new[g].status = "open" => fs[g].status = "open"
  BY <1>1
<1>3. Apart(new)
  BY <1>1, <1>2 DEF FlagsStand, Apart
<1>4. FlagsPast(t, new)
  BY <1>1, <1>2 DEF FlagsStand, FlagsPast
<1>5. PendingNewest(new, q)
  BY <1>1, <1>2 DEF FlagsStand, PendingNewest, Newest
<1>6. Resolved(new, q)
  BY <1>1, <1>2 DEF FlagsStand, Resolved
<1>7. FlagsStand(t, new, q)
  BY <1>3, <1>4, <1>5, <1>6 DEF FlagsStand
<1> QED BY <1>7 DEF new


LEMMA PendingIs == pending = Pending(queue)
BY DEF pending, Pending

LEMMA RivalsAre == ASSUME NEW c PROVE OpenFlags(c) = Rivals(c, flags)
BY DEF OpenFlags, Rivals

\* A candidate that has just been evaluated is for the window ending now.
LEMMA FreshIsNewest ==
  ASSUME StoresTyped, FlagsStand(now, flags, queue), NEW topic,
         evaluate_topic(topic, now) # None
  PROVE  /\ evaluate_topic(topic, now).topic = topic
         /\ evaluate_topic(topic, now).window_end = now
         /\ Newest(evaluate_topic(topic, now), flags)
<1>1. evaluate_topic(topic, now).topic = topic /\ evaluate_topic(topic, now).window_end = now
  BY DEF evaluate_topic
<1>2. \A f \in DOMAIN flags : flags[f].candidate.window_end <= now
  BY DEF FlagsStand, FlagsPast
<1> QED BY <1>1, <1>2 DEF Newest

LEMMA TimePasses ==
  ASSUME StoresTyped, FlagsStand(now, flags, queue)
  PROVE  FlagsStand(now + 1, flags, queue)
<1>1. \A f \in DOMAIN flags : flags[f].candidate.window_end \in Nat
  BY Stored DEF Flag, FlagCandidate
<1>2. \A k \in DOMAIN queue : queue[k].candidate.window_end \in Nat
  BY Stored DEF WorkItem, FlagCandidate
<1>3. now \in Nat
  BY DEF StoresTyped
<1> QED BY <1>1, <1>2, <1>3 DEF FlagsStand, FlagsPast, IntentsPast

LEMMA CaptureKeepsFlags ==
  ASSUME OneAtATime, TypeInv, FlagInv, NEW w \in Workers, Capture(w)
  PROVE  FlagInv'
<1> DEFINE j == job[w]
<1>0. /\ StoresTyped /\ FlagsStand(now, flags, queue) /\ j \in Job
      /\ FlaggingOK(j, pc[w], now, flags, queue)
  BY DEF TypeInv, JobsTyped, FlagInv
<1>1. flags' = flags /\ queue' = queue /\ (now' = now \/ now' = now + 1)
  BY DEF Capture, BeginCapture, SaveRating, ReadHistory, Supersede
<1>2. FlagsStand(now', flags', queue')
  BY <1>0, <1>1, TimePasses
<1>3. NoJob.todo = <<>> /\ NoJob.item = None
  BY DEF NoJob
<1>4. ASSUME Trigger(w) PROVE FlagInv'
  <2> DEFINE l == [NoJob EXCEPT !.topic = TopicOf[job[w].rating.interaction]]
  <2>1. l.todo = <<>> /\ l.item = None
    BY DEF NoJob
  <2>2. Step(w, "evaluate", l)
    BY <1>4 DEF Trigger
  <2> HIDE DEF l
  <2> QED BY <1>2, <2>1, <2>2, FreshJob, FlagStep
\* A capture that goes on has no intent, and had none before.
<1>5. ASSUME NEW l, NEW label \in {"history", "supersede"}, Step(w, label, l),
             l.todo = j.todo, l.item = j.item
      PROVE  FlagInv'
  <2>1. FlaggingOK(l, label, now', flags', queue')
    BY <1>0, <1>1, <1>5 DEF FlaggingOK
  <2> QED BY <1>2, <1>5, <2>1, FlagStep
<1>6. CASE BeginCapture(w)
  <2>1. PICK r : Step(w, "save", [NoJob EXCEPT !.rating = r])
    BY <1>6 DEF BeginCapture
  <2> DEFINE l == [NoJob EXCEPT !.rating = r]
  <2>2. l.todo = <<>> /\ l.item = None
    BY DEF NoJob
  <2> HIDE DEF l
  <2> QED BY <1>2, <2>1, <2>2, FreshJob, FlagStep DEF l
<1>7. CASE SaveRating(w)
  <2> DEFINE l == [j EXCEPT !.id = Len(ratings) + 1]
  <2>1. Step(w, "history", l) \/ End(w)
    BY <1>7 DEF SaveRating
  <2>2. l.todo = j.todo /\ l.item = j.item
    BY <1>0 DEF Job
  <2> HIDE DEF l
  <2> QED BY <1>2, <1>5, <2>1, <2>2, EndFlags
<1>8. CASE ReadHistory(w)
  <2>1. PICK previous : Step(w, "supersede", [j EXCEPT !.previous = previous]) \/ Trigger(w)
    BY <1>8 DEF ReadHistory
  <2> DEFINE l == [j EXCEPT !.previous = previous]
  <2>2. l.todo = j.todo /\ l.item = j.item
    BY <1>0 DEF Job
  <2> HIDE DEF l
  <2> QED BY <1>4, <1>5, <2>1, <2>2 DEF l
<1>9. CASE Supersede(w)
  <2>1. PICK previous : Step(w, "supersede", [j EXCEPT !.previous = previous]) \/ Trigger(w)
    BY <1>9 DEF Supersede
  <2> DEFINE l == [j EXCEPT !.previous = previous]
  <2>2. l.todo = j.todo /\ l.item = j.item
    BY <1>0 DEF Job
  <2> HIDE DEF l
  <2> QED BY <1>4, <1>5, <2>1, <2>2 DEF l
<1> QED BY <1>6, <1>7, <1>8, <1>9 DEF Capture

LEMMA FlaggingKeepsFlags ==
  ASSUME OneAtATime, TypeInv, FlagInv, NEW w \in Workers, Flagging(w)
  PROVE  FlagInv'
<1> DEFINE j == job[w]
           c == j.candidate
<1>0. /\ StoresTyped /\ FlagsStand(now, flags, queue) /\ j \in Job /\ now \in Nat
      /\ flags \in Seq(Flag) /\ queue \in Seq(WorkItem)
      /\ JobTyped(j, pc[w])
      /\ FlaggingOK(j, pc[w], now, flags, queue)
      /\ TodoOK(j.todo, queue)
  BY DEF TypeInv, JobsTyped, FlagInv, StoresTyped, FlaggingOK
<1>a. ASSUME UNCHANGED <<now, flags, queue>>
      PROVE  FlagsStand(now', flags', queue') /\ TodoOK(j.todo, queue')
  BY <1>0, <1>a
<1>b. ASSUME WriteFails(w), UNCHANGED <<now, flags, queue>> PROVE FlagInv'
  BY <1>0, <1>a, <1>b, NextFlags, EndFlags DEF WriteFails
<1>1. CASE BeginCycle(w)
  <2>1. PICK s \in [1..Cardinality(pending) -> pending] :
          InOrder(s) /\ NextEvaluation(w, CycleStart(s))
    BY <1>0, <1>1, CycleIs
  <2> DEFINE l == CycleStart(s)
  <2>2. l \in Job
    BY <1>0, CycleTyped
  <2>3. TodoOK(l.todo, queue)
    <3> DEFINE todo == [i \in DOMAIN s |-> [item |-> s[i], candidate |-> queue[s[i]].candidate]]
    <3>1. l.todo = todo
      BY DEF CycleStart, NoJob
    <3>2. \A i \in DOMAIN s : s[i] \in pending
      BY <2>1
    <3>3. \A i, k \in DOMAIN s : s[i] = s[k] => i = k
      <4>1. Cardinality(pending) \in Nat
        <5>1. pending \in SUBSET (1..Len(queue)) /\ Len(queue) \in Nat
          BY <1>0, Stored DEF pending
        <5>2. IsFiniteSet(1..Len(queue))
          BY <5>1, FS_Interval
        <5> QED BY <5>1, <5>2, FS_Subset, FS_CardinalityType
      <4>2. \A i \in DOMAIN s : i \in Nat
        BY <2>1, <4>1
      <4>3. \A k \in pending : k \in Nat
        BY <1>0, Stored DEF pending
      <4>4. \A i, k \in DOMAIN s : i < k => s[i] < s[k]
        BY <2>1 DEF InOrder
      <4> TAKE i, k \in DOMAIN s
      <4>5. i \in Nat /\ k \in Nat /\ s[i] \in Nat /\ s[k] \in Nat
        BY <3>2, <4>2, <4>3
      <4> QED BY <4>4, <4>5
    <3>4. \A i \in DOMAIN todo : i \in DOMAIN s /\ todo[i].item = s[i]
                                 /\ todo[i].candidate = queue[s[i]].candidate
      OBVIOUS
    <3> HIDE DEF todo, l
    <3> QED BY <3>1, <3>2, <3>3, <3>4, PendingIs DEF TodoOK
  <2>4. UNCHANGED <<now, flags, queue>>
    BY <1>1 DEF BeginCycle
  <2> HIDE DEF l
  <2> QED BY <1>0, <1>a, <2>1, <2>2, <2>3, <2>4, NextFlags DEF l
<1>2. CASE ReadTopics(w)
  <2> DEFINE T == topics_in(current_in_window(now)) \ j.handled
             l == [NoJob EXCEPT !.topics = T]
  <2>1. NextEvaluation(w, l) \/ End(w)
    BY <1>2 DEF ReadTopics
  <2>2. T \in SUBSET Topics
    <3>1. \A k \in DOMAIN ratings : TopicOf[ratings[k].interaction] \in Topics
      BY <1>0, Stored, TopicAssumption DEF RatingRecord
    <3> QED BY <3>1 DEF topics_in, current_in_window
  <2> HIDE DEF T
  <2>3. l \in Job /\ l.todo = <<>>
    BY <2>2, NoJobTyped DEF NoJob, Job
  <2>4. UNCHANGED <<now, flags, queue>>
    BY <1>2 DEF ReadTopics
  <2> HIDE DEF l
  <2> QED BY <1>a, <2>1, <2>3, <2>4, NoTodo, NextFlags, EndFlags
<1>3. CASE Evaluate(w)
  <2> DEFINE fresh == evaluate_topic(j.topic, now)
             l == [j EXCEPT !.candidate = fresh]
  <2>0. pc[w] = "evaluate" /\ UNCHANGED <<now, flags, queue>>
    BY <1>3 DEF Evaluate, At
  <2>1. \/ fresh # None /\ j.item # None /\ Step(w, "intent", l)
        \/ fresh # None /\ j.item = None /\ Step(w, "pending", l)
        \/ j.item # None /\ Step(w, "lookup", j)
        \/ NextEvaluation(w, j)
        \/ End(w)
    BY <1>3 DEF Evaluate
  <2>2. fresh # None => fresh.topic = j.topic /\ fresh.window_end = now /\ Newest(fresh, flags)
    BY <1>0, FreshIsNewest
  <2> HIDE DEF fresh
  <2>3. l.candidate = fresh /\ l.item = j.item /\ l.todo = j.todo /\ l.topic = j.topic
    BY <1>0 DEF Job
  <2> HIDE DEF l
  <2>4. CASE fresh # None /\ j.item # None /\ Step(w, "intent", l)
    <3>1. /\ j.item \in Pending(queue) /\ queue[j.item].candidate.topic = j.topic
          /\ \A i \in DOMAIN j.todo : j.todo[i].item # j.item
      BY <1>0, <2>0, <2>4 DEF FlaggingOK
    <3>2. FlaggingOK(l, "intent", now, flags, queue)
      BY <1>0, <2>2, <2>3, <2>4, <3>1 DEF FlaggingOK
    <3> QED BY <1>0, <2>0, <2>4, <3>2, FlagStep
  <2>5. CASE fresh # None /\ j.item = None /\ Step(w, "pending", l)
    <3>1. j.todo = <<>>
      BY <1>0, <2>5 DEF FlaggingOK
    <3>2. FlaggingOK(l, "pending", now, flags, queue)
      BY <1>0, <2>2, <2>3, <2>5, <3>1 DEF FlaggingOK
    <3> QED BY <1>0, <2>0, <2>5, <3>2, FlagStep
  <2>6. CASE j.item # None /\ Step(w, "lookup", j)
    <3>1. /\ j.item \in Pending(queue) /\ queue[j.item].candidate = c
          /\ \A i \in DOMAIN j.todo : j.todo[i].item # j.item
      BY <1>0, <2>0, <2>6 DEF FlaggingOK
    <3>2. FlaggingOK(j, "lookup", now, flags, queue)
      BY <1>0, <2>6, <3>1 DEF FlaggingOK
    <3> QED BY <1>0, <2>0, <2>6, <3>2, FlagStep
  <2>7. CASE NextEvaluation(w, j) \/ End(w)
    BY <1>0, <1>a, <2>0, <2>7, NextFlags, EndFlags
  <2> QED BY <2>1, <2>4, <2>5, <2>6, <2>7
<1>4. CASE ReadPending(w)
  <2>0. pc[w] = "pending" /\ UNCHANGED <<now, flags, queue>>
    BY <1>4 DEF ReadPending, At
  <2> DEFINE mine == {k \in pending : queue[k].candidate.topic = j.topic}
  <2>1. \/ mine = {} /\ Step(w, "intent", j)
        \/ \E k \in mine : Step(w, "intent", [j EXCEPT !.item = k])
        \/ End(w)
    BY <1>4 DEF ReadPending
  <2>2. /\ j.item = None /\ j.todo = <<>> /\ c.topic = j.topic
        /\ c.window_end <= now /\ Newest(c, flags)
    BY <1>0, <2>0 DEF FlaggingOK
  <2>3. CASE mine = {} /\ Step(w, "intent", j)
    <3>1. \A k \in Pending(queue) : queue[k].candidate.topic # c.topic
      BY <2>2, <2>3, PendingIs
    <3>2. FlaggingOK(j, "intent", now, flags, queue)
      BY <1>0, <2>2, <3>1 DEF FlaggingOK
    <3> QED BY <1>0, <2>0, <2>3, <3>2, FlagStep
  <2>4. ASSUME NEW k \in mine, Step(w, "intent", [j EXCEPT !.item = k]) PROVE FlagInv'
    <3> DEFINE l == [j EXCEPT !.item = k]
    <3>1. k \in Pending(queue) /\ queue[k].candidate.topic = c.topic
      BY <2>2, PendingIs
    <3>2. k # None
      BY <1>0, <3>1, Stored, NoneAssumption DEF Pending
    <3>3. l.item = k /\ l.todo = <<>> /\ l.candidate = c /\ l.topic = j.topic
      BY <1>0, <2>2 DEF Job
    <3> HIDE DEF l, mine
    <3>4. FlaggingOK(l, "intent", now, flags, queue)
      BY <2>2, <3>1, <3>2, <3>3, NoTodo DEF FlaggingOK
    <3>5. Step(w, "intent", l)
      BY <2>4 DEF l
    <3> QED BY <1>0, <2>0, <3>4, <3>5, FlagStep
  <2> QED BY <1>0, <1>a, <2>0, <2>1, <2>3, <2>4, EndFlags
<1>5. CASE RecordIntent(w)
  <2>0. pc[w] = "intent" /\ UNCHANGED <<now, flags>>
    BY <1>5 DEF RecordIntent, At
  <2>1. /\ c \in FlagCandidate /\ c.window_end <= now /\ Newest(c, flags)
        /\ IF j.item = None
           THEN \A k \in Pending(queue) : queue[k].candidate.topic # c.topic
           ELSE j.item \in Pending(queue) /\ queue[j.item].candidate.topic = c.topic
    BY <1>0, <2>0 DEF FlaggingOK, JobTyped
  <2>2. CASE /\ j.item = None
             /\ queue' = Append(queue, [candidate |-> c, resolved |-> None])
             /\ Step(w, "lookup", [j EXCEPT !.item = Len(queue) + 1])
    <3> DEFINE e == [candidate |-> c, resolved |-> None]
               n == Len(queue) + 1
               l == [j EXCEPT !.item = n]
    <3>1. e \in WorkItem /\ e.candidate = c /\ e.resolved = None
      BY <2>1 DEF WorkItem
    <3>2. queue' = Append(queue, e)
      BY <2>2
    <3> HIDE DEF e
    <3>3. FlagsStand(now, flags, queue') /\ n \in Pending(queue') /\ queue'[n].candidate = c
      BY <1>0, <2>1, <2>2, <3>1, <3>2, IntentRecorded
    <3>4. n # None
      BY <1>0, Stored, NoneAssumption
    <3>5. l.item = n /\ l.todo = <<>> /\ l.candidate = c
      BY <1>0, <2>2 DEF Job, FlaggingOK
    <3> HIDE DEF l, n
    <3>6. FlaggingOK(l, "lookup", now, flags, queue')
      BY <3>3, <3>4, <3>5, NoTodo DEF FlaggingOK
    <3>7. Step(w, "lookup", l)
      BY <2>2 DEF l, n
    <3> QED BY <2>0, <3>3, <3>6, <3>7, FlagStep
  <2>3. CASE /\ j.item # None
             /\ queue' = [queue EXCEPT ![j.item].candidate = c]
             /\ Step(w, "lookup", j)
    <3> DEFINE e == [queue[j.item] EXCEPT !.candidate = c]
    <3>1. j.item \in Pending(queue) /\ queue[j.item].candidate.topic = c.topic
          /\ j.item \in DOMAIN queue /\ queue[j.item].resolved = None
          /\ \A i \in DOMAIN j.todo : j.todo[i].item # j.item
      BY <1>0, <2>1, <2>3 DEF Pending, FlaggingOK
    <3>2. e \in WorkItem /\ e.candidate = c /\ e.resolved = None
      BY <1>0, <2>1, <3>1, Stored DEF WorkItem
    <3>3. queue' = Written(queue, j.item, e)
      BY <2>3 DEF Written
    <3> HIDE DEF e
    <3>4. /\ FlagsStand(now, flags, queue') /\ j.item \in Pending(queue')
          /\ queue'[j.item].candidate = c /\ TodoOK(j.todo, queue')
      BY <1>0, <2>1, <3>1, <3>2, <3>3, IntentRefreshed
    <3>5. FlaggingOK(j, "lookup", now, flags, queue')
      BY <2>3, <3>1, <3>4 DEF FlaggingOK
    <3> QED BY <2>0, <2>3, <3>4, <3>5, FlagStep
  <2>4. CASE End(w) /\ UNCHANGED queue
    BY <1>0, <1>a, <2>0, <2>4, EndFlags
  <2> QED BY <1>5, <2>2, <2>3, <2>4 DEF RecordIntent
\* From a lookup on, the request's intent is pending with its candidate.
<1>6. ASSUME pc[w] \in {"lookup", "write", "resolve"}
      PROVE  /\ j.item # None /\ j.item \in Pending(queue) /\ queue[j.item].candidate = c
             /\ \A i \in DOMAIN j.todo : j.todo[i].item # j.item
             /\ c \in FlagCandidate
  BY <1>0, <1>6 DEF FlaggingOK, JobTyped
<1>7. CASE LookupFlag(w)
  <2>0. pc[w] = "lookup" /\ UNCHANGED <<now, flags, queue>>
    BY <1>7 DEF LookupFlag, At
  <2> DEFINE found == open_flag_for(c)
             flag == IF found = None THEN None ELSE flags[found]
             l == [j EXCEPT !.flag_id = found, !.flag = flag]
  <2>1. Step(w, "write", l) \/ WriteFails(w)
    BY <1>7 DEF LookupFlag
  <2>2. \/ Rivals(c, flags) = {} /\ found = None
        \/ /\ found \in Rivals(c, flags)
           /\ \A g \in Rivals(c, flags) :
                flags[g].candidate.window_end <= flags[found].candidate.window_end
    BY <1>0, Found, RivalsAre
  <2> HIDE DEF found
  <2>3. \/ Rivals(c, flags) = {} /\ flag = None
        \/ /\ found \in Rivals(c, flags) /\ flag = flags[found] /\ flag # None
           /\ \A g \in Rivals(c, flags) :
                flags[g].candidate.window_end <= flag.candidate.window_end
    <3>1. ASSUME found \in Rivals(c, flags)
          PROVE  found # None /\ flags[found] # None
      <4>1. found \in DOMAIN flags
        BY <3>1 DEF Rivals
      <4>2. found \in Nat /\ flags[found] \in Flag
        BY <1>0, <4>1, Stored
      <4> QED BY <4>2, NoneAssumption, FlagAssumption
    <3> QED BY <2>2, <3>1
  <2> HIDE DEF flag
  <2>4. l.item = j.item /\ l.todo = j.todo /\ l.candidate = c /\ l.flag = flag /\ l.flag_id = found
    BY <1>0 DEF Job
  <2> HIDE DEF l
  <2>5. FlaggingOK(l, "write", now, flags, queue)
    BY <1>0, <1>6, <2>0, <2>3, <2>4 DEF FlaggingOK
  <2> QED BY <1>0, <1>b, <2>0, <2>1, <2>5, FlagStep
<1>8. CASE WriteFlag(w)
  <2>0. pc[w] = "write" /\ UNCHANGED <<now, queue>>
    BY <1>8 DEF WriteFlag, At
  <2>1. IF j.flag = None THEN Rivals(c, flags) = {}
        ELSE /\ j.flag_id \in Rivals(c, flags) /\ flags[j.flag_id] = j.flag
             /\ \A g \in Rivals(c, flags) :
                  flags[g].candidate.window_end <= j.flag.candidate.window_end
    BY <1>0, <2>0 DEF FlaggingOK
  <2>2. CASE /\ j.flag # None
             /\ flags' = [flags EXCEPT ![j.flag_id] = Merge(j.flag, c)]
             /\ Step(w, "resolve", [j EXCEPT !.flag = None])
    <3> DEFINE l == [j EXCEPT !.flag = None]
               f == j.flag_id
               m == Merge(flags[f], c)
    <3>1. f \in Rivals(c, flags) /\ flags[f] = j.flag
          /\ \A g \in Rivals(c, flags) :
               flags[g].candidate.window_end <= flags[f].candidate.window_end
      BY <2>1, <2>2
    <3>2. flags' = Written(flags, f, m)
      BY <2>2, <3>1 DEF Written
    <3>3. FlagsStand(now, flags', queue) /\ Holds(m.candidate, c)
      BY <1>0, <1>6, <2>0, <3>1, <3>2, MergeStands
    <3>4. DOMAIN flags' = DOMAIN flags /\ f \in DOMAIN flags /\ flags'[f] = m
      <4>1. f \in DOMAIN flags
        BY <3>1 DEF Rivals
      <4> HIDE DEF m, f
      <4> QED BY <3>2, <4>1 DEF Written
    <3>5. l.item = j.item /\ l.todo = j.todo /\ l.candidate = c /\ l.flag_id = f
      BY <1>0 DEF Job
    <3> HIDE DEF l, m, f
    <3>6. FlaggingOK(l, "resolve", now, flags', queue)
      BY <1>0, <1>6, <2>0, <3>3, <3>4, <3>5 DEF FlaggingOK
    <3>7. Step(w, "resolve", l)
      BY <2>2 DEF l
    <3> QED BY <2>0, <3>3, <3>6, <3>7, FlagStep
  <2>3. CASE /\ j.flag = None
             /\ flags' = Append(flags, [candidate |-> c, status |-> "open"])
             /\ Step(w, "resolve", [j EXCEPT !.flag_id = Len(flags) + 1])
    <3> DEFINE e == [candidate |-> c, status |-> "open"]
               n == Len(flags) + 1
               l == [j EXCEPT !.flag_id = n]
    <3>1. e \in Flag /\ e.candidate = c
      BY <1>6, <2>0 DEF Flag, FlagStatus
    <3>2. flags' = Append(flags, e)
      BY <2>3
    <3> HIDE DEF e
    <3>3. FlagsStand(now, flags', queue)
      BY <1>0, <1>6, <2>0, <2>1, <2>3, <3>1, <3>2, NewFlagStands
    <3>4. n \in DOMAIN flags' /\ flags'[n].candidate = c
      BY <1>0, <3>1, <3>2, AppendIs
    <3>5. Holds(c, c)
      BY DEF Holds
    <3>6. l.item = j.item /\ l.todo = j.todo /\ l.candidate = c /\ l.flag_id = n
      BY <1>0 DEF Job
    <3> HIDE DEF l, n
    <3>7. FlaggingOK(l, "resolve", now, flags', queue)
      BY <1>0, <1>6, <2>0, <3>3, <3>4, <3>5, <3>6 DEF FlaggingOK
    <3>8. Step(w, "resolve", l)
      BY <2>3 DEF l, n
    <3> QED BY <2>0, <3>3, <3>7, <3>8, FlagStep
  <2>4. CASE WriteFails(w) /\ UNCHANGED flags
    BY <1>b, <2>0, <2>4
  <2> QED BY <1>8, <2>2, <2>3, <2>4 DEF WriteFlag
<1>9. CASE Resolve(w)
  <2>0. pc[w] = "resolve" /\ UNCHANGED <<now, flags>> /\ NextEvaluation(w, j)
    BY <1>9 DEF Resolve, At
  <2>1. j.flag_id \in DOMAIN flags /\ Holds(flags[j.flag_id].candidate, c)
    BY <1>0, <2>0 DEF FlaggingOK
  <2>2. CASE queue' = [queue EXCEPT ![j.item].resolved = j.flag_id]
    <3> DEFINE e == [queue[j.item] EXCEPT !.resolved = j.flag_id]
    <3>1. j.item \in DOMAIN queue
      BY <1>6, <2>0 DEF Pending
    <3>2. e \in WorkItem /\ e.candidate = queue[j.item].candidate /\ e.resolved = j.flag_id
      <4>1. queue[j.item] \in WorkItem /\ j.flag_id \in Nat
        BY <1>0, <2>1, <3>1, Stored
      <4> QED BY <4>1 DEF WorkItem
    <3>3. queue' = Written(queue, j.item, e)
      BY <2>2 DEF Written
    <3> HIDE DEF e
    <3>4. FlagsStand(now, flags, queue') /\ TodoOK(j.todo, queue')
      BY <1>0, <1>6, <2>0, <2>1, <3>2, <3>3, IntentResolved
    <3> QED BY <1>0, <2>0, <3>4, NextFlags
  <2>3. CASE UNCHANGED queue
    BY <1>0, <1>a, <2>0, <2>3, NextFlags
  <2> QED BY <1>9, <2>2, <2>3 DEF Resolve
<1> QED BY <1>1, <1>2, <1>3, <1>4, <1>5, <1>7, <1>8, <1>9 DEF Flagging

LEMMA StatusKeepsFlags ==
  ASSUME OneAtATime, TypeInv, FlagInv, NEW w \in Workers, BeginSetStatus(w) \/ SetStatus(w)
  PROVE  FlagInv'
<1> DEFINE j == job[w]
<1>0. /\ StoresTyped /\ FlagsStand(now, flags, queue) /\ j \in Job /\ now \in Nat
      /\ flags \in Seq(Flag) /\ queue \in Seq(WorkItem)
      /\ JobTyped(j, pc[w])
      /\ FlaggingOK(j, pc[w], now, flags, queue)
  BY DEF TypeInv, JobsTyped, FlagInv, StoresTyped
<1>1. CASE BeginSetStatus(w)
  <2>0. UNCHANGED <<now, flags, queue>>
    BY <1>1 DEF BeginSetStatus
  <2>1. PICK f \in DOMAIN flags : \E status \in ALLOWED_TRANSITIONS[flags[f].status] :
          Step(w, "set_status", [NoJob EXCEPT !.flag_id = f,
                 !.flag = [flags[f] EXCEPT !.status = status]])
    BY <1>1 DEF BeginSetStatus
  <2>2. PICK status \in ALLOWED_TRANSITIONS[flags[f].status] :
          Step(w, "set_status", [NoJob EXCEPT !.flag_id = f,
                 !.flag = [flags[f] EXCEPT !.status = status]])
    BY <2>1
  <2> DEFINE e == [flags[f] EXCEPT !.status = status]
             l == [NoJob EXCEPT !.flag_id = f, !.flag = e]
  <2>3. flags[f] \in Flag
    BY <1>0, Stored
  <2>4. status # "open"
    BY <2>3 DEF Flag, FlagStatus, ALLOWED_TRANSITIONS
  <2>5. e.candidate = flags[f].candidate /\ e.status # "open"
    BY <2>3, <2>4 DEF Flag
  <2>6. Step(w, "set_status", l)
    BY <2>2
  <2> HIDE DEF e
  <2>7. l.todo = <<>> /\ l.item = None /\ l.flag_id = f /\ l.flag = e
    BY DEF NoJob
  <2> HIDE DEF l
  <2>8. FlaggingOK(l, "set_status", now, flags, queue)
    BY <2>5, <2>7, NoTodo DEF FlaggingOK
  <2> QED BY <1>0, <2>0, <2>6, <2>8, FlagStep
<1>2. CASE SetStatus(w)
  <2>0. pc[w] = "set_status" /\ UNCHANGED <<now, queue>> /\ End(w)
    BY <1>2 DEF SetStatus, At
  <2>1. /\ j.flag \in Flag /\ j.flag_id \in DOMAIN flags
        /\ j.flag.candidate = flags[j.flag_id].candidate /\ j.flag.status # "open"
    BY <1>0, <2>0 DEF FlaggingOK, JobTyped
  <2>2. flags' = Written(flags, j.flag_id, j.flag) \/ flags' = flags
    BY <1>2 DEF SetStatus, Written
  <2>3. FlagsStand(now, flags', queue)
    BY <1>0, <2>1, <2>2, StatusStands
  <2> QED BY <2>0, <2>3, EndFlags
<1> QED BY <1>1, <1>2

LEMMA FlagInvHolds ==
  ASSUME OneAtATime
  PROVE  Spec => []FlagInv
<1>1. Init => FlagInv
  <2> SUFFICES ASSUME Init PROVE FlagInv
    OBVIOUS
  <2>1. flags = <<>> /\ queue = <<>>
    BY DEF Init
  <2>2. FlagsStand(now, flags, queue)
    BY <2>1 DEF FlagsStand, Apart, FlagsPast, IntentsPast, PendingNewest, OnePerTopic,
                Resolved, Pending
  <2>3. NoJob.todo = <<>> /\ NoJob.item = None
    BY DEF NoJob
  <2>4. \A w \in Workers : pc[w] = "idle" /\ job[w] = NoJob
    BY DEF Init
  <2> QED BY <2>2, <2>3, <2>4, FreshJob DEF FlagInv
<1>2. TypeInv /\ FlagInv /\ [Next]_vars => FlagInv'
  <2> SUFFICES ASSUME TypeInv, FlagInv, [Next]_vars PROVE FlagInv'
    OBVIOUS
  <2>1. CASE UNCHANGED vars
    BY <2>1 DEF vars, FlagInv
  <2>2. CASE Tick
    <3>1. now' = now + 1 /\ UNCHANGED <<flags, queue, pc, job>> /\ StoresTyped /\ now \in Nat
      BY <2>2 DEF Tick, TypeInv, StoresTyped
    <3>2. FlagsStand(now + 1, flags, queue)
      BY <3>1, TimePasses DEF FlagInv
    <3>3. ASSUME NEW v \in Workers PROVE FlaggingOK(job[v], pc[v], now + 1, flags, queue)
      <4>1. FlaggingOK(job[v], pc[v], now, flags, queue) /\ JobTyped(job[v], pc[v])
        BY DEF FlagInv, TypeInv, JobsTyped
      <4>2. pc[v] \in {"pending", "intent"} => job[v].candidate.window_end \in Nat
        BY <4>1 DEF JobTyped, FlagCandidate
      <4>3. pc[v] \in {"pending", "intent"} => job[v].candidate.window_end <= now + 1
        BY <3>1, <4>1, <4>2 DEF FlaggingOK
      <4> QED BY <4>1, <4>3 DEF FlaggingOK
    <3> QED BY <3>1, <3>2, <3>3 DEF FlagInv
  <2>3. ASSUME NEW w \in Workers, \/ Capture(w) \/ Flagging(w)
                                  \/ BeginSetStatus(w) \/ SetStatus(w)
        PROVE  FlagInv'
    BY <2>3, CaptureKeepsFlags, FlaggingKeepsFlags, StatusKeepsFlags
  <2> QED BY <2>1, <2>2, <2>3 DEF Next
<1> QED BY <1>1, <1>2, TypeInvHolds, PTL DEF Spec

\* No two open flags of a topic have windows that overlap (open_flag_for,
\* _merge), for any rule, window and number of flags, though windows roll and
\* a retried write may bring an old one, when requests come one at a time.
THEOREM OneOpenFlag ==
  ASSUME OneAtATime
  PROVE  Spec => []NoDuplicateOpenFlag
<1>1. FlagInv => NoDuplicateOpenFlag
  BY DEF FlagInv, FlagsStand, Apart, NoDuplicateOpenFlag
<1> QED BY <1>1, FlagInvHolds, PTL

\* A flag that has been decided is never dropped (_record_intent,
\* _attempt_write, _merge): its intent is pending until a flag of the topic
\* holds its evidence, whichever store calls fail.
THEOREM NoneDropped ==
  ASSUME OneAtATime
  PROVE  Spec => []NothingDropped
<1>1. TypeInv /\ FlagInv => NothingDropped
  <2> SUFFICES ASSUME FlagInv PROVE NothingDropped
    OBVIOUS
  <2>1. \A w \in Workers : pc[w] \in {"lookup", "write"} => job[w].item \in pending
    BY PendingIs DEF FlagInv, FlaggingOK
  <2>2. Resolved(flags, queue)
    BY DEF FlagInv, FlagsStand
  <2> QED BY <2>1, <2>2 DEF NothingDropped, Resolved, Holds
<1> QED BY <1>1, TypeInvHolds, FlagInvHolds, PTL

=============================================================================
