---------------------------- MODULE FeedbackReview ----------------------------
(***************************************************************************)
(* UC-10: rating capture (rating_service.py), the flagging of badly rated  *)
(* topics (flagging_service.py, domain/flagging.py) and their three stores *)
(* (adapters/memory/repositories.py).  FastAPI runs each request in a      *)
(* thread of its own and a store locks one call at a time, so a step is a  *)
(* store call; every store call may raise a PortError instead.             *)
(*                                                                         *)
(* A rating id, flag id or work id is a position in its store.  Time is a  *)
(* logical clock that every capture advances, so that no two ratings have  *)
(* one rated_at.  The notification of a new flag is left out: it changes   *)
(* nothing here and its failure is swallowed.                              *)
(***************************************************************************)
EXTENDS Naturals, Sequences, FiniteSets

CONSTANTS Workers,            \* requests and cycles in flight at once
          Interactions,       \* delivered answers, each its own learner's
          Topics,
          TopicOf,            \* interaction -> topic
          ThresholdTenths,    \* flag_down_rate_threshold, in tenths
          MinimumSample,      \* flag_minimum_sample_size
          WindowDays,         \* flag_window_days, in ticks of the clock
          RatingTicks,        \* historical_rating_window_hours, in ticks
          MaxTime, MaxRatings, MaxFlags,  \* bounds
          None

ASSUME TopicAssumption == TopicOf \in [Interactions -> Topics]
ASSUME PolicyAssumption ==
  /\ ThresholdTenths \in 0..10
  /\ MinimumSample \in Nat \ {0} /\ WindowDays \in Nat \ {0} /\ RatingTicks \in Nat
ASSUME BoundAssumption == MaxTime \in Nat /\ MaxRatings \in Nat /\ MaxFlags \in Nat
ASSUME NoneAssumption == None \notin Nat /\ None \notin Interactions /\ None \notin Topics

VARIABLES now,      \* Clock
          ratings,  \* RatingRepository, in the order of the saves
          flags,    \* FlagRepository
          queue,    \* FlagWorkQueue
          pc,       \* the store call each worker makes next
          job       \* each worker's locals

vars == <<now, ratings, flags, queue, pc, job>>

FlagStatus == {"open", "reviewed", "confirmed", "corrected"}

ALLOWED_TRANSITIONS ==
  [open |-> {"reviewed", "confirmed", "corrected"},
   reviewed |-> {"confirmed", "corrected"},
   confirmed |-> {"corrected"},
   corrected |-> {}]

RatingRecord == [interaction : Interactions, down : BOOLEAN, rated_at : Nat,
                 superseded_by : Nat \cup {None}]

\* What the rule says should be flagged.  window_end stands for the window.
FlagCandidate == [topic : Topics, window_end : Nat, total : Nat, downs : Nat,
                  interactions : SUBSET Interactions]

\* A ContentReviewFlag: the candidate it was made or updated from, and its
\* status.
Flag == [candidate : FlagCandidate, status : FlagStatus]

WorkItem == [candidate : FlagCandidate, resolved : Nat \cup {None}]

ASSUME FlagAssumption == None \notin Flag

PC == {"idle", "save", "history", "supersede", "topics", "evaluate", "pending",
       "intent", "lookup", "write", "resolve", "set_status"}

\* The locals of a capture (rating, id, previous), of a cycle (todo, handled,
\* topics, listed), of one evaluation (topic to flag_id) and of set_status
\* (flag, flag_id).
Job == [rating : RatingRecord \cup {None}, id : Nat \cup {None}, previous : SUBSET Nat,
        todo : Seq([item : Nat, candidate : FlagCandidate]),
        handled : SUBSET Topics, topics : SUBSET Topics, listed : BOOLEAN,
        topic : Topics \cup {None}, candidate : FlagCandidate \cup {None},
        item : Nat \cup {None}, flag : Flag \cup {None}, flag_id : Nat \cup {None}]

NoJob == [rating |-> None, id |-> None, previous |-> {}, todo |-> <<>>,
          handled |-> {}, topics |-> {}, listed |-> TRUE, topic |-> None,
          candidate |-> None, item |-> None, flag |-> None, flag_id |-> None]

TypeOK ==
  /\ now \in Nat
  /\ ratings \in Seq(RatingRecord)
  /\ flags \in Seq(Flag)
  /\ queue \in Seq(WorkItem)
  /\ pc \in [Workers -> PC]
  /\ job \in [Workers -> Job]

Init ==
  /\ now = 0
  /\ ratings = <<>> /\ flags = <<>> /\ queue = <<>>
  /\ pc = [w \in Workers |-> "idle"]
  /\ job = [w \in Workers |-> NoJob]

At(w, label) == pc[w] = label

\* The next store call of w, and its locals then.
Step(w, label, locals) == /\ pc' = [pc EXCEPT ![w] = label]
                          /\ job' = [job EXCEPT ![w] = locals]

\* A request that is answered, or an error that ends it.
End(w) == Step(w, "idle", NoJob)

WithinBound ==
  LET busy == Cardinality({w \in Workers : pc[w] # "idle"})
  IN Len(flags) + busy < MaxFlags /\ Len(queue) + busy < MaxFlags

-----------------------------------------------------------------------------
(* The rule (domain/flagging.py, domain/window.py) and the stores' queries. *)

\* Window.contains and Window.overlaps, of the windows that end then.
Contains(end, t) == t <= end /\ end <= t + WindowDays
Overlaps(end, other) == end <= other + WindowDays /\ other <= end + WindowDays

IsCurrent(k) == ratings[k].superseded_by = None

current_in_window(end) ==
  {k \in DOMAIN ratings : IsCurrent(k) /\ Contains(end, ratings[k].rated_at)}

topics_in(ids) == {TopicOf[ratings[k].interaction] : k \in ids}

evaluate_topic(topic, end) ==
  LET in_window == {k \in current_in_window(end) : TopicOf[ratings[k].interaction] = topic}
      downs == {k \in in_window : ratings[k].down}
      total == Cardinality(in_window)
  IN IF \/ total < MinimumSample
        \/ 10 * Cardinality(downs) < ThresholdTenths * total
     THEN None
     ELSE [topic |-> topic, window_end |-> end, total |-> total,
           downs |-> Cardinality(downs),
           interactions |-> {ratings[k].interaction : k \in downs}]

\* The learner's own view: the latest of the ratings not superseded.
_resolve_current(interaction) ==
  LET mine == {k \in DOMAIN ratings : ratings[k].interaction = interaction /\ IsCurrent(k)}
  IN IF mine = {} THEN None
     ELSE CHOOSE k \in mine : \A l \in mine : ratings[l].rated_at <= ratings[k].rated_at

\* Mutant: the windows must be the same.
OpenFlagsOfWindow(candidate) ==
  {f \in DOMAIN flags : /\ flags[f].candidate.topic = candidate.topic
                        /\ flags[f].status = "open"
                        /\ flags[f].candidate.window_end = candidate.window_end}

OpenFlags(candidate) ==
  {f \in DOMAIN flags : /\ flags[f].candidate.topic = candidate.topic
                        /\ flags[f].status = "open"
                        /\ Overlaps(flags[f].candidate.window_end, candidate.window_end)}

\* Of several, the one whose window ends last.
open_flag_for(candidate) ==
  LET found == OpenFlags(candidate)
  IN IF found = {} THEN None
     ELSE CHOOSE f \in found : \A g \in found :
            \/ flags[g].candidate.window_end < flags[f].candidate.window_end
            \/ flags[g].candidate.window_end = flags[f].candidate.window_end /\ f <= g

pending == {k \in DOMAIN queue : queue[k].resolved = None}

\* Mutant: the evidence of the last evaluation only.
MergeReplacing(existing, candidate) == [existing EXCEPT !.candidate = candidate]

\* _merge: the counts of the candidate, the evidence of both.
Merge(existing, candidate) ==
  [existing EXCEPT !.candidate =
     [candidate EXCEPT !.interactions = @ \cup existing.candidate.interactions]]

-----------------------------------------------------------------------------
(* RatingService.capture. *)

\* A rating is accepted while its answer was delivered at most RatingTicks ago.
\* When that was is left open, but not later than the answer's first rating.
\* A refusal changes nothing.
BeginCapture(w) ==
  /\ At(w, "idle")
  /\ WithinBound
  /\ now < MaxTime
  /\ Len(ratings) + Cardinality({v \in Workers : At(v, "save")}) < MaxRatings
  /\ \E i \in Interactions, down \in BOOLEAN :
       /\ \A k \in DOMAIN ratings :
            ratings[k].interaction = i => now <= ratings[k].rated_at + RatingTicks
       /\ Step(w, "save", [NoJob EXCEPT !.rating =
            [interaction |-> i, down |-> down, rated_at |-> now, superseded_by |-> None]])
  /\ now' = now + 1
  /\ UNCHANGED <<ratings, flags, queue>>

SaveRating(w) ==
  /\ At(w, "save")
  /\ \/ /\ ratings' = Append(ratings, job[w].rating)
        /\ Step(w, "history", [job[w] EXCEPT !.id = Len(ratings) + 1])
     \/ /\ End(w)
        /\ UNCHANGED ratings
  /\ UNCHANGED <<now, flags, queue>>

\* _trigger_evaluation, of the topic of the rating.
Trigger(w) == Step(w, "evaluate", [NoJob EXCEPT !.topic = TopicOf[job[w].rating.interaction]])

\* _supersede_previous reads the history, and that one cannot be read only
\* defers it.
ReadHistory(w) ==
  /\ At(w, "history")
  /\ LET previous == {k \in DOMAIN ratings :
           /\ ratings[k].interaction = job[w].rating.interaction
           /\ k # job[w].id
           /\ IsCurrent(k)}
     IN \/ previous # {} /\ Step(w, "supersede", [job[w] EXCEPT !.previous = previous])
        \/ Trigger(w)
  /\ UNCHANGED <<now, ratings, flags, queue>>

\* Mutant: the arguments of supersede in the wrong order.
SupersedeSwapped(w) ==
  /\ At(w, "supersede")
  /\ \E k \in job[w].previous :
       /\ ratings' = [ratings EXCEPT ![job[w].id].superseded_by = k]
       /\ IF job[w].previous = {k} THEN Trigger(w)
          ELSE Step(w, "supersede", [job[w] EXCEPT !.previous = @ \ {k}])
  /\ UNCHANGED <<now, flags, queue>>

\* Oldest first; a marker that cannot be written is left out.
Supersede(w) ==
  /\ At(w, "supersede")
  /\ \E k \in job[w].previous :
       /\ \A l \in job[w].previous : ratings[k].rated_at <= ratings[l].rated_at
       /\ \/ ratings' = [ratings EXCEPT ![k].superseded_by = job[w].id]
          \/ UNCHANGED ratings
       /\ IF job[w].previous = {k} THEN Trigger(w)
          ELSE Step(w, "supersede", [job[w] EXCEPT !.previous = @ \ {k}])
  /\ UNCHANGED <<now, flags, queue>>

-----------------------------------------------------------------------------
(* FlaggingService. *)

\* What follows an evaluation: in a cycle the next intent to retry, then the
\* topics, then the next of them; otherwise nothing.
NextEvaluation(w, j) ==
  \/ /\ j.todo # <<>>
     /\ LET next == Head(j.todo)
        IN Step(w, "evaluate", [NoJob EXCEPT
             !.listed = FALSE, !.todo = Tail(j.todo),
             !.handled = j.handled \cup {next.candidate.topic},
             !.topic = next.candidate.topic, !.candidate = next.candidate,
             !.item = next.item])
  \/ /\ j.todo = <<>> /\ ~ j.listed
     /\ Step(w, "topics", [NoJob EXCEPT !.listed = FALSE, !.handled = j.handled])
  \/ /\ j.todo = <<>> /\ j.listed
     /\ \E topic \in j.topics :
          Step(w, "evaluate", [NoJob EXCEPT !.topics = j.topics \ {topic}, !.topic = topic])
  \/ /\ j.todo = <<>> /\ j.listed /\ j.topics = {}
     /\ End(w)

\* run_cycle starts from the intents pending now, oldest first.
BeginCycle(w) ==
  /\ At(w, "idle")
  /\ WithinBound
  /\ LET Entry(k) == [item |-> k, candidate |-> queue[k].candidate]
         order == CHOOSE s \in [1..Cardinality(pending) -> pending] :
                    \A i, j \in DOMAIN s : i < j => s[i] < s[j]
     IN NextEvaluation(w, [NoJob EXCEPT !.listed = FALSE,
                             !.todo = [i \in DOMAIN order |-> Entry(order[i])]])
  /\ UNCHANGED <<now, ratings, flags, queue>>

ReadTopics(w) ==
  /\ At(w, "topics")
  /\ \/ NextEvaluation(w, [NoJob EXCEPT
          !.topics = topics_in(current_in_window(now)) \ job[w].handled])
     \/ End(w)
  /\ UNCHANGED <<now, ratings, flags, queue>>

\* Mutant: the retry of a topic that no longer meets the rule has no candidate.
EvaluateBlind(w) ==
  /\ At(w, "evaluate")
  /\ LET fresh == evaluate_topic(job[w].topic, now)
     IN Step(w, IF job[w].item # None THEN "intent" ELSE "pending",
             [job[w] EXCEPT !.candidate = fresh])
  /\ UNCHANGED <<now, ratings, flags, queue>>

\* evaluate_topic and _retry read the ratings and apply the rule.  A retry
\* whose topic no longer meets it goes on with the candidate it recorded.
Evaluate(w) ==
  /\ At(w, "evaluate")
  /\ LET fresh == evaluate_topic(job[w].topic, now)
     IN \/ /\ fresh # None
           /\ Step(w, IF job[w].item # None THEN "intent" ELSE "pending",
                   [job[w] EXCEPT !.candidate = fresh])
        \/ fresh = None /\ job[w].item # None /\ Step(w, "lookup", job[w])
        \/ fresh = None /\ job[w].item = None /\ NextEvaluation(w, job[w])
        \/ End(w)
  /\ UNCHANGED <<now, ratings, flags, queue>>

\* pending_for_topic: the oldest intent of the topic.
ReadPending(w) ==
  /\ At(w, "pending")
  /\ LET mine == {k \in pending : queue[k].candidate.topic = job[w].topic}
     IN \/ /\ mine = {}
           /\ Step(w, "intent", job[w])
        \/ \E k \in mine : /\ \A l \in mine : k <= l
                           /\ Step(w, "intent", [job[w] EXCEPT !.item = k])
        \/ End(w)
  /\ UNCHANGED <<now, ratings, flags, queue>>

\* _record_intent: the intent is stored before any write is attempted.
RecordIntent(w) ==
  /\ At(w, "intent")
  /\ LET j == job[w]
     IN \/ /\ j.item = None
           /\ queue' = Append(queue, [candidate |-> j.candidate, resolved |-> None])
           /\ Step(w, "lookup", [j EXCEPT !.item = Len(queue) + 1])
        \/ /\ j.item # None
           /\ queue' = [queue EXCEPT ![j.item].candidate = j.candidate]
           /\ Step(w, "lookup", j)
        \/ End(w) /\ UNCHANGED queue
  /\ UNCHANGED <<now, ratings, flags>>

\* A failed write leaves the intent pending, and so does a mark_failed that
\* fails in turn, which ends the request.
WriteFails(w) == NextEvaluation(w, job[w]) \/ End(w)

\* _attempt_write: open_flag_for, then update or save, then resolve.
LookupFlag(w) ==
  /\ At(w, "lookup")
  /\ LET found == open_flag_for(job[w].candidate)
     IN \/ Step(w, "write", [job[w] EXCEPT
             !.flag_id = found, !.flag = IF found = None THEN None ELSE flags[found]])
        \/ WriteFails(w)
  /\ UNCHANGED <<now, ratings, flags, queue>>

WriteFlag(w) ==
  /\ At(w, "write")
  /\ LET j == job[w]
     IN \/ /\ j.flag # None
           /\ flags' = [flags EXCEPT ![j.flag_id] = Merge(j.flag, j.candidate)]
           /\ Step(w, "resolve", [j EXCEPT !.flag = None])
        \/ /\ j.flag = None
           /\ flags' = Append(flags, [candidate |-> j.candidate, status |-> "open"])
           /\ Step(w, "resolve", [j EXCEPT !.flag_id = Len(flags) + 1])
        \/ WriteFails(w) /\ UNCHANGED flags
  /\ UNCHANGED <<now, ratings, queue>>

\* A flag whose intent cannot be resolved is there all the same.
Resolve(w) ==
  /\ At(w, "resolve")
  /\ \/ queue' = [queue EXCEPT ![job[w].item].resolved = job[w].flag_id]
     \/ UNCHANGED queue
  /\ NextEvaluation(w, job[w])
  /\ UNCHANGED <<now, ratings, flags>>

-----------------------------------------------------------------------------
(* The administrator's set_status. *)

BeginSetStatus(w) ==
  /\ At(w, "idle")
  /\ \E f \in DOMAIN flags : \E status \in ALLOWED_TRANSITIONS[flags[f].status] :
       Step(w, "set_status", [NoJob EXCEPT !.flag_id = f,
              !.flag = [flags[f] EXCEPT !.status = status]])
  /\ UNCHANGED <<now, ratings, flags, queue>>

SetStatus(w) ==
  /\ At(w, "set_status")
  /\ \/ flags' = [flags EXCEPT ![job[w].flag_id] = job[w].flag]
     \/ UNCHANGED flags
  /\ End(w)
  /\ UNCHANGED <<now, ratings, queue>>

-----------------------------------------------------------------------------

\* Time passes between requests, too.
Tick ==
  /\ now < MaxTime
  /\ now' = now + 1
  /\ UNCHANGED <<ratings, flags, queue, pc, job>>

Capture(w) == BeginCapture(w) \/ SaveRating(w) \/ ReadHistory(w) \/ Supersede(w)

Flagging(w) ==
  \/ BeginCycle(w) \/ ReadTopics(w) \/ Evaluate(w) \/ ReadPending(w)
  \/ RecordIntent(w) \/ LookupFlag(w) \/ WriteFlag(w) \/ Resolve(w)

Next == \/ Tick
        \/ \E w \in Workers : \/ Capture(w) \/ Flagging(w)
                              \/ BeginSetStatus(w) \/ SetStatus(w)

Spec == Init /\ [][Next]_vars

-----------------------------------------------------------------------------

\* "No duplicate open flags for a topic whose window overlaps an existing open
\* flag" (open_flag_for and _merge, over windows that roll and writes that are
\* retried with old ones).
NoDuplicateOpenFlag ==
  \A f, g \in DOMAIN flags :
    (/\ f # g /\ flags[f].status = "open" /\ flags[g].status = "open"
     /\ flags[f].candidate.topic = flags[g].candidate.topic)
      => ~ Overlaps(flags[f].candidate.window_end, flags[g].candidate.window_end)

\* A flag that has been decided is never dropped: its intent is pending until
\* a flag of the topic holds the evidence, and holds it ever after
\* (_record_intent, _attempt_write, _merge).
NothingDropped ==
  /\ \A w \in Workers : pc[w] \in {"lookup", "write"} => job[w].item \in pending
  /\ \A k \in DOMAIN queue : queue[k].resolved # None =>
       LET flag == flags[queue[k].resolved].candidate
       IN /\ flag.topic = queue[k].candidate.topic
          /\ queue[k].candidate.interactions \subseteq flag.interactions

\* What a learner is shown is the last rating saved, though any supersede
\* marker may be missing (_supersede_previous, _resolve_current).
CurrentRatingIsLatest ==
  \A i \in Interactions :
    LET mine == {k \in DOMAIN ratings : ratings[k].interaction = i}
    IN mine # {} => /\ _resolve_current(i) \in mine
                    /\ \A k \in mine : k <= _resolve_current(i)

-----------------------------------------------------------------------------
(* What the documentation says and concurrent requests do not keep. *)

\* "a failure here can never leave the learner with no current rating -- only
\* with a stale marker" (_supersede_previous): who has rated has a rating.
RatedHasCurrent ==
  \A k \in DOMAIN ratings : _resolve_current(ratings[k].interaction) # None

=============================================================================
