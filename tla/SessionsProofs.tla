------------------------- MODULE SessionsProofs -------------------------
(***************************************************************************)
(* What TLAPS proves of what happens before the first answer: of UC-02 on  *)
(* its own, for any learners, sessions, requests and levels, with any of   *)
(* the four sources; and of SessionsSpec, of each of the five that make it *)
(* up, for any attempts and commands, environments and callers, savers,    *)
(* rows and number of saves.                                               *)
(***************************************************************************)
EXTENDS MCSessions, TLAPS, SequenceTheorems

Holds == {"full", "some", "nothing", "malformed", "pending"} \cup Errors
Result == [holds : Holds, level : Nat]

Call == [session : Sessions \cup {Absent}, user : Learners \cup {Absent}, force : BOOLEAN,
         had : BOOLEAN, began : Nat, results : [SourceName -> Result],
         came : SUBSET SourceName, ended : BOOLEAN]

AnswerType == [what : {"denied", "existing", "created", "refreshed", "expired"},
               request : Requests \cup {Absent}, session : Sessions, user : Learners,
               context : Context \cup {Absent}]

\* A source that came has brought a record.
Brought(call) ==
  \A n \in SourceName : /\ call.results[n] \in Results(n)
                        /\ n \in call.came => call.results[n] \in Records(n)

TypeInv ==
  /\ ContextConstants
  /\ stored \in [Sessions -> Context \cup {Absent}]
  /\ \A s \in Sessions : stored[s] # Absent => stored[s].session = s
  /\ phase \in [Requests -> {"idle", "gathering", "done"}]
  /\ calls \in [Requests -> Call]
  /\ \A r \in Requests : /\ Brought(calls[r])
                         /\ phase[r] = "idle" => calls[r] = NoCall
                         /\ phase[r] = "gathering" => calls[r].session \in Sessions /\ calls[r].user \in Learners
  /\ answers \in Seq(AnswerType)

-----------------------------------------------------------------------------
(* Types. *)

\* What a source comes back with.
LEMMA ResultsTyped ==
  ASSUME ContextConstants, NEW n \in SourceName
  PROVE  /\ Records(n) \subseteq Results(n) /\ Results(n) \subseteq Result
         /\ Pending \in Results(n) /\ \A e \in Errors : Failed(e) \in Results(n)
         /\ \A x \in Records(n) : x.holds \notin Errors \cup {"pending"}
<1>1. Records(n) \subseteq Result /\ \A x \in Records(n) : x.holds \notin Errors \cup {"pending"}
  BY DEF ContextConstants, Records, Result, Holds, Errors, ProviderErrors
<1>2. Pending \in Result /\ \A e \in Errors : Failed(e) \in Result
  BY DEF Pending, Failed, Result, Holds
<1> QED BY <1>1, <1>2 DEF Results

\* Whatever the sources did, the context that is built is a context.
LEMMA BuiltTyped ==
  ASSUME TypeInv, NEW r \in Requests, phase[r] = "gathering"
  PROVE  Built(r) \in Context /\ Built(r).session = calls[r].session /\ Built(r).user = calls[r].user
<1>1. /\ calls[r] \in Call /\ calls[r].session \in Sessions /\ calls[r].user \in Learners
      /\ SourceName \subseteq {"naric", "courses", "legal_profile", "question_history"}
  BY DEF TypeInv, ContextConstants
<1> DEFINE results == calls[r].results
           status == [n \in SourceName |-> normalised(n, results[n])]
           naric == IF "naric" \in SourceName THEN normalise_naric(results["naric"])
                    ELSE [status |-> "empty", level |-> DEFAULT_NARIC_LEVEL]
<1>2. ASSUME NEW n \in SourceName
      PROVE  normalised(n, results[n]) \in Status
  BY <1>1 DEF normalised, normalise_naric, normalise_courses, normalise_legal, normalise_history,
              status_for_error, Status
<1>3. status \in [SourceName -> Status]
  BY <1>2
<1>4. naric.level \in Nat
  BY <1>1 DEF normalise_naric, DEFAULT_NARIC_LEVEL, Call, Result
<1>5. template_for_level(naric.level) \in {"basic", "intermediate", "advanced"}
  BY <1>4 DEF template_for_level
<1>6. personalization(status) \in {"available", "empty_notice", "unavailable_notice"}
  BY DEF personalization
<1> HIDE DEF naric, status
<1>7. Built(r) = [session |-> calls[r].session, user |-> calls[r].user, request |-> r,
                  source_status |-> status,
                  explanation_profile |-> template_for_level(naric.level),
                  personalization |-> personalization(status)]
  BY DEF Built, naric, status
<1> QED BY <1>1, <1>3, <1>5, <1>6, <1>7 DEF Context

\* Appending keeps a sequence one of its set.
LEMMA Appended ==
  ASSUME NEW Elems, NEW q \in Seq(Elems), NEW e \in Elems
  PROVE  /\ Append(q, e) \in Seq(Elems)
         /\ Len(Append(q, e)) = Len(q) + 1
         /\ \A i \in 1..Len(q) : Append(q, e)[i] = q[i]
         /\ Append(q, e)[Len(q) + 1] = e
BY AppendProperties

LEMMA InitType == ContextConstants /\ ContextInit => TypeInv
<1> SUFFICES ASSUME ContextConstants, ContextInit PROVE TypeInv
  OBVIOUS
<1>1. \A n \in SourceName : Pending \in Result /\ Pending \in Results(n)
  BY ResultsTyped
<1>2. NoCall \in Call /\ Brought(NoCall)
  BY <1>1 DEF NoCall, Call, Brought
<1> QED BY <1>2 DEF ContextInit, TypeInv

\* A request that is answered at once.
LEMMA AtOnceType ==
  ASSUME TypeInv, NEW r \in Requests, NEW s \in Sessions, NEW u \in Learners,
         phase[r] = "idle", Deny(r, s, u) \/ Reuse(r, s, u, FALSE) \/ Reuse(r, s, u, TRUE)
  PROVE  TypeInv'
<1>1. PICK what \in {"denied", "existing"}, c \in Context \cup {Absent} : answers' = answered(what, r, s, u, c)
  BY DEF Deny, Reuse, TypeInv
<1>2. [what |-> what, request |-> r, session |-> s, user |-> u, context |-> c] \in AnswerType
  BY DEF AnswerType
<1>3. answers' \in Seq(AnswerType)
  BY <1>1, <1>2, Appended DEF answered, TypeInv
<1>4. phase' = [phase EXCEPT ![r] = "done"] /\ UNCHANGED <<stored, calls>>
  BY DEF Deny, Reuse
<1> QED BY <1>3, <1>4 DEF TypeInv, ContextConstants, Context

\* The sources are called.
LEMMA GatherType ==
  ASSUME TypeInv, NEW r \in Requests, NEW s \in Sessions, NEW u \in Learners, NEW force \in BOOLEAN,
         phase[r] = "idle", Gather(r, s, u, force)
  PROVE  TypeInv'
<1> DEFINE call == [NoCall EXCEPT !.session = s, !.user = u, !.force = force,
                                  !.had = stored[s] # Absent, !.began = Len(answers)]
<1>1. Len(answers) \in Nat /\ (stored[s] # Absent) \in BOOLEAN
  BY DEF TypeInv
<1>2. \A n \in SourceName : Pending \in Result /\ Pending \in Results(n)
  BY ResultsTyped DEF TypeInv
<1>3. call \in Call /\ Brought(call) /\ call.session = s /\ call.user = u
  BY <1>1, <1>2 DEF NoCall, Call, Brought
<1>4. calls' = [calls EXCEPT ![r] = call] /\ phase' = [phase EXCEPT ![r] = "gathering"]
      /\ UNCHANGED <<stored, answers>>
  BY DEF Gather
<1> HIDE DEF call
<1>5. \A x \in Requests : /\ x # r => calls'[x] = calls[x] /\ phase'[x] = phase[x]
                          /\ x = r => calls'[x] = call /\ phase'[x] = "gathering"
  BY <1>4 DEF TypeInv
<1>6. calls' \in [Requests -> Call] /\ phase' \in [Requests -> {"idle", "gathering", "done"}]
  BY <1>3, <1>4 DEF TypeInv
<1> QED BY <1>3, <1>4, <1>5, <1>6 DEF TypeInv, Brought, NoCall, Context, ContextConstants

\* A request's sources have done something, and nothing else has changed.
Learns(r, call) ==
  /\ calls' = [calls EXCEPT ![r] = call]
  /\ UNCHANGED <<stored, answers, phase>>

\* A source answers, fails or is given up: what it brought is kept, and nothing
\* else of the request changes.
LEMMA OutcomeLearns ==
  ASSUME TypeInv, NEW r \in Requests,
         \/ \E n \in SourceName : SourceAnswers(r, n) \/ SourceTimesOut(r, n)
         \/ BudgetElapses(r)
  PROVE  /\ phase[r] = "gathering"
         /\ \E call \in Call :
              /\ Learns(r, call) /\ Brought(call)
              /\ call.session = calls[r].session /\ call.user = calls[r].user
              /\ call.force = calls[r].force /\ call.had = calls[r].had /\ call.began = calls[r].began
<1>1. phase[r] = "gathering" /\ UNCHANGED <<stored, answers, phase>>
  BY DEF SourceAnswers, SourceTimesOut, BudgetElapses, Waiting
<1>2. calls[r] \in Call /\ Brought(calls[r]) /\ ContextConstants
  BY DEF TypeInv
<1>3. ASSUME NEW n \in SourceName, calls[r].results[n] = Pending
      PROVE  n \notin calls[r].came
  BY <1>2, <1>3, ResultsTyped DEF Brought, Pending, Failed
<1>4. CASE \E n \in SourceName, e \in Errors :
             Waiting(r, n) /\ calls' = [calls EXCEPT ![r].results[n] = Failed(e)]
  <2>1. PICK n \in SourceName, e \in Errors :
          Waiting(r, n) /\ calls' = [calls EXCEPT ![r].results[n] = Failed(e)]
    BY <1>4
  <2> DEFINE call == [calls[r] EXCEPT !.results[n] = Failed(e)]
  <2>2. n \notin calls[r].came
    BY <1>3, <2>1 DEF Waiting
  <2>3. Failed(e) \in Results(n) /\ Failed(e) \in Result
    BY <1>2, ResultsTyped
  <2>4. call \in Call /\ Brought(call)
    BY <1>2, <2>2, <2>3 DEF Call, Brought
  <2>5. calls' = [calls EXCEPT ![r] = call]
    BY <2>1
  <2> QED BY <1>1, <1>2, <2>4, <2>5 DEF Learns, Call
<1>5. CASE \E n \in SourceName : \E record \in Records(n) :
             calls' = [calls EXCEPT ![r].results[n] = record, ![r].came = @ \cup {n}]
  <2>1. PICK n \in SourceName : \E record \in Records(n) :
          calls' = [calls EXCEPT ![r].results[n] = record, ![r].came = @ \cup {n}]
    BY <1>5
  <2>2. PICK record \in Records(n) :
          calls' = [calls EXCEPT ![r].results[n] = record, ![r].came = @ \cup {n}]
    BY <2>1
  <2> DEFINE call == [calls[r] EXCEPT !.results[n] = record, !.came = @ \cup {n}]
  <2>3. record \in Results(n) /\ record \in Result
    BY <1>2, ResultsTyped
  <2>4. call \in Call /\ Brought(call)
    BY <1>2, <2>3 DEF Call, Brought
  <2>5. calls' = [calls EXCEPT ![r] = call]
    BY <2>2, <1>2 DEF TypeInv
  <2> QED BY <1>1, <1>2, <2>4, <2>5 DEF Learns, Call
<1>6. CASE BudgetElapses(r)
  <2> DEFINE call == [calls[r] EXCEPT !.ended = TRUE, !.results = stragglers(@)]
  <2>1. ASSUME NEW n \in SourceName
        PROVE  /\ stragglers(calls[r].results)[n] \in Results(n) \cap Result
               /\ n \in calls[r].came => stragglers(calls[r].results)[n] \in Records(n)
    <3>1. Failed("budget_exceeded") \in Results(n) /\ Results(n) \subseteq Result
      BY <1>2, ResultsTyped DEF Errors
    <3> QED BY <1>2, <1>3, <3>1 DEF stragglers, Brought
  <2>2. stragglers(calls[r].results) \in [SourceName -> Result]
    BY <2>1 DEF stragglers
  <2>3. call \in Call /\ Brought(call)
    BY <1>2, <2>1, <2>2 DEF Call, Brought
  <2>4. calls' = [calls EXCEPT ![r] = call]
    BY <1>6 DEF BudgetElapses
  <2> QED BY <1>1, <1>2, <2>3, <2>4 DEF Learns, Call
<1> QED BY <1>4, <1>5, <1>6 DEF SourceAnswers, SourceTimesOut, Errors, ProviderErrors

LEMMA LearnsType ==
  ASSUME TypeInv, NEW r \in Requests, NEW call \in Call, Learns(r, call), Brought(call),
         phase[r] = "gathering", call.session = calls[r].session, call.user = calls[r].user
  PROVE  TypeInv'
<1>1. \A x \in Requests : /\ x # r => calls'[x] = calls[x]
                          /\ x = r => calls'[x] = call
  BY DEF TypeInv, Learns
<1>2. calls' \in [Requests -> Call]
  BY DEF TypeInv, Learns
<1> QED BY <1>1, <1>2 DEF TypeInv, Learns, Brought, NoCall, Context, ContextConstants

\* The context is built, saved and answered with.
LEMMA BuildType ==
  ASSUME TypeInv, NEW r \in Requests, BuildAndSave(r)
  PROVE  TypeInv'
<1>1. /\ Built(r) \in Context /\ Built(r).session = calls[r].session /\ Built(r).user = calls[r].user
      /\ calls[r].session \in Sessions /\ calls[r].user \in Learners
  BY BuiltTyped DEF BuildAndSave, TypeInv
<1>2. PICK what \in {"created", "refreshed"} :
        answers' = answered(what, r, calls[r].session, calls[r].user, Built(r))
  BY DEF BuildAndSave
<1>3. [what |-> what, request |-> r, session |-> calls[r].session, user |-> calls[r].user,
       context |-> Built(r)] \in AnswerType
  BY <1>1 DEF AnswerType
<1>4. answers' \in Seq(AnswerType)
  BY <1>2, <1>3, Appended DEF answered, TypeInv
<1>5. /\ stored' = [stored EXCEPT ![calls[r].session] = Built(r)]
      /\ phase' = [phase EXCEPT ![r] = "done"] /\ UNCHANGED calls
  BY DEF BuildAndSave
<1>6. stored' \in [Sessions -> Context \cup {Absent}]
  BY <1>1, <1>5 DEF TypeInv
<1>7. \A s \in Sessions : stored'[s] # Absent => stored'[s].session = s
  BY <1>1, <1>5 DEF TypeInv
<1> QED BY <1>4, <1>5, <1>6, <1>7 DEF TypeInv, ContextConstants, Context

\* A context's time to live is over.
LEMMA ExpiryType ==
  ASSUME TypeInv, NEW s \in Sessions, ContextExpires(s)
  PROVE  TypeInv'
<1>1. stored[s] \in Context /\ stored[s].user \in Learners
  BY DEF ContextExpires, TypeInv, Context
<1>2. [what |-> "expired", request |-> Absent, session |-> s, user |-> stored[s].user,
       context |-> stored[s]] \in AnswerType
  BY <1>1 DEF AnswerType
<1>3. answers' \in Seq(AnswerType)
  BY <1>2, Appended DEF ContextExpires, answered, TypeInv
<1>4. stored' = [stored EXCEPT ![s] = Absent] /\ UNCHANGED <<calls, phase>>
  BY DEF ContextExpires
<1> QED BY <1>3, <1>4 DEF TypeInv, ContextConstants, Context

LEMMA NextType == TypeInv /\ [ContextNext]_context_vars => TypeInv'
<1> SUFFICES ASSUME TypeInv, [ContextNext]_context_vars PROVE TypeInv'
  OBVIOUS
<1>1. ASSUME NEW r \in Requests, NEW s \in Sessions, NEW u \in Learners, NEW force \in BOOLEAN,
             phase[r] = "idle", initialize(r, s, u, force)
      PROVE  TypeInv'
  BY <1>1, AtOnceType, GatherType DEF initialize
<1>2. ASSUME NEW r \in Requests, initialize_context(r) \/ force_refresh_context(r)
      PROVE  TypeInv'
  BY <1>1, <1>2 DEF initialize_context, force_refresh_context
<1>3. ASSUME NEW r \in Requests,
             \/ \E n \in SourceName : SourceAnswers(r, n) \/ SourceTimesOut(r, n)
             \/ BudgetElapses(r)
      PROVE  TypeInv'
  BY <1>3, OutcomeLearns, LearnsType
<1>4. CASE UNCHANGED context_vars
  BY <1>4 DEF context_vars, TypeInv, ContextConstants, Context, Brought
<1> QED BY <1>2, <1>3, <1>4, BuildType, ExpiryType DEF ContextNext

LEMMA TypesThroughout == ContextConstants /\ ContextSpec => []TypeInv
BY InitType, NextType, PTL DEF ContextSpec

\* What is stored, asked, brought by the sources and answered has its type, and
\* a context is stored under its own session.
THEOREM ContextTypes == ContextConstants /\ ContextSpec => []ContextTypeOK
<1>1. TypeInv => ContextTypeOK
  BY DEF TypeInv, ContextTypeOK, Brought
<1> QED BY <1>1, TypesThroughout, PTL

-----------------------------------------------------------------------------
(***************************************************************************)
(* Built once per session.  A request may only build a first context if    *)
(* the store was empty when it looked; and the store is empty only if what *)
(* was created before has expired or, behind an expiry, been refreshed.    *)
(* What is answered is never looked at again, for its request is over.     *)
(***************************************************************************)
Carries == {"created", "existing", "refreshed"}

AnswersOK ==
  \A j \in 1..Len(answers) : answers[j].what \in Carries =>
    /\ answers[j].request \in Requests /\ phase[answers[j].request] = "done"
    /\ answers[j].context.user = answers[j].user
    /\ answers[j].what = "refreshed" => calls[answers[j].request].force

PairsOK ==
  \A j \in 1..Len(answers) : \A i \in 1..(j - 1) :
    (answers[i].what = "created" /\ answers[j].what = "created"
       /\ answers[i].session = answers[j].session /\ Undisturbed(i, j))
      => calls[answers[j].request].began < i

\* What was created and not disturbed since is still there.
StoredOK ==
  \A i \in 1..Len(answers) :
    answers[i].what = "created" /\ Undisturbed(i, Len(answers)) => stored[answers[i].session] # Absent

\* What a request saw when it began.
GatheringOK ==
  \A r \in Requests : phase[r] = "gathering" =>
    /\ calls[r].had => calls[r].force
    /\ calls[r].began \in 0..Len(answers)
    /\ ~calls[r].had => \A i \in 1..calls[r].began :
         answers[i].what = "created" /\ answers[i].session = calls[r].session
           => ~Undisturbed(i, calls[r].began)

OnceInv == TypeInv /\ AnswersOK /\ PairsOK /\ StoredOK /\ GatheringOK

LEMMA AnswersTyped ==
  ASSUME TypeInv, NEW i \in 1..Len(answers)
  PROVE  answers[i].session \in Sessions
<1>1. answers[i] \in AnswerType
  BY ElementOfSeq DEF TypeInv
<1> QED BY <1>1 DEF AnswerType

\* One more answer says nothing new of the earlier ones.
LEMMA OneMore ==
  ASSUME TypeInv, NEW e \in AnswerType, answers' = Append(answers, e)
  PROVE  /\ Len(answers') = Len(answers) + 1 /\ answers'[Len(answers) + 1] = e
         /\ \A i \in 1..Len(answers) : answers'[i] = answers[i]
         /\ \A i, j \in 1..Len(answers) : Undisturbed(i, j)' <=> Undisturbed(i, j)
         /\ \A i \in 1..Len(answers) :
              Undisturbed(i, Len(answers))' =>
                /\ \A j \in 1..Len(answers) : Undisturbed(i, j)
                /\ e.session = answers[i].session => e.what \notin {"expired", "refreshed"}
<1>1. /\ Len(answers') = Len(answers) + 1 /\ answers'[Len(answers) + 1] = e /\ Len(answers) \in Nat
      /\ \A i \in 1..Len(answers) : answers'[i] = answers[i]
  BY Appended DEF TypeInv
<1>2. \A i, j \in 1..Len(answers) : Undisturbed(i, j)' <=> Undisturbed(i, j)
  BY <1>1 DEF Undisturbed
<1>3. ASSUME NEW i \in 1..Len(answers), Undisturbed(i, Len(answers))'
      PROVE  /\ \A j \in 1..Len(answers) : Undisturbed(i, j)
             /\ e.session = answers[i].session => e.what \notin {"expired", "refreshed"}
  BY <1>1, <1>3 DEF Undisturbed
<1> QED BY <1>1, <1>2, <1>3

\* The earlier answers stand, and so do the requests under way.
LEMMA EarlierStand ==
  ASSUME OnceInv, NEW e \in AnswerType, answers' = Append(answers, e),
         \A x \in Requests : phase[x] = "done" => phase'[x] = "done",
         \A x \in Requests : phase'[x] = "gathering" => phase[x] = "gathering",
         UNCHANGED calls,
         e.what \in Carries =>
           /\ e.request \in Requests /\ phase'[e.request] = "done" /\ e.context.user = e.user
           /\ e.what = "refreshed" => calls[e.request].force,
         e.what = "created" => \A i \in 1..Len(answers) :
           answers[i].what = "created" /\ answers[i].session = e.session
             /\ (\A j \in 1..Len(answers) : Undisturbed(i, j))
             => calls[e.request].began < i
  PROVE  AnswersOK' /\ PairsOK' /\ GatheringOK'
<1>1. /\ Len(answers') = Len(answers) + 1 /\ answers'[Len(answers) + 1] = e /\ Len(answers) \in Nat
      /\ \A i \in 1..Len(answers) : answers'[i] = answers[i]
  BY OneMore DEF OnceInv, TypeInv
<1>2. /\ \A i, j \in 1..Len(answers) : Undisturbed(i, j)' <=> Undisturbed(i, j)
      /\ \A i \in 1..Len(answers) :
           Undisturbed(i, Len(answers))' => \A j \in 1..Len(answers) : Undisturbed(i, j)
  BY OneMore DEF OnceInv
<1>3. \A j \in 1..Len(answers') : j \in 1..Len(answers) \/ j = Len(answers) + 1
  BY <1>1
<1>4. AnswersOK'
  BY <1>1, <1>3 DEF AnswersOK, OnceInv
<1>5. PairsOK'
  <2> SUFFICES ASSUME NEW j \in 1..Len(answers'), NEW i \in 1..(j - 1),
                      answers'[i].what = "created", answers'[j].what = "created",
                      answers'[i].session = answers'[j].session, Undisturbed(i, j)'
               PROVE  calls'[answers'[j].request].began < i
    BY DEF PairsOK
  <2>1. i \in 1..Len(answers) /\ answers'[i] = answers[i]
    BY <1>1
  <2>2. CASE j \in 1..Len(answers)
    <3>1. answers'[j] = answers[j] /\ Undisturbed(i, j)
      BY <1>1, <1>2, <2>1, <2>2
    <3> QED BY <2>1, <2>2, <3>1 DEF PairsOK, OnceInv
  <2>3. CASE j = Len(answers) + 1
    <3>1. Undisturbed(i, Len(answers))'
      BY <1>1, <2>3 DEF Undisturbed
    <3>2. \A k \in 1..Len(answers) : Undisturbed(i, k)
      BY <1>2, <2>1, <3>1
    <3> QED BY <1>1, <2>1, <2>3, <3>2
  <2> QED BY <1>3, <2>2, <2>3
<1>6. GatheringOK'
  <2> SUFFICES ASSUME NEW r \in Requests, phase[r] = "gathering"
               PROVE  /\ calls[r].had => calls[r].force
                      /\ calls[r].began \in 0..Len(answers')
                      /\ ~calls[r].had => \A i \in 1..calls[r].began :
                           answers'[i].what = "created" /\ answers'[i].session = calls[r].session
                             => ~Undisturbed(i, calls[r].began)'
    BY DEF GatheringOK
  <2>1. calls[r].began \in 0..Len(answers) /\ (calls[r].had => calls[r].force)
    BY DEF OnceInv, GatheringOK
  <2>2. \A i \in 1..calls[r].began : Undisturbed(i, calls[r].began)' <=> Undisturbed(i, calls[r].began)
    BY <1>1, <2>1 DEF Undisturbed
  <2>3. \A i \in 1..calls[r].began : answers'[i] = answers[i]
    BY <1>1, <2>1
  <2> QED BY <1>1, <2>1, <2>2, <2>3 DEF OnceInv, GatheringOK
<1> QED BY <1>4, <1>5, <1>6

LEMMA InitOnce == ContextConstants /\ ContextInit => OnceInv
BY InitType DEF ContextInit, OnceInv, AnswersOK, PairsOK, StoredOK, GatheringOK

\* Nothing is created, and the store is left alone.
LEMMA AtOnceOnce ==
  ASSUME OnceInv, NEW r \in Requests, NEW s \in Sessions, NEW u \in Learners, NEW force \in BOOLEAN,
         phase[r] = "idle", Deny(r, s, u) \/ Reuse(r, s, u, force)
  PROVE  AnswersOK' /\ PairsOK' /\ StoredOK' /\ GatheringOK'
<1>1. PICK what \in {"denied", "existing"}, c \in Context \cup {Absent} :
        /\ answers' = answered(what, r, s, u, c)
        /\ what = "existing" => c.user = u
  BY DEF Deny, Reuse, OnceInv, TypeInv
<1> DEFINE e == [what |-> what, request |-> r, session |-> s, user |-> u, context |-> c]
<1>2. e \in AnswerType /\ answers' = Append(answers, e)
  BY <1>1 DEF AnswerType, answered
<1>3. phase' = [phase EXCEPT ![r] = "done"] /\ UNCHANGED <<stored, calls>>
  BY DEF Deny, Reuse
<1>4. /\ \A x \in Requests : phase[x] = "done" => phase'[x] = "done"
      /\ \A x \in Requests : phase'[x] = "gathering" => phase[x] = "gathering"
      /\ phase'[r] = "done"
  BY <1>3 DEF OnceInv, TypeInv
<1>5. /\ e.what # "created" /\ e.what # "refreshed" /\ e.request = r
      /\ e.what \in Carries => e.context.user = e.user
  BY <1>1 DEF Carries
<1> HIDE DEF e
<1>6. AnswersOK' /\ PairsOK' /\ GatheringOK'
  BY <1>2, <1>3, <1>4, <1>5, EarlierStand
<1>7. /\ Len(answers') = Len(answers) + 1 /\ answers'[Len(answers) + 1] = e /\ Len(answers) \in Nat
      /\ \A i \in 1..Len(answers) : answers'[i] = answers[i]
      /\ \A i \in 1..Len(answers) :
           Undisturbed(i, Len(answers))' => \A j \in 1..Len(answers) : Undisturbed(i, j)
  BY <1>2, OneMore DEF OnceInv, TypeInv
<1>8. StoredOK'
  BY <1>3, <1>5, <1>7 DEF StoredOK, OnceInv
<1> QED BY <1>6, <1>8

\* A request that finds the store empty finds all that was created disturbed.
LEMMA GatherOnce ==
  ASSUME OnceInv, NEW r \in Requests, NEW s \in Sessions, NEW u \in Learners, NEW force \in BOOLEAN,
         phase[r] = "idle", Gather(r, s, u, force)
  PROVE  AnswersOK' /\ PairsOK' /\ StoredOK' /\ GatheringOK'
<1> DEFINE call == [NoCall EXCEPT !.session = s, !.user = u, !.force = force,
                                  !.had = stored[s] # Absent, !.began = Len(answers)]
<1>1. /\ calls' = [calls EXCEPT ![r] = call] /\ phase' = [phase EXCEPT ![r] = "gathering"]
      /\ UNCHANGED <<stored, answers>> /\ (stored[s] # Absent => force)
  BY DEF Gather
<1>2. call.session = s /\ call.force = force /\ call.had = (stored[s] # Absent) /\ call.began = Len(answers)
  BY DEF NoCall
<1> HIDE DEF call
<1>3. \A x \in Requests : /\ x # r => calls'[x] = calls[x] /\ phase'[x] = phase[x]
                          /\ x = r => calls'[x] = call /\ phase'[x] = "gathering"
  BY <1>1 DEF OnceInv, TypeInv
<1>4. AnswersOK'
  BY <1>1, <1>3 DEF OnceInv, AnswersOK
<1>5. StoredOK'
  BY <1>1 DEF OnceInv, StoredOK, Undisturbed
<1>6. PairsOK'
  <2> SUFFICES ASSUME NEW j \in 1..Len(answers), NEW i \in 1..(j - 1),
                      answers[i].what = "created", answers[j].what = "created",
                      answers[i].session = answers[j].session, Undisturbed(i, j)
               PROVE  calls'[answers[j].request].began < i
    BY <1>1 DEF PairsOK, Undisturbed
  <2>1. answers[j].request \in Requests /\ phase[answers[j].request] = "done"
    BY DEF OnceInv, AnswersOK, Carries
  <2>2. calls'[answers[j].request] = calls[answers[j].request]
    BY <1>3, <2>1
  <2> QED BY <2>2 DEF OnceInv, PairsOK
<1>7. Len(answers) \in Nat
  BY DEF OnceInv, TypeInv
<1>8. GatheringOK'
  <2> SUFFICES ASSUME NEW x \in Requests, phase'[x] = "gathering"
               PROVE  /\ calls'[x].had => calls'[x].force
                      /\ calls'[x].began \in 0..Len(answers)
                      /\ ~calls'[x].had => \A i \in 1..calls'[x].began :
                           answers[i].what = "created" /\ answers[i].session = calls'[x].session
                             => ~Undisturbed(i, calls'[x].began)
    BY <1>1 DEF GatheringOK, Undisturbed
  <2>1. CASE x = r
    BY <1>1, <1>2, <1>3, <1>7, <2>1 DEF OnceInv, StoredOK
  <2>2. CASE x # r
    BY <1>3, <2>2 DEF OnceInv, GatheringOK
  <2> QED BY <2>1, <2>2
<1> QED BY <1>4, <1>5, <1>6, <1>8

\* What the sources do is nobody's answer.
LEMMA LearnsOnce ==
  ASSUME OnceInv, NEW r \in Requests, NEW call \in Call, Learns(r, call), phase[r] = "gathering",
         call.session = calls[r].session, call.force = calls[r].force,
         call.had = calls[r].had, call.began = calls[r].began
  PROVE  AnswersOK' /\ PairsOK' /\ StoredOK' /\ GatheringOK'
<1>1. /\ UNCHANGED <<stored, answers, phase>>
      /\ \A x \in Requests : /\ x # r => calls'[x] = calls[x]
                             /\ x = r => calls'[x] = call
  BY DEF Learns, OnceInv, TypeInv
<1>2. \A x \in Requests : /\ calls'[x].session = calls[x].session /\ calls'[x].force = calls[x].force
                         /\ calls'[x].had = calls[x].had /\ calls'[x].began = calls[x].began
  BY <1>1
<1>3. AnswersOK'
  BY <1>1, <1>2 DEF OnceInv, AnswersOK
<1>4. StoredOK'
  BY <1>1 DEF OnceInv, StoredOK, Undisturbed
<1>5. GatheringOK'
  BY <1>1, <1>2 DEF OnceInv, GatheringOK, Undisturbed
<1>6. PairsOK'
  <2> SUFFICES ASSUME NEW j \in 1..Len(answers), NEW i \in 1..(j - 1),
                      answers[i].what = "created", answers[j].what = "created",
                      answers[i].session = answers[j].session, Undisturbed(i, j)
               PROVE  calls'[answers[j].request].began < i
    BY <1>1 DEF PairsOK, Undisturbed
  <2>1. answers[j].request \in Requests
    BY DEF OnceInv, AnswersOK, Carries
  <2> QED BY <1>2, <2>1 DEF OnceInv, PairsOK
<1> QED BY <1>3, <1>4, <1>5, <1>6

LEMMA BuildOnce ==
  ASSUME OnceInv, NEW r \in Requests, BuildAndSave(r)
  PROVE  AnswersOK' /\ PairsOK' /\ StoredOK' /\ GatheringOK'
<1>1. /\ Built(r) \in Context /\ Built(r).user = calls[r].user
      /\ calls[r].session \in Sessions /\ calls[r].user \in Learners
      /\ phase[r] = "gathering" /\ Absent \notin Context
  BY BuiltTyped DEF BuildAndSave, OnceInv, TypeInv, ContextConstants
<1> DEFINE what == IF calls[r].had THEN "refreshed" ELSE "created"
           e == [what |-> what, request |-> r, session |-> calls[r].session, user |-> calls[r].user,
                 context |-> Built(r)]
<1>2. e \in AnswerType /\ answers' = Append(answers, e)
  BY <1>1 DEF BuildAndSave, AnswerType, answered
<1>3. /\ stored' = [stored EXCEPT ![calls[r].session] = Built(r)]
      /\ phase' = [phase EXCEPT ![r] = "done"] /\ UNCHANGED calls
  BY DEF BuildAndSave
<1>4. /\ \A x \in Requests : phase[x] = "done" => phase'[x] = "done"
      /\ \A x \in Requests : phase'[x] = "gathering" => phase[x] = "gathering"
      /\ phase'[r] = "done"
  BY <1>3 DEF OnceInv, TypeInv
<1>5. /\ e.request = r /\ e.session = calls[r].session /\ e.context.user = e.user
      /\ e.what = "created" => ~calls[r].had
      /\ e.what = "refreshed" => calls[r].force
  BY <1>1 DEF OnceInv, GatheringOK
<1> HIDE DEF e
<1>6. ASSUME NEW i \in 1..Len(answers), e.what = "created", answers[i].what = "created",
             answers[i].session = e.session, \A j \in 1..Len(answers) : Undisturbed(i, j)
      PROVE  calls[r].began < i
  <2>1. /\ calls[r].began \in 0..Len(answers) /\ Len(answers) \in Nat
        /\ ~(i \in 1..calls[r].began)
    BY <1>1, <1>5, <1>6 DEF OnceInv, GatheringOK, TypeInv
  <2> QED BY <2>1
<1>7. AnswersOK' /\ PairsOK' /\ GatheringOK'
  BY <1>2, <1>3, <1>4, <1>5, <1>6, EarlierStand
<1>8. /\ Len(answers') = Len(answers) + 1 /\ answers'[Len(answers) + 1] = e /\ Len(answers) \in Nat
      /\ \A i \in 1..Len(answers) : answers'[i] = answers[i]
      /\ \A i \in 1..Len(answers) :
           Undisturbed(i, Len(answers))' => \A j \in 1..Len(answers) : Undisturbed(i, j)
  BY <1>2, OneMore DEF OnceInv, TypeInv
<1>9. \A s \in Sessions : /\ stored'[s] # Absent <=> s = calls[r].session \/ stored[s] # Absent
  BY <1>1, <1>3 DEF OnceInv, TypeInv
<1>10. \A i \in 1..Len(answers) : answers[i].session \in Sessions
  BY AnswersTyped DEF OnceInv
<1>11. StoredOK'
  BY <1>1, <1>5, <1>8, <1>9, <1>10 DEF StoredOK, OnceInv
<1> QED BY <1>7, <1>11

LEMMA ExpiryOnce ==
  ASSUME OnceInv, NEW s \in Sessions, ContextExpires(s)
  PROVE  AnswersOK' /\ PairsOK' /\ StoredOK' /\ GatheringOK'
<1> DEFINE e == [what |-> "expired", request |-> Absent, session |-> s, user |-> stored[s].user,
                 context |-> stored[s]]
<1>1. e \in AnswerType /\ answers' = Append(answers, e)
  BY DEF ContextExpires, AnswerType, answered, OnceInv, TypeInv, Context
<1>2. e.what = "expired" /\ e.session = s
  OBVIOUS
<1> HIDE DEF e
<1>3. stored' = [stored EXCEPT ![s] = Absent] /\ UNCHANGED <<calls, phase>>
  BY DEF ContextExpires
<1>4. AnswersOK' /\ PairsOK' /\ GatheringOK'
  BY <1>1, <1>2, <1>3, EarlierStand DEF Carries
<1>5. /\ Len(answers') = Len(answers) + 1 /\ answers'[Len(answers) + 1] = e /\ Len(answers) \in Nat
      /\ \A i \in 1..Len(answers) : answers'[i] = answers[i]
      /\ \A i \in 1..Len(answers) :
           Undisturbed(i, Len(answers))' => /\ \A j \in 1..Len(answers) : Undisturbed(i, j)
                                                /\ answers[i].session # s
  BY <1>1, <1>2, OneMore DEF OnceInv, TypeInv
<1>6. \A x \in Sessions : x # s => stored'[x] = stored[x]
  BY <1>3 DEF OnceInv, TypeInv
<1>7. \A i \in 1..Len(answers) : answers[i].session \in Sessions
  BY AnswersTyped DEF OnceInv
<1>8. StoredOK'
  BY <1>2, <1>5, <1>6, <1>7 DEF StoredOK, OnceInv
<1> QED BY <1>4, <1>8

LEMMA NextOnce == OnceInv /\ [ContextNext]_context_vars => OnceInv'
<1> SUFFICES ASSUME OnceInv, [ContextNext]_context_vars
             PROVE  AnswersOK' /\ PairsOK' /\ StoredOK' /\ GatheringOK'
  BY NextType DEF OnceInv
<1>1. ASSUME NEW r \in Requests, initialize_context(r) \/ force_refresh_context(r)
      PROVE  AnswersOK' /\ PairsOK' /\ StoredOK' /\ GatheringOK'
  BY <1>1, AtOnceOnce, GatherOnce DEF initialize_context, force_refresh_context, initialize
<1>2. ASSUME NEW r \in Requests,
             \/ \E n \in SourceName : SourceAnswers(r, n) \/ SourceTimesOut(r, n)
             \/ BudgetElapses(r)
      PROVE  AnswersOK' /\ PairsOK' /\ StoredOK' /\ GatheringOK'
  BY <1>2, OutcomeLearns, LearnsOnce DEF OnceInv
<1>3. CASE UNCHANGED context_vars
  BY <1>3 DEF context_vars, OnceInv, AnswersOK, PairsOK, StoredOK, GatheringOK, Undisturbed
<1> QED BY <1>1, <1>2, <1>3, BuildOnce, ExpiryOnce DEF ContextNext

\* An answer carries a context of the learner who asked; one that calls itself
\* a refresh was asked to be one; and a second context of a session that calls
\* itself the first can only be of a request that was already under way when
\* the first was answered (initialize).
THEOREM BuiltOnce == ContextConstants /\ ContextSpec => []BuiltOncePerSession
<1>1. OnceInv => BuiltOncePerSession
  BY DEF OnceInv, TypeInv, AnswersOK, PairsOK, Carries, BuiltOncePerSession
<1> QED BY <1>1, InitOnce, NextOnce, PTL DEF ContextSpec

-----------------------------------------------------------------------------
(***************************************************************************)
(* Given up only if late.  A request's sources are not heard any more once *)
(* it is over, so what was built of them is still what its answer carries; *)
(* the rest is what the normalisers make of one result.                    *)
(***************************************************************************)
BuiltOK ==
  \A i \in 1..Len(answers) : answers[i].request \in Requests =>
    /\ phase[answers[i].request] = "done"
    /\ calls[answers[i].request].session # Absent =>
         answers[i].context = Built(answers[i].request)

LateInv == TypeInv /\ BuiltOK

\* What a status says of a source.
LEMMA StatusSays ==
  ASSUME ContextConstants, NEW n \in SourceName, NEW result \in Results(n)
  PROVE  /\ normalised(n, result) = "empty" <=> result.holds = "nothing"
         /\ normalised(n, result) = "unavailable" =>
              result.holds \in {"timeout", "unavailable", "budget_exceeded"}
         /\ result \in Records(n) =>
              /\ normalised(n, result) # "unavailable"
              /\ normalised(n, result) \notin {"available", "partial", "empty"} => result.holds = "malformed"
              /\ normalised(n, result) \notin {"available", "partial"} => result.holds \in {"nothing", "malformed"}
<1>1. /\ n \in {"naric", "courses", "legal_profile", "question_history"}
      /\ result.holds \in Holds
      /\ result \in Records(n) => result.holds \notin Errors \cup {"pending"}
  BY ResultsTyped DEF ContextConstants, Result
<1>2. result.holds = "malformed" => n = "question_history"
  BY <1>1 DEF Results, Records, Failed, Pending, Errors, ProviderErrors
<1>3. n = "naric" => result.holds # "some"
  BY DEF Results, Records, Failed, Pending, Errors, ProviderErrors
<1>4. CASE n = "naric"
  BY <1>1, <1>2, <1>3, <1>4 DEF normalised, normalise_naric, status_for_error, Holds, Errors, ProviderErrors
<1>5. CASE n = "courses"
  BY <1>1, <1>2, <1>5 DEF normalised, normalise_courses, status_for_error, Holds, Errors, ProviderErrors
<1>6. CASE n = "legal_profile"
  BY <1>1, <1>2, <1>6 DEF normalised, normalise_legal, status_for_error, Holds, Errors, ProviderErrors
<1>7. CASE n = "question_history"
  BY <1>1, <1>2, <1>7 DEF normalised, normalise_history, status_for_error, Holds, Errors, ProviderErrors
<1> QED BY <1>1, <1>4, <1>5, <1>6, <1>7

\* What a context says of its sources.
LEMMA ContextSays ==
  ASSUME TypeInv, NEW r \in Requests
  PROVE  LET results == calls[r].results
             Came == calls[r].came
             context == Built(r)
         IN  /\ \A n \in SourceName : context.source_status[n] = "empty" <=> results[n].holds = "nothing"
             /\ \A n \in SourceName : context.source_status[n] = "unavailable" =>
                  results[n].holds \in {"timeout", "unavailable", "budget_exceeded"}
             /\ \A n \in Came : context.source_status[n] # "unavailable"
             /\ context.personalization = "unavailable_notice" =>
                  \A n \in Came : results[n].holds = "malformed"
             /\ context.personalization = "empty_notice" =>
                  \A n \in Came : results[n].holds \in {"nothing", "malformed"}
<1> DEFINE results == calls[r].results
           status == [n \in SourceName |-> normalised(n, results[n])]
<1>1. /\ ContextConstants /\ calls[r].came \subseteq SourceName
      /\ \A n \in SourceName : /\ results[n] \in Results(n)
                               /\ n \in calls[r].came => results[n] \in Records(n)
  BY DEF TypeInv, Call, Brought
<1>2. Built(r).source_status = status /\ Built(r).personalization = personalization(status)
  BY DEF Built
<1>3. \A n \in SourceName : status[n] = normalised(n, results[n])
  OBVIOUS
<1> HIDE DEF results, status
<1>4. personalization(status) = "unavailable_notice" =>
        \A n \in SourceName : status[n] \notin {"available", "partial", "empty"}
  BY DEF personalization
<1>5. personalization(status) = "empty_notice" =>
        \A n \in SourceName : status[n] \notin {"available", "partial"}
  BY DEF personalization
<1>6. ASSUME NEW n \in SourceName
      PROVE  /\ status[n] = "empty" <=> results[n].holds = "nothing"
             /\ status[n] = "unavailable" =>
                  results[n].holds \in {"timeout", "unavailable", "budget_exceeded"}
             /\ n \in calls[r].came =>
                  /\ status[n] # "unavailable"
                  /\ status[n] \notin {"available", "partial", "empty"} => results[n].holds = "malformed"
                  /\ status[n] \notin {"available", "partial"} => results[n].holds \in {"nothing", "malformed"}
  BY <1>1, <1>3, StatusSays
<1> QED BY <1>1, <1>2, <1>4, <1>5, <1>6 DEF results

\* One more answer, of a request that was not over, or an expiry's.
LEMMA OneMoreBuilt ==
  ASSUME LateInv, NEW e \in AnswerType, answers' = Append(answers, e), UNCHANGED calls,
         \A x \in Requests : phase[x] = "done" => phase'[x] = "done",
         e.request \in Requests =>
           /\ phase'[e.request] = "done"
           /\ calls[e.request].session # Absent => e.context = Built(e.request)
  PROVE  BuiltOK'
<1>1. /\ Len(answers') = Len(answers) + 1 /\ answers'[Len(answers) + 1] = e /\ Len(answers) \in Nat
      /\ \A i \in 1..Len(answers) : answers'[i] = answers[i]
  BY OneMore DEF LateInv, TypeInv
<1>2. \A x : Built(x)' = Built(x)
  BY DEF Built
<1> QED BY <1>1, <1>2 DEF BuiltOK, LateInv

LEMMA InitLate == ContextConstants /\ ContextInit => LateInv
BY InitType DEF ContextInit, LateInv, BuiltOK

LEMMA AtOnceLate ==
  ASSUME LateInv, NEW r \in Requests, NEW s \in Sessions, NEW u \in Learners, NEW force \in BOOLEAN,
         phase[r] = "idle", Deny(r, s, u) \/ Reuse(r, s, u, force)
  PROVE  BuiltOK'
<1>1. PICK what \in {"denied", "existing"}, c \in Context \cup {Absent} :
        answers' = answered(what, r, s, u, c)
  BY DEF Deny, Reuse, LateInv, TypeInv
<1> DEFINE e == [what |-> what, request |-> r, session |-> s, user |-> u, context |-> c]
<1>2. e \in AnswerType /\ answers' = Append(answers, e) /\ e.request = r
  BY <1>1 DEF AnswerType, answered
<1>3. phase' = [phase EXCEPT ![r] = "done"] /\ UNCHANGED calls
  BY DEF Deny, Reuse
<1>4. calls[r].session = Absent
  BY DEF LateInv, TypeInv, NoCall
<1> HIDE DEF e
<1>5. (\A x \in Requests : phase[x] = "done" => phase'[x] = "done") /\ phase'[r] = "done"
  BY <1>3 DEF LateInv, TypeInv
<1> QED BY <1>2, <1>3, <1>4, <1>5, OneMoreBuilt

\* The requests that are over are left alone.
LEMMA UnderWayLate ==
  ASSUME LateInv, NEW r \in Requests, phase[r] # "done", UNCHANGED answers,
         \A x \in Requests \ {r} : calls'[x] = calls[x] /\ phase'[x] = phase[x]
  PROVE  BuiltOK'
<1> SUFFICES ASSUME NEW i \in 1..Len(answers), answers[i].request \in Requests
             PROVE  /\ phase'[answers[i].request] = "done"
                    /\ calls'[answers[i].request].session # Absent =>
                         answers[i].context = Built(answers[i].request)'
  BY DEF BuiltOK
<1>1. /\ phase[answers[i].request] = "done"
      /\ calls[answers[i].request].session # Absent => answers[i].context = Built(answers[i].request)
  BY DEF LateInv, BuiltOK
<1>2. calls'[answers[i].request] = calls[answers[i].request] /\ phase'[answers[i].request] = "done"
  BY <1>1
<1>3. Built(answers[i].request)' = Built(answers[i].request)
  BY <1>2 DEF Built
<1> QED BY <1>1, <1>2, <1>3

LEMMA BuildLate ==
  ASSUME LateInv, NEW r \in Requests, BuildAndSave(r)
  PROVE  BuiltOK'
<1>1. /\ Built(r) \in Context /\ calls[r].session \in Sessions /\ calls[r].user \in Learners
  BY BuiltTyped DEF BuildAndSave, LateInv, TypeInv
<1> DEFINE what == IF calls[r].had THEN "refreshed" ELSE "created"
           e == [what |-> what, request |-> r, session |-> calls[r].session, user |-> calls[r].user,
                 context |-> Built(r)]
<1>2. e \in AnswerType /\ answers' = Append(answers, e) /\ e.request = r /\ e.context = Built(r)
  BY <1>1 DEF BuildAndSave, AnswerType, answered
<1>3. phase' = [phase EXCEPT ![r] = "done"] /\ UNCHANGED calls
  BY DEF BuildAndSave
<1> HIDE DEF e
<1>4. (\A x \in Requests : phase[x] = "done" => phase'[x] = "done") /\ phase'[r] = "done"
  BY <1>3 DEF LateInv, TypeInv
<1> QED BY <1>2, <1>3, <1>4, OneMoreBuilt

LEMMA ExpiryLate ==
  ASSUME LateInv, NEW s \in Sessions, ContextExpires(s)
  PROVE  BuiltOK'
<1> DEFINE e == [what |-> "expired", request |-> Absent, session |-> s, user |-> stored[s].user,
                 context |-> stored[s]]
<1>1. e \in AnswerType /\ answers' = Append(answers, e) /\ e.request = Absent
  BY DEF ContextExpires, AnswerType, answered, LateInv, TypeInv, Context
<1>2. UNCHANGED <<calls, phase>>
  BY DEF ContextExpires
<1>3. Absent \notin Requests
  BY DEF LateInv, TypeInv, ContextConstants
<1> HIDE DEF e
<1> QED BY <1>1, <1>2, <1>3, OneMoreBuilt

LEMMA NextLate == LateInv /\ [ContextNext]_context_vars => LateInv'
<1> SUFFICES ASSUME LateInv, [ContextNext]_context_vars PROVE BuiltOK'
  BY NextType DEF LateInv
<1>1. ASSUME NEW r \in Requests, NEW s \in Sessions, NEW u \in Learners, NEW force \in BOOLEAN,
             phase[r] = "idle", Gather(r, s, u, force)
      PROVE  BuiltOK'
  <2>1. UNCHANGED answers /\ \A x \in Requests \ {r} : calls'[x] = calls[x] /\ phase'[x] = phase[x]
    BY <1>1 DEF Gather, LateInv, TypeInv
  <2> QED BY <1>1, <2>1, UnderWayLate
<1>2. ASSUME NEW r \in Requests, initialize_context(r) \/ force_refresh_context(r)
      PROVE  BuiltOK'
  BY <1>1, <1>2, AtOnceLate DEF initialize_context, force_refresh_context, initialize
<1>3. ASSUME NEW r \in Requests,
             \/ \E n \in SourceName : SourceAnswers(r, n) \/ SourceTimesOut(r, n)
             \/ BudgetElapses(r)
      PROVE  BuiltOK'
  <2>1. phase[r] = "gathering" /\ \E call \in Call : Learns(r, call)
    BY <1>3, OutcomeLearns DEF LateInv
  <2>2. UNCHANGED answers /\ \A x \in Requests \ {r} : calls'[x] = calls[x] /\ phase'[x] = phase[x]
    BY <2>1 DEF Learns, LateInv, TypeInv
  <2> QED BY <2>1, <2>2, UnderWayLate
<1>4. CASE UNCHANGED context_vars
  <2>1. \A x : Built(x)' = Built(x)
    BY <1>4 DEF Built, context_vars
  <2> QED BY <1>4, <2>1 DEF context_vars, LateInv, BuiltOK
<1> QED BY <1>2, <1>3, <1>4, BuildLate, ExpiryLate DEF ContextNext

\* A source is called empty exactly if it came and had nothing, unavailable only
\* if it was late or said so; and the learner is told of an outage, or of an
\* empty record, only if no source brought better (_gather_sources, normalisers,
\* _personalization).
THEOREM GivenUpOnlyLate == ContextConstants /\ ContextSpec => []GivenUpOnlyIfLate
<1>1. LateInv => GivenUpOnlyIfLate
  <2> SUFFICES ASSUME LateInv, NEW r \in Requests, calls[r].session # Absent,
                      NEW i \in DOMAIN answers, answers[i].request = r
               PROVE  LET results == calls[r].results
                          Came == calls[r].came
                          context == answers[i].context
                      IN  /\ \A n \in DOMAIN context.source_status :
                               /\ context.source_status[n] = "empty" <=> results[n].holds = "nothing"
                               /\ context.source_status[n] = "unavailable" =>
                                    results[n].holds \in {"timeout", "unavailable", "budget_exceeded"}
                          /\ \A n \in Came : context.source_status[n] # "unavailable"
                          /\ context.personalization = "unavailable_notice" =>
                               \A n \in Came : results[n].holds = "malformed"
                          /\ context.personalization = "empty_notice" =>
                               \A n \in Came : results[n].holds \in {"nothing", "malformed"}
    BY DEF GivenUpOnlyIfLate
  <2>1. answers[i].context = Built(r)
    BY DEF LateInv, BuiltOK, TypeInv
  <2>2. DOMAIN Built(r).source_status = SourceName
    BY DEF Built
  <2> QED BY <2>1, <2>2, ContextSays DEF LateInv
<1> QED BY <1>1, InitLate, NextLate, PTL DEF ContextSpec

-----------------------------------------------------------------------------
(* UC-05's mode, with stores that do not yield.  A request is seen by its  *)
(* place and its learner.                                                  *)

\* Before a mode is set there is no dialogue, and nobody is further than the
\* ownership check; afterwards nobody else is.
OwnerInv ==
  /\ DOMAIN s_pc = Replies /\ DOMAIN s_req = Replies /\ DOMAIN dialogues = Dialogues
  /\ mode \in S!ModeState \cup {Absent}
  /\ \A w \in Replies : /\ "user" \in DOMAIN s_req[w]
                        /\ s_pc[w] = "set_mode" => /\ s_req[w].user \in Learners
                                                   /\ s_req[w].enabled \in BOOLEAN
                        /\ \A v \in Replies \ {w} :
                             s_pc[w] \notin S!StoreSteps \/ s_pc[v] \notin S!StoreSteps
  /\ mode = Absent => /\ \A d \in Dialogues : dialogues[d] = Absent
                      /\ \A w \in Replies : s_pc[w] \in {"idle", "standard", "set_mode"}
  /\ S!OnlyTheOwnerActs

\* What a step of a request amounts to.
OwnerStep(w) ==
  /\ S!HasLoop(w)
  /\ DOMAIN s_pc' = Replies /\ DOMAIN s_req' = Replies /\ DOMAIN dialogues' = Dialogues
  /\ "user" \in DOMAIN s_req'[w]
  /\ \A v \in Replies \ {w} : s_pc'[v] = s_pc[v] /\ s_req'[v] = s_req[v]
  /\ \/ /\ UNCHANGED <<mode, dialogues>>
        /\ \/ s_pc'[w] = "idle"
           \/ s_pc'[w] = "standard" /\ mode = Absent
           \/ /\ s_pc'[w] = "set_mode" /\ s_req'[w].user \in Learners /\ s_req'[w].enabled \in BOOLEAN
              /\ mode # Absent => mode.owner_user_id = s_req'[w].user
           \/ /\ s_pc'[w] \in S!PC \ {"set_mode"}
              /\ mode # Absent /\ mode.owner_user_id = s_req'[w].user
     \/ /\ UNCHANGED mode
        /\ s_pc[w] \in S!PC \ {"idle", "standard", "set_mode"}
        /\ \/ s_pc'[w] = "idle"
           \/ s_pc'[w] \in S!PC \ {"set_mode"} /\ s_req'[w].user = s_req[w].user
     \/ /\ UNCHANGED dialogues
        /\ s_pc[w] = "set_mode" /\ mode' \in S!ModeState
        /\ IF mode = Absent THEN mode'.owner_user_id = s_req[w].user
           ELSE mode'.owner_user_id = mode.owner_user_id
        /\ \/ s_pc'[w] = "idle"
           \/ s_pc'[w] = "list" /\ s_req'[w].user = s_req[w].user

LEMMA InitOwner == S!Init => OwnerInv
<1> SUFFICES ASSUME S!Init PROVE OwnerInv
  OBVIOUS
<1>1. "user" \in DOMAIN S!NoRequest
  BY DEF S!NoRequest
<1> QED BY <1>1 DEF S!Init, OwnerInv, S!OnlyTheOwnerActs, S!StoreSteps

LEMMA StepOwner ==
  ASSUME OwnerInv, NEW w \in Replies, OwnerStep(w)
  PROVE  OwnerInv'
<1>1. ASSUME NEW v \in Replies PROVE "user" \in DOMAIN s_req'[v]
  BY DEF OwnerInv, OwnerStep
<1>2. ASSUME NEW v \in Replies, s_pc'[v] = "set_mode"
      PROVE  s_req'[v].user \in Learners /\ s_req'[v].enabled \in BOOLEAN
  BY <1>2 DEF OwnerInv, OwnerStep, S!PC
<1>3. ASSUME NEW u \in Replies, NEW v \in Replies \ {u}
      PROVE  s_pc'[u] \notin S!StoreSteps \/ s_pc'[v] \notin S!StoreSteps
  BY DEF OwnerInv, OwnerStep, S!HasLoop
<1>4. ASSUME mode' = Absent
      PROVE  /\ \A d \in Dialogues : dialogues'[d] = Absent
             /\ \A v \in Replies : s_pc'[v] \in {"idle", "standard", "set_mode"}
  BY <1>4, ModeAssumption DEF OwnerInv, OwnerStep
<1>5. ASSUME mode' # Absent, NEW v \in Replies, s_pc'[v] \in S!PC \ {"idle", "standard"}
      PROVE  s_req'[v].user = mode'.owner_user_id
  <2>1. CASE v = w
    BY <1>5, <2>1 DEF OwnerInv, OwnerStep, S!OnlyTheOwnerActs, S!PC
  <2>2. CASE v # w
    BY <1>5, <2>2 DEF OwnerInv, OwnerStep, S!OnlyTheOwnerActs, S!PC, S!StoreSteps, S!HasLoop
  <2> QED BY <2>1, <2>2
<1>6. mode' \in S!ModeState \cup {Absent}
  BY DEF OwnerInv, OwnerStep
<1> QED BY <1>1, <1>2, <1>3, <1>4, <1>5, <1>6 DEF OwnerInv, OwnerStep, S!OnlyTheOwnerActs

\* A begun request.
LEMMA BeginOwner ==
  ASSUME OwnerInv, NEW w \in Replies, S!Begin(w)
  PROVE  OwnerStep(w)
<1> USE DEF OwnerInv, OwnerStep, S!At, S!Goto, S!PC
<1>1. ASSUME NEW q PROVE /\ "user" \in DOMAIN [S!NoRequest EXCEPT !.user = q]
                         /\ [S!NoRequest EXCEPT !.user = q].user = q
  BY DEF S!NoRequest
<1>2. ASSUME NEW u \in Learners, S!Admitted(u), mode # Absent PROVE mode.owner_user_id = u
  BY <1>2 DEF S!Admitted
<1>3. CASE S!BeginSetMode(w)
  <2>1. PICK u \in Learners, b \in BOOLEAN :
           S!Admitted(u) /\ s_req' = [s_req EXCEPT ![w] = [S!NoRequest EXCEPT !.user = u, !.enabled = b]]
    BY <1>3 DEF S!BeginSetMode
  <2>2. s_req'[w].user = u /\ s_req'[w].enabled = b /\ "user" \in DOMAIN s_req'[w]
    BY <2>1 DEF S!NoRequest
  <2> QED BY <1>2, <1>3, <2>1, <2>2 DEF S!BeginSetMode
<1>4. CASE S!BeginAsk(w)
  <2>1. PICK u \in Learners : S!Admitted(u) /\ s_req' = [s_req EXCEPT ![w] = [S!NoRequest EXCEPT !.user = u]]
    BY <1>4 DEF S!BeginAsk
  <2>2. s_req'[w].user = u /\ "user" \in DOMAIN s_req'[w]
    BY <1>1, <2>1
  <2>3. s_pc'[w] = "open" \/ s_pc'[w] = "standard"
    BY <1>4 DEF S!BeginAsk
  <2>4. mode = Absent => s_pc'[w] = "standard"
    BY <1>4 DEF S!BeginAsk, S!ModeEnabled
  <2> QED BY <1>2, <1>4, <2>1, <2>2, <2>3, <2>4 DEF S!BeginAsk
<1>5. CASE S!BeginReply(w)
  <2>1. PICK u \in Learners, d \in Dialogues :
           /\ dialogues[d] # Absent /\ S!Admitted(u)
           /\ s_req' = [s_req EXCEPT ![w] = [S!NoRequest EXCEPT !.user = u, !.id = d, !.copy = dialogues[d]]]
    BY <1>5 DEF S!BeginReply
  <2>2. s_req'[w].user = u /\ "user" \in DOMAIN s_req'[w]
    BY <2>1 DEF S!NoRequest
  <2> QED BY <1>2, <1>5, <2>1, <2>2 DEF S!BeginReply
<1> QED BY <1>3, <1>4, <1>5 DEF S!Begin

\* A turn taken, on the copy: whose it is does not change.
LEMMA TurnMoves ==
  ASSUME OwnerInv, NEW w \in Replies, NEW intent, NEW event, NEW q, S!TakeTurn(w, intent, event, q)
  PROVE  /\ DOMAIN s_req' = Replies /\ "user" \in DOMAIN s_req'[w] /\ s_req'[w].user = s_req[w].user
         /\ \A v \in Replies \ {w} : s_req'[v] = s_req[v] /\ s_pc'[v] = s_pc[v]
         /\ DOMAIN s_pc' = Replies /\ s_pc'[w] \in {"answer", "save"}
<1>1. /\ "user" \in DOMAIN s_req[w] /\ DOMAIN s_req = Replies /\ DOMAIN s_pc = Replies
  BY DEF OwnerInv
<1>2. PICK c, k : /\ s_req' = [s_req EXCEPT ![w].copy = c, ![w].intent = Absent, ![w].kind = k]
                  /\ S!Goto(w, "answer") \/ S!Goto(w, "save")
  BY DEF S!TakeTurn
<1> QED BY <1>1, <1>2 DEF S!Goto

\* A request that goes on, by itself or with a store.
LEMMA ContinueOwner ==
  ASSUME OwnerInv, NEW w \in Replies, S!Continue(w)
  PROVE  OwnerStep(w)
<1> DEFINE Moves ==
      /\ S!HasLoop(w) /\ s_pc[w] \in S!PC \ {"idle", "standard", "set_mode"} /\ UNCHANGED mode
      /\ DOMAIN dialogues' = Dialogues
      /\ DOMAIN s_req' = Replies /\ "user" \in DOMAIN s_req'[w]
      /\ DOMAIN s_pc' = Replies
      /\ \A v \in Replies \ {w} : s_req'[v] = s_req[v] /\ s_pc'[v] = s_pc[v]
      /\ \/ s_pc'[w] = "idle"
         \/ s_pc'[w] \in S!PC \ {"standard", "set_mode"} /\ s_req'[w].user = s_req[w].user
<1>1. "user" \in DOMAIN S!NoRequest
  BY DEF S!NoRequest
<1>2. Moves => OwnerStep(w)
  BY DEF OwnerInv, OwnerStep, S!PC
<1>3. /\ "user" \in DOMAIN s_req[w] /\ DOMAIN dialogues = Dialogues
      /\ DOMAIN s_req = Replies /\ DOMAIN s_pc = Replies
  BY DEF OwnerInv
<1>4. CASE S!WriteMode(w)
  <2>1. /\ mode' \in S!ModeState
        /\ mode'.owner_user_id = IF mode = Absent THEN s_req[w].user ELSE mode.owner_user_id
    BY <1>4 DEF S!WriteMode, S!At, OwnerInv, S!ModeState
  <2> QED BY <1>1, <1>3, <1>4, <2>1 DEF S!WriteMode, S!At, S!Goto, S!Return, OwnerStep
<1>5. CASE S!StandardAnswer(w)
  BY <1>1, <1>3, <1>5 DEF S!StandardAnswer, S!At, S!Goto, S!Return, OwnerStep
<1>6. CASE S!ProviderFails(w)
  BY <1>1, <1>3, <1>6 DEF S!ProviderFails, S!At, S!Goto, S!Return, OwnerStep
<1>7. ASSUME S!ListOpen(w) PROVE Moves
  BY <1>1, <1>3, <1>7 DEF S!ListOpen, S!At, S!Goto, S!Return, S!StoreSteps, S!PC
<1>8. ASSUME S!CloseNext(w) PROVE Moves
  <2>1. PICK pair \in s_req[w].found :
          /\ dialogues' = [dialogues EXCEPT ![pair[1]] = S!Abandoned(pair[2])]
          /\ \/ S!Return(w)
             \/ s_req' = [s_req EXCEPT ![w].found = @ \ {pair}] /\ UNCHANGED s_pc
    BY <1>8 DEF S!CloseNext
  <2> QED BY <2>1, <1>1, <1>3, <1>8 DEF S!CloseNext, S!At, S!Goto, S!Return, S!StoreSteps, S!PC
<1>9. ASSUME S!OpenDialogue(w) PROVE Moves
  <2>1. PICK d, c : s_req' = [s_req EXCEPT ![w].id = d, ![w].copy = c, ![w].kind = "guiding_question"]
    BY <1>9 DEF S!OpenDialogue
  <2>2. /\ DOMAIN s_req' = Replies /\ "user" \in DOMAIN s_req'[w] /\ s_req'[w].user = s_req[w].user
        /\ \A v \in Replies \ {w} : s_req'[v] = s_req[v]
    BY <1>3, <2>1
  <2> QED BY <2>2, <1>1, <1>3, <1>9 DEF S!OpenDialogue, S!At, S!Goto, S!Return, S!StoreSteps, S!PC
<1>10. ASSUME S!Classify(w) PROVE Moves
  BY <1>3, <1>10, TurnMoves DEF S!Classify, S!At, S!Goto, S!PC
<1>11. ASSUME S!GenerateNext(w) PROVE Moves
  BY <1>3, <1>11, TurnMoves DEF S!GenerateNext, S!At, S!PC
<1>12. ASSUME S!GenerateAnswer(w) PROVE Moves
  BY <1>1, <1>3, <1>12 DEF S!GenerateAnswer, S!At, S!Goto, S!Return, S!StoreSteps, S!PC
<1>13. ASSUME S!SaveTurn(w) PROVE Moves
  BY <1>1, <1>3, <1>13 DEF S!SaveTurn, S!At, S!Goto, S!Return, S!StoreSteps, S!PC
<1>14. ASSUME S!AppendRecord(w) PROVE Moves
  BY <1>1, <1>3, <1>14 DEF S!AppendRecord, S!At, S!Goto, S!Return, S!StoreSteps, S!PC
<1>15. ASSUME S!SaveLink(w) PROVE Moves
  BY <1>1, <1>3, <1>15 DEF S!SaveLink, S!At, S!Goto, S!Return, S!StoreSteps, S!PC
<1> HIDE DEF Moves
<1> QED BY <1>2, <1>3, <1>4, <1>5, <1>6, <1>7, <1>8, <1>9, <1>10, <1>11, <1>12, <1>13, <1>14, <1>15 DEF S!Continue, S!StoreFails

LEMMA NextOwner == OwnerInv /\ [S!Next]_dialogue_vars => OwnerInv'
<1>1. CASE UNCHANGED dialogue_vars
  BY <1>1 DEF dialogue_vars, OwnerInv, S!OnlyTheOwnerActs
<1>2. ASSUME OwnerInv, NEW w \in Replies, S!Begin(w) \/ S!Continue(w) PROVE OwnerInv'
  BY <1>2, BeginOwner, ContinueOwner, StepOwner
<1> QED BY <1>1, <1>2 DEF S!Next

-----------------------------------------------------------------------------
(* The platform. *)

\* A component whose container is built before it serves.
Started == target \notin D!LazyComponents \/ (target = "uc05" /\ launched = "uc05")

\* What was built could be built, and what failed could not be.
ComponentOK(c) ==
  /\ cached[c] # Never => D!Builds(c)
  /\ app[c] # "absent" => (app[c] = "failed" <=> ~D!Creates(c))
  /\ app[c] = "mounted" /\ c \notin D!LazyComponents => cached[c] = c

\* What serves was built, from the providers that were named.
CallerOK(w) ==
  /\ requests[w].pc # "idle" => process = "serving"
  /\ requests[w].pc \in {"serving", "done"} =>
       /\ D!Builds(target) /\ requests[w].bound = D!build_container(target)
       /\ requests[w].container \in D!Component \cup Callers
  /\ requests[w].pc = "done" /\ target = "uc01" =>
       \A s \in DOMAIN D!UC01_Adapters : D!resolve(D!UC01_Adapters, s) # Never

PlatformInv ==
  /\ D!DeploymentTypeOK
  /\ launched # "harness" => target = launched
  /\ DOMAIN requests = Callers
  /\ \A c \in D!Component : ComponentOK(c)
  /\ process = "serving" =>
       IF launched = "harness" THEN \A c \in D!Component : app[c] # "absent"
       ELSE app[target] = "mounted"
  /\ kept # {} => process = "serving"
  /\ \A w \in Callers : CallerOK(w)

\* A component that is started so serves from one container.
StartedInv ==
  Started =>
    /\ process = "serving" /\ app[target] = "mounted" => cached[target] = target
    /\ \A w \in Callers : /\ requests[w].pc # "building"
                          /\ requests[w].pc = "serving" =>
                               cached[target] = target /\ requests[w].container = target
    /\ \A x \in kept : x[1] = target /\ cached[target] = target

LEMMA InitPlatform == D!DeploymentInit => PlatformInv /\ StartedInv
BY DEF D!DeploymentInit, D!DeploymentTypeOK, PlatformInv, StartedInv, ComponentOK, CallerOK

\* What is built depends on the environment only.
LEMMA SameBuilds ==
  ASSUME env' = env
  PROVE  \A c : /\ D!Builds(c)' <=> D!Builds(c)
                /\ D!Creates(c)' <=> D!Creates(c)
                /\ D!build_container(c)' = D!build_container(c)
                /\ \A s : D!resolve(D!UC01_Adapters, s)' = D!resolve(D!UC01_Adapters, s)
BY DEF D!Builds, D!Creates, D!build_container, D!resolve, D!Refuses

\* An application that is created.
LEMMA CreatedPlatform ==
  ASSUME PlatformInv, StartedInv, process = "building", NEW c \in D!Component, app[c] = "absent",
         D!create_app(c), UNCHANGED <<env, launched, target, requests, kept>>,
         process' \in {"building", "serving", "refused"},
         process' = "serving" => launched = "harness" /\ \A d \in D!Component : app'[d] # "absent"
  PROVE  PlatformInv' /\ StartedInv'
<1>1. \A w \in Callers : requests[w].pc = "idle"
  BY DEF PlatformInv, CallerOK
<1>2. D!DeploymentTypeOK'
  BY DEF PlatformInv, D!DeploymentTypeOK, D!create_app
<1>3. ASSUME NEW d \in D!Component PROVE ComponentOK(d)'
  <2>1. /\ cached'[d] # Never => D!Builds(d)
        /\ app'[d] # "absent" => (app'[d] = "failed" <=> ~D!Creates(d))
        /\ app'[d] = "mounted" /\ d \notin D!LazyComponents => cached'[d] = d
    <3>1. CASE d = c
      BY <3>1 DEF PlatformInv, ComponentOK, D!DeploymentTypeOK, D!create_app, D!Creates, D!LazyComponents
    <3>2. CASE d # c
      BY <3>2 DEF PlatformInv, ComponentOK, D!DeploymentTypeOK, D!create_app
    <3> QED BY <3>1, <3>2
  <2> QED BY <2>1, SameBuilds DEF ComponentOK
<1>4. \A w \in Callers : CallerOK(w)'
  BY <1>1 DEF CallerOK
<1>5. PlatformInv'
  BY <1>2, <1>3, <1>4 DEF PlatformInv
<1>6. kept' = {}
  BY DEF PlatformInv
<1>7. Started /\ launched = "harness" => target \notin D!LazyComponents
  BY DEF Started
<1>8. target \in D!Component /\ launched' = launched /\ target' = target
  BY DEF PlatformInv, D!DeploymentTypeOK
<1>9. ComponentOK(target)'
  BY <1>3, <1>8
<1>10. ASSUME Started', process' = "serving", app'[target] = "mounted" PROVE cached'[target] = target
  BY <1>7, <1>8, <1>9, <1>10 DEF ComponentOK, Started
<1> QED BY <1>1, <1>5, <1>6, <1>8, <1>10 DEF StartedInv

LEMMA MountPlatform ==
  ASSUME PlatformInv, StartedInv, NEW i \in DOMAIN D!COMPONENTS, D!Mount(i)
  PROVE  PlatformInv' /\ StartedInv'
<1>1. D!COMPONENTS[i] \in D!Component
  BY DEF D!Component
<1>2. process' \in {"building", "serving", "refused"}
  BY DEF D!Mount
<1>3. ASSUME process' = "serving", NEW d \in D!Component PROVE app'[d] # "absent"
  <2>1. PICK j \in DOMAIN D!COMPONENTS : d = D!COMPONENTS[j]
    BY DEF D!Component
  <2>2. i = Len(D!COMPONENTS)
    BY <1>3 DEF D!Mount
  <2>3. j \in 1..i /\ i \in Nat
    BY <2>2 DEF D!COMPONENTS
  <2>4. j \in 1..(i - 1) \/ j = i
    BY <2>3
  <2>5. d = D!COMPONENTS[i] \/ app[d] # "absent"
    BY <2>1, <2>4 DEF D!Mount
  <2> QED BY <2>5, <1>1 DEF D!Mount, D!create_app, PlatformInv, D!DeploymentTypeOK
<1> QED BY <1>1, <1>2, <1>3, CreatedPlatform DEF D!Mount

LEMMA LoadPlatform ==
  ASSUME PlatformInv, StartedInv, D!Load
  PROVE  PlatformInv' /\ StartedInv'
<1>1. target \in D!Component
  BY DEF PlatformInv, D!DeploymentTypeOK
<1>2. process' \in {"building", "refused"}
  BY DEF D!Load
<1> QED BY <1>1, <1>2, CreatedPlatform DEF D!Load

LEMMA LifespanPlatform ==
  ASSUME PlatformInv, StartedInv, D!Lifespan
  PROVE  PlatformInv' /\ StartedInv'
<1>1. \A w \in Callers : requests[w].pc = "idle"
  BY DEF PlatformInv, CallerOK, D!Lifespan
<1>2. target \in D!Component /\ app \in [D!Component -> {"absent", "mounted", "failed"}]
  BY DEF PlatformInv, D!DeploymentTypeOK
<1>3. D!DeploymentTypeOK'
  BY <1>2 DEF PlatformInv, D!DeploymentTypeOK, D!Lifespan
<1>4. ASSUME NEW d \in D!Component PROVE ComponentOK(d)'
  <2>1. /\ cached'[d] # Never => D!Builds(d)
        /\ app'[d] # "absent" => (app'[d] = "failed" <=> ~D!Creates(d))
        /\ app'[d] = "mounted" /\ d \notin D!LazyComponents => cached'[d] = d
    BY <1>2 DEF PlatformInv, ComponentOK, D!DeploymentTypeOK, D!Lifespan, D!LazyComponents
  <2> QED BY <2>1, SameBuilds DEF ComponentOK, D!Lifespan
<1>5. \A w \in Callers : CallerOK(w)'
  BY <1>1 DEF CallerOK, D!Lifespan
<1>6. launched # "harness" /\ UNCHANGED <<env, launched, target, app, requests, kept>>
  <2>1. "harness" \notin D!Component
    BY DEF D!Component, D!COMPONENTS
  <2> QED BY <1>2, <2>1 DEF D!Lifespan
<1>7. kept = {}
  BY DEF PlatformInv, D!Lifespan
<1>8. PlatformInv'
  BY <1>3, <1>4, <1>5, <1>6, <1>7 DEF PlatformInv, D!Lifespan
<1>9. ASSUME Started', process' = "serving" PROVE cached'[target] = target
  <2>1. CASE target = "uc05"
    BY <1>2, <1>9, <2>1 DEF PlatformInv, D!DeploymentTypeOK, D!Lifespan
  <2>2. CASE target # "uc05"
    BY <1>2, <1>6, <1>9, <2>2 DEF Started, PlatformInv, ComponentOK, D!Lifespan
  <2> QED BY <2>1, <2>2
<1> QED BY <1>1, <1>6, <1>7, <1>8, <1>9 DEF StartedInv

\* A request moves, while the process serves; only the cache may change.
LEMMA CallerPlatform ==
  ASSUME PlatformInv, NEW w \in Callers, UNCHANGED <<env, launched, target, process, app>>,
         process = "serving",
         NEW pc \in {"idle", "building", "serving", "done", "error", "component_failed"},
         NEW container, NEW bound, D!At(w, pc, container, bound),
         pc \in {"serving", "done"} => /\ D!Builds(target) /\ bound = D!build_container(target)
                                       /\ container \in D!Component \cup Callers,
         pc = "done" /\ target = "uc01" =>
            \A s \in DOMAIN D!UC01_Adapters : D!resolve(D!UC01_Adapters, s) # Never,
         cached' = cached \/ (/\ cached[target] = Never /\ D!Builds(target)
                              /\ cached' = [cached EXCEPT ![target] = w]),
         kept' \subseteq (D!Component \cup Callers) \X Callers
  PROVE  PlatformInv'
<1>1. target \in D!Component
  BY DEF PlatformInv, D!DeploymentTypeOK
<1>2. /\ \A v \in Callers : requests'[v] = IF v = w THEN [pc |-> pc, container |-> container, bound |-> bound]
                                          ELSE requests[v]
      /\ DOMAIN requests' = Callers
  BY DEF PlatformInv, D!At
<1>3. D!DeploymentTypeOK'
  <2>1. \A v \in Callers :
          requests'[v].pc \in {"idle", "building", "serving", "done", "error", "component_failed"}
    BY <1>2 DEF PlatformInv, D!DeploymentTypeOK
  <2>2. cached' \in [D!Component -> D!Component \cup Callers \cup {Never}]
    BY <1>1 DEF PlatformInv, D!DeploymentTypeOK
  <2> QED BY <2>1, <2>2 DEF PlatformInv, D!DeploymentTypeOK
<1>4. ASSUME NEW d \in D!Component PROVE ComponentOK(d)'
  <2>1. /\ cached'[d] # Never => D!Builds(d)
        /\ app[d] = "mounted" /\ d \notin D!LazyComponents => cached'[d] = d
    BY <1>1, DeploymentAssumption DEF PlatformInv, ComponentOK, D!DeploymentTypeOK, D!DeploymentConstants
  <2> QED BY <2>1, SameBuilds DEF PlatformInv, ComponentOK
<1>5. ASSUME NEW v \in Callers PROVE CallerOK(v)'
  <2>1. CASE v = w
    BY <1>2, <2>1, SameBuilds DEF CallerOK
  <2>2. CASE v # w
    BY <1>2, <2>2, SameBuilds DEF PlatformInv, CallerOK
  <2> QED BY <2>1, <2>2
<1> QED BY <1>2, <1>3, <1>4, <1>5 DEF PlatformInv

LEMMA EnterPlatform ==
  ASSUME PlatformInv, StartedInv, NEW w \in Callers, D!Enter(w)
  PROVE  PlatformInv' /\ StartedInv'
<1>1. /\ UNCHANGED <<env, launched, target, process, app, cached, kept>> /\ process = "serving"
      /\ target \in D!Component
      /\ kept' \subseteq (D!Component \cup Callers) \X Callers
  BY DEF D!Enter, PlatformInv, D!DeploymentTypeOK
<1>0. app[target] = "failed" => cached[target] = Never
  BY <1>1 DEF PlatformInv, ComponentOK, D!Creates
<1>2. CASE app[target] = "failed" /\ D!At(w, "component_failed", Never, Never)
  <2>1. PlatformInv'
    BY <1>1, <1>2, CallerPlatform
  <2>2. StartedInv'
    BY <1>1, <1>2 DEF StartedInv, Started, D!At, PlatformInv
  <2> QED BY <2>1, <2>2
<1>3. CASE cached[target] # Never /\ app[target] # "failed"
           /\ D!At(w, "serving", cached[target], D!build_container(target))
  <2>1. PlatformInv'
    <3>1. D!Builds(target) /\ cached[target] \in D!Component \cup Callers
      BY <1>1, <1>3 DEF PlatformInv, ComponentOK, D!DeploymentTypeOK
    <3> QED BY <1>1, <1>3, <3>1, CallerPlatform
  <2>2. Started => cached[target] = target
    BY <1>1, <1>3 DEF StartedInv, PlatformInv, D!DeploymentTypeOK
  <2>3. StartedInv'
    BY <1>1, <1>3, <2>2 DEF StartedInv, Started, D!At, PlatformInv
  <2> QED BY <2>1, <2>3
<1>4. CASE cached[target] = Never /\ app[target] # "failed" /\ D!At(w, "building", Never, Never)
  <2>1. PlatformInv'
    BY <1>1, <1>4, CallerPlatform
  <2>2. ~Started
    BY <1>1, <1>4, DeploymentAssumption
       DEF StartedInv, PlatformInv, D!DeploymentTypeOK, D!DeploymentConstants
  <2>3. StartedInv'
    BY <1>1, <2>2 DEF StartedInv, Started
  <2> QED BY <2>1, <2>3
<1>5. CASE app[target] = "failed"
  BY <1>0, <1>2, <1>5 DEF D!Enter
<1>6. CASE app[target] # "failed" /\ cached[target] # Never
  BY <1>3, <1>6 DEF D!Enter
<1>7. CASE app[target] # "failed" /\ cached[target] = Never
  BY <1>4, <1>7 DEF D!Enter
<1> QED BY <1>5, <1>6, <1>7

LEMMA BuildPlatform ==
  ASSUME PlatformInv, StartedInv, NEW w \in Callers, D!Build(w)
  PROVE  PlatformInv' /\ StartedInv'
<1>1. /\ UNCHANGED <<env, launched, target, process, app, kept>> /\ process = "serving"
      /\ target \in D!Component
      /\ kept' \subseteq (D!Component \cup Callers) \X Callers
  BY DEF D!Build, PlatformInv, CallerOK, D!DeploymentTypeOK
<1>2. StartedInv'
  BY <1>1 DEF D!Build, StartedInv, Started
<1>3. CASE D!Builds(target)
  BY <1>1, <1>2, <1>3, CallerPlatform DEF D!Build
<1>4. CASE ~D!Builds(target)
  BY <1>1, <1>2, <1>4, CallerPlatform DEF D!Build
<1> QED BY <1>3, <1>4

LEMMA ServePlatform ==
  ASSUME PlatformInv, StartedInv, NEW w \in Callers, D!Serve(w)
  PROVE  PlatformInv' /\ StartedInv'
<1>1. /\ UNCHANGED <<env, launched, target, process, app, cached>> /\ process = "serving"
      /\ target \in D!Component
      /\ D!Builds(target) /\ requests[w].bound = D!build_container(target)
  BY DEF D!Serve, PlatformInv, CallerOK, D!DeploymentTypeOK
<1>2. CASE D!At(w, "error", Never, Never) /\ UNCHANGED kept
  <2>1. PlatformInv'
    BY <1>1, <1>2, CallerPlatform DEF PlatformInv, D!DeploymentTypeOK
  <2>2. StartedInv'
    BY <1>1, <1>2 DEF StartedInv, Started, D!At, PlatformInv
  <2> QED BY <2>1, <2>2
<1>3. CASE /\ D!At(w, "done", requests[w].container, requests[w].bound)
           /\ kept' = kept \cup {<<requests[w].container, w>>}
           /\ ~(target = "uc01" /\ \E s \in DOMAIN D!UC01_Adapters : D!resolve(D!UC01_Adapters, s) = Never)
  <2>1. PlatformInv'
    <3>1. requests[w].container \in D!Component \cup Callers
      BY DEF PlatformInv, CallerOK, D!Serve
    <3>2. kept' \subseteq (D!Component \cup Callers) \X Callers
      BY <1>3, <3>1 DEF PlatformInv, D!DeploymentTypeOK
    <3> QED BY <1>1, <1>3, <3>2, CallerPlatform
  <2>2. StartedInv'
    BY <1>1, <1>3 DEF StartedInv, Started, D!At, PlatformInv, D!Serve
  <2> QED BY <2>1, <2>2
<1> QED BY <1>2, <1>3 DEF D!Serve

LEMMA NextPlatform ==
  PlatformInv /\ StartedInv /\ [D!DeploymentNext]_platform_vars => PlatformInv' /\ StartedInv'
<1>1. ASSUME PlatformInv, StartedInv, UNCHANGED platform_vars PROVE PlatformInv' /\ StartedInv'
  <2>1. /\ UNCHANGED <<env, launched, target, process, app, cached, requests, kept>>
        /\ PlatformInv /\ StartedInv
    BY <1>1 DEF platform_vars
  <2>2. D!DeploymentTypeOK'
    BY <2>1 DEF PlatformInv, D!DeploymentTypeOK
  <2>3. \A c \in D!Component : ComponentOK(c)'
    BY <2>1, SameBuilds DEF PlatformInv, ComponentOK
  <2>4. \A w \in Callers : CallerOK(w)'
    BY <2>1, SameBuilds DEF PlatformInv, CallerOK
  <2> QED BY <2>1, <2>2, <2>3, <2>4 DEF PlatformInv, StartedInv, Started
<1> QED BY <1>1, MountPlatform, LoadPlatform, LifespanPlatform, EnterPlatform, BuildPlatform, ServePlatform
        DEF D!DeploymentNext

\* What comes up is what was named.
LEMMA PlatformIsHonest == PlatformInv /\ StartedInv => D!NeverFallsBack /\ D!OneStoreOnceStarted
<1> SUFFICES ASSUME PlatformInv, StartedInv PROVE D!NeverFallsBack /\ D!OneStoreOnceStarted
  OBVIOUS
<1>1. D!OneStoreOnceStarted
  BY DEF StartedInv, Started, D!OneStoreOnceStarted, D!NothingForgotten
<1>2. target \in D!Component
  BY DEF PlatformInv, D!DeploymentTypeOK
<1>3. ASSUME NEW w \in Callers, requests[w].pc = "done"
      PROVE  /\ requests[w].bound = [s \in DOMAIN D!Registry[target] |-> env.names[s]]
             /\ target = "uc01" => \A s \in DOMAIN D!UC01_Adapters : env.names[s] = "mock"
  <2>1. /\ D!Builds(target) /\ requests[w].bound = D!build_container(target)
        /\ target = "uc01" => \A s \in DOMAIN D!UC01_Adapters : D!resolve(D!UC01_Adapters, s) # Never
    BY <1>3 DEF PlatformInv, CallerOK
  <2>2. ASSUME NEW s \in DOMAIN D!Registry[target] PROVE D!build_container(target)[s] = env.names[s]
    BY <2>1 DEF D!Builds, D!build_container, D!resolve
  <2>3. requests[w].bound = [s \in DOMAIN D!Registry[target] |-> env.names[s]]
    BY <2>1, <2>2 DEF D!build_container
  <2>4. ASSUME target = "uc01", NEW s \in DOMAIN D!UC01_Adapters PROVE env.names[s] = "mock"
    <3>1. env.names[s] \in D!UC01_Adapters[s]
      BY <2>1, <2>4 DEF D!resolve
    <3> QED BY <3>1 DEF D!UC01_Adapters
  <2> QED BY <2>3, <2>4
<1>4. ASSUME launched = "harness", process = "serving", NEW c \in D!Component
      PROVE  app[c] = "failed" <=>
               /\ c # "uc05"
               /\ \E s \in DOMAIN D!Registry[c] :
                    env.names[s] \notin D!Registry[c][s] \/ D!Refuses(c, env.names[s])
  <2>1. app[c] = "failed" <=> c # "uc05" /\ ~D!Builds(c)
    BY <1>4 DEF PlatformInv, ComponentOK, D!Creates
  <2>2. ASSUME NEW s \in DOMAIN D!Registry[c]
        PROVE  (D!build_container(c)[s] # Never /\ ~D!Refuses(c, D!build_container(c)[s]))
                 <=> (env.names[s] \in D!Registry[c][s] /\ ~D!Refuses(c, env.names[s]))
    <3>1. D!build_container(c)[s] = IF env.names[s] \in D!Registry[c][s] THEN env.names[s] ELSE Never
      BY <2>2 DEF D!build_container, D!resolve
    <3>2. Never \notin D!Registry[c][s]
      BY <2>2, DeploymentAssumption DEF D!DeploymentConstants
    <3> QED BY <3>1, <3>2
  <2> QED BY <2>1, <2>2 DEF D!Builds
<1> QED BY <1>1, <1>2, <1>3, <1>4 DEF D!NeverFallsBack

-----------------------------------------------------------------------------
(* The stores that outlive their process. *)

Last == table \in {"badges", "processed_interactions"}

\* The row of a save that no other overlapped is in the file.
Has(file, s) == /\ file[s.row] # NoRow
                /\ file[s.row].first <= s.n
                /\ Last \/ s.n <= file[s.row].last

\* Nothing in it is of a save that has not begun.
Dated(file) == \A r \in Rows : file[r] # NoRow => file[r].first <= saves /\ file[r].last <= saves

\* A save under way began after every finished one that stood alone, and what
\* it is about to write has those; alone itself, it is the last to have begun.
SaverOK(w) ==
  /\ Dated(saving[w].file)
  /\ saver[w] # "idle" =>
       /\ saving[w].row \in Rows /\ saving[w].n \in 1..saves
       /\ saving[w].alone => /\ saving[w].n = saves
                             /\ \A x \in Savers \ {w} : saver[x] = "idle"
       /\ \A s \in on_disk : s.alone => s.n < saving[w].n
  /\ saver[w] \in {"write", "replace"} =>
       /\ table # "coaching_sessions"
       /\ \A s \in on_disk : s.alone => Has(saving[w].file, s)
       /\ table = "session_modes" =>
            /\ saving[w].file = disk
            /\ \A x \in Savers \ {w} : saver[x] \in {"idle", "read"}

KeptOK(s) == /\ s.alone => Has(disk, s)
             /\ table \notin K!JsonTable => disk[s.row] # NoRow

Saving == [row : Rows \cup {NoRow}, n : Nat, file : K!File, alone : BOOLEAN]

StoresType ==
  /\ table \in K!Table /\ disk \in K!File /\ saves \in 0..MaxSaves
  /\ saver \in [Savers -> {"idle", "read", "write", "replace"}]
  /\ saving \in [Savers -> Saving]
  /\ \A w \in Savers : saving[w].n \in 0..saves
  /\ on_disk \subseteq [row : Rows, n : 1..saves, alone : BOOLEAN]

StoresInv == /\ StoresType /\ Dated(disk)
             /\ \A w \in Savers : SaverOK(w)
             /\ \A s \in on_disk : KeptOK(s)

LEMMA Fresh == K!NoFile \in K!File /\ K!NoSave \in Saving /\ K!NoSave.n = 0
               /\ K!NoSave.file = K!NoFile /\ \A r \in Rows : K!NoFile[r] = NoRow
BY DEF K!NoFile, K!NoSave, K!File, Saving

LEMMA InitStores == K!DurableInit => StoresInv
<1> SUFFICES ASSUME K!DurableInit PROVE StoresInv
  OBVIOUS
<1>1. StoresType
  BY Fresh, DurableAssumption DEF K!DurableInit, StoresType, K!DurableConstants
<1>2. Dated(K!NoFile)
  BY Fresh DEF Dated
<1>3. \A w \in Savers : SaverOK(w)
  BY <1>2, Fresh DEF K!DurableInit, SaverOK
<1> QED BY <1>1, <1>2, <1>3 DEF K!DurableInit, StoresInv

\* Who stops, by returning an error or by being killed, disturbs nobody.
LEMMA StopStores ==
  ASSUME StoresInv, NEW Stopped \in SUBSET Savers, UNCHANGED <<table, disk, saves, on_disk>>,
         saver' = [w \in Savers |-> IF w \in Stopped THEN "idle" ELSE saver[w]],
         saving' = [w \in Savers |-> IF w \in Stopped THEN K!NoSave ELSE saving[w]]
  PROVE  StoresInv'
<1>1. StoresType'
  BY Fresh DEF StoresInv, StoresType
<1>2. ASSUME NEW w \in Savers PROVE SaverOK(w)'
  <2>1. CASE w \in Stopped
    BY <2>1, Fresh DEF SaverOK, Dated
  <2>2. CASE w \notin Stopped
    BY <2>2 DEF StoresInv, SaverOK, Dated, Has, Last
  <2> QED BY <2>1, <2>2
<1>3. \A s \in on_disk : KeptOK(s)'
  BY DEF StoresInv, KeptOK, Has, Last
<1> QED BY <1>1, <1>2, <1>3 DEF StoresInv, Dated

LEMMA RaiseStores ==
  ASSUME StoresInv, NEW w \in Savers, K!Raise(w), UNCHANGED <<table, saves>>
  PROVE  StoresInv'
<1>1. /\ saver' = [x \in Savers |-> IF x \in {w} THEN "idle" ELSE saver[x]]
      /\ saving' = [x \in Savers |-> IF x \in {w} THEN K!NoSave ELSE saving[x]]
      /\ UNCHANGED <<disk, on_disk>>
  BY DEF K!Raise, K!Goto, StoresInv, StoresType
<1> QED BY <1>1, StopStores

LEMMA RestartStores ==
  ASSUME StoresInv, K!Restart
  PROVE  StoresInv'
<1>1. /\ saver' = [x \in Savers |-> IF x \in Savers THEN "idle" ELSE saver[x]]
      /\ saving' = [x \in Savers |-> IF x \in Savers THEN K!NoSave ELSE saving[x]]
      /\ UNCHANGED <<table, saves, disk, on_disk>>
  BY DEF K!Restart
<1> QED BY <1>1, StopStores

LEMMA BeginSaveStores ==
  ASSUME StoresInv, NEW w \in Savers, NEW row \in Rows, K!BeginSave(w, row)
  PROVE  StoresInv'
<1> DEFINE busy == {x \in Savers \ {w} : saver[x] # "idle"}
           began == [K!NoSave EXCEPT !.row = row, !.n = saves + 1, !.alone = busy = {}]
<1>1. /\ saves \in Nat /\ saves' = saves + 1 /\ saver[w] = "idle" /\ saves' \in 0..MaxSaves
      /\ UNCHANGED <<table, disk, on_disk>>
      /\ saver' = [saver EXCEPT ![w] = "read"]
  <2>1. saves' = saves + 1 /\ saves < MaxSaves /\ saver[w] = "idle" /\ UNCHANGED <<table, disk, on_disk>>
    BY DEF K!BeginSave
  <2>2. saver' = [saver EXCEPT ![w] = "read"]
    BY DEF K!BeginSave, K!Goto
  <2>3. MaxSaves \in Nat /\ saves \in 0..MaxSaves
    BY DurableAssumption DEF K!DurableConstants, StoresInv, StoresType
  <2> QED BY <2>1, <2>2, <2>3
<1>2. /\ began \in Saving /\ began.row = row /\ began.n = saves + 1 /\ began.file = K!NoFile
      /\ began.alone <=> busy = {}
  <2>1. PICK b \in BOOLEAN : b = (busy = {})
    <3>1. CASE busy = {}
      <4>1. TRUE = (busy = {})
        BY <3>1
      <4> QED BY <4>1
    <3>2. CASE busy # {}
      <4>1. FALSE = (busy = {})
        BY <3>2
      <4> QED BY <4>1
    <3> QED BY <3>1, <3>2
  <2>2. began = [K!NoSave EXCEPT !.row = row, !.n = saves + 1, !.alone = b]
    BY ONLY <2>1 DEF began
  <2> HIDE DEF busy, began
  <2>3. began = [row |-> row, n |-> saves + 1, file |-> K!NoFile, alone |-> b]
    BY <2>2 DEF K!NoSave
  <2>4. saves + 1 \in Nat /\ row \in Rows \cup {NoRow} /\ K!NoFile \in K!File
    BY <1>1, Fresh
  <2>5. began \in Saving
    BY <2>3, <2>4 DEF Saving
  <2>6. began.alone = b
    BY <2>3
  <2> QED BY <2>1, <2>3, <2>5, <2>6
<1> HIDE DEF began
<1>3. \A x \in Savers :
        /\ x = w => saving'[x] = began
        /\ x \in busy => /\ saving'[x] \in Saving
                         /\ saving'[x].row = saving[x].row /\ saving'[x].n = saving[x].n
                         /\ saving'[x].file = saving[x].file /\ ~saving'[x].alone
        /\ x # w /\ x \notin busy => saving'[x] = saving[x]
  <2>1. saving' = [x \in Savers |-> CASE x = w -> began
                                      [] x \in busy -> [saving[x] EXCEPT !.alone = FALSE]
                                      [] OTHER -> saving[x]]
    BY DEF K!BeginSave, began
  <2>2. \A x \in Savers : saving[x] \in Saving
    BY DEF StoresInv, StoresType
  <2> QED BY <2>1, <2>2 DEF Saving
<1>4. saving' \in [Savers -> Saving]
  <2>1. \A x \in Savers : saving'[x] \in Saving
    BY <1>2, <1>3 DEF StoresInv, StoresType
  <2>2. saving' = [x \in Savers |-> saving'[x]]
    BY DEF K!BeginSave
  <2> QED BY <2>1, <2>2
<1>5. StoresType'
  <2>1. \A x \in Savers : saving'[x].n \in 0..saves'
    BY <1>1, <1>2, <1>3 DEF StoresInv, StoresType
  <2>2. on_disk' \subseteq [row : Rows, n : 1..saves', alone : BOOLEAN]
    BY <1>1 DEF StoresInv, StoresType
  <2> QED BY <1>1, <1>4, <2>1, <2>2 DEF StoresInv, StoresType
<1>6. ASSUME NEW file \in K!File, Dated(file) PROVE Dated(file)'
  BY <1>1, <1>6 DEF Dated, K!File, K!Row
<1>7. ASSUME NEW file, NEW s PROVE Has(file, s)' <=> Has(file, s)
  BY <1>1 DEF Has, Last
<1>8. ASSUME NEW x \in Savers PROVE SaverOK(x)'
  <2>1. SaverOK(x) /\ saving[x].file \in K!File /\ saving[x].n \in 0..saves
    BY DEF StoresInv, StoresType, Saving
  <2>2. \A s \in on_disk : s.n \in 1..saves
    BY DEF StoresInv, StoresType
  <2>3. CASE x = w
    <3>1. Dated(K!NoFile)'
      BY Fresh DEF Dated
    <3> QED BY <1>1, <1>2, <1>3, <2>2, <2>3, <3>1 DEF SaverOK
  <2>4. CASE x \in busy
    BY <1>1, <1>3, <1>6, <1>7, <2>1, <2>4 DEF SaverOK
  <2>5. CASE x # w /\ x \notin busy
    BY <1>1, <1>3, <1>6, <2>1, <2>5 DEF SaverOK, StoresInv, StoresType
  <2> QED BY <2>3, <2>4, <2>5
<1>9. \A s \in on_disk : KeptOK(s)'
  BY <1>1, <1>7 DEF StoresInv, KeptOK
<1>10. Dated(disk)'
  BY <1>1, <1>6 DEF StoresInv, StoresType
<1> QED BY <1>1, <1>5, <1>8, <1>9, <1>10 DEF StoresInv

\* A save writes its row, and what is there of others stays.
LEMMA SavedRow ==
  ASSUME StoresType, NEW file \in K!File, Dated(file), NEW row \in Rows, NEW n \in 1..saves
  PROVE  LET new == K!Saved(file, row, n)
         IN  /\ new \in K!File /\ Dated(new) /\ new[row] # NoRow
             /\ \A r \in Rows : file[r] # NoRow => new[r] # NoRow
             /\ \A s \in on_disk : s.n < n /\ Has(file, s) => Has(new, s)
             /\ n = saves => new[row].first <= n /\ (Last \/ n <= new[row].last)
<1> DEFINE new == K!Saved(file, row, n)
           fresh == [first |-> n, last |-> n]
           later == [file[row] EXCEPT !.last = n]
<1>1. n \in Nat \ {0} /\ n <= saves /\ saves \in Nat
  BY DurableAssumption DEF StoresType, K!DurableConstants
<1>2. fresh \in K!Row /\ fresh.first = n /\ fresh.last = n
  BY <1>1 DEF K!Row
<1>3. ASSUME file[row] # NoRow
      PROVE  /\ file[row] \in K!Row /\ later \in K!Row
             /\ later.first = file[row].first /\ later.last = n
             /\ file[row].first <= saves /\ file[row].last <= saves
  BY <1>1, <1>3 DEF K!Row, K!File, Dated
<1>4. NoRow \notin K!Row
  BY DurableAssumption DEF K!DurableConstants
<1>5. new \in K!File
  BY <1>2, <1>3 DEF K!Saved, K!File
<1>6. /\ \A r \in Rows \ {row} : new[r] = file[r]
      /\ new[row] = IF file[row] = NoRow THEN fresh ELSE IF Last THEN file[row] ELSE later
  BY DEF K!Saved, K!File, Last
<1> HIDE DEF new, fresh, later
<1>7. new[row] # NoRow /\ \A r \in Rows : file[r] # NoRow => new[r] # NoRow
  BY <1>2, <1>3, <1>4, <1>6
<1>8. Dated(new)
  BY <1>1, <1>2, <1>3, <1>6 DEF Dated
<1>9. ASSUME NEW s \in on_disk, s.n < n, Has(file, s) PROVE Has(new, s)
  <2>1. s.row \in Rows /\ s.n \in Nat
    BY DEF StoresType
  <2>2. CASE s.row = row
    <3>1. file[row] # NoRow /\ file[row].first <= s.n /\ (Last \/ s.n <= file[row].last)
      BY <1>9, <2>2 DEF Has
    <3>2. new[row].first = file[row].first /\ (Last \/ new[row].last = n)
      BY <1>3, <1>6, <3>1
    <3> QED BY <1>1, <1>7, <1>9, <2>1, <2>2, <3>1, <3>2 DEF Has
  <2>3. CASE s.row # row
    BY <1>6, <1>9, <2>1, <2>3 DEF Has
  <2> QED BY <2>2, <2>3
<1>10. n = saves => new[row].first <= n /\ (Last \/ n <= new[row].last)
  BY <1>1, <1>2, <1>3, <1>6
<1> QED BY <1>5, <1>7, <1>8, <1>9, <1>10 DEF new

\* A save returns.
LEMMA ReturnStores ==
  ASSUME StoresInv, NEW w \in Savers, saver[w] # "idle", K!Return(w), UNCHANGED <<table, saves>>,
         disk' \in K!File, Dated(disk'),
         \A r \in Rows : disk[r] # NoRow /\ table \notin K!JsonTable => disk'[r] # NoRow,
         \A s \in on_disk : s.alone /\ Has(disk, s) => Has(disk', s),
         saving[w].alone \/ table \notin K!JsonTable => disk'[saving[w].row] # NoRow,
         saving[w].alone => /\ disk'[saving[w].row].first <= saving[w].n
                            /\ Last \/ saving[w].n <= disk'[saving[w].row].last,
         UNCHANGED disk \/ table # "session_modes"
                        \/ \A x \in Savers \ {w} : saver[x] \notin {"write", "replace"}
  PROVE  StoresInv'
<1> DEFINE e == [row |-> saving[w].row, n |-> saving[w].n, alone |-> saving[w].alone]
<1>1. /\ saver' = [saver EXCEPT ![w] = "idle"] /\ saving' = [saving EXCEPT ![w] = K!NoSave]
      /\ on_disk' = on_disk \cup {e}
  BY DEF K!Return, K!Goto
<1>2. /\ saving[w] \in Saving /\ saving[w].row \in Rows /\ saving[w].n \in 1..saves
      /\ saving[w].alone => \A x \in Savers \ {w} : saver[x] = "idle"
  BY DEF StoresInv, StoresType, SaverOK
<1>3. e \in [row : Rows, n : 1..saves, alone : BOOLEAN]
  BY <1>2 DEF Saving
<1>4. e.row = saving[w].row /\ e.n = saving[w].n /\ e.alone = saving[w].alone
  OBVIOUS
<1> HIDE DEF e
<1>5. StoresType'
  BY <1>1, <1>3, Fresh DEF StoresInv, StoresType
<1>7. ASSUME NEW s \in on_disk' PROVE KeptOK(s)'
  <2>1. CASE s \in on_disk
    <3>1. s.row \in Rows
      BY <2>1 DEF StoresInv, StoresType
    <3>2. s.alone => Has(disk', s)
      BY <2>1 DEF StoresInv, KeptOK
    <3>3. table \notin K!JsonTable => disk'[s.row] # NoRow
      BY <2>1, <3>1 DEF StoresInv, KeptOK
    <3> QED BY <3>2, <3>3 DEF KeptOK, Has, Last
  <2>2. CASE s = e
    BY <1>4, <2>2 DEF KeptOK, Has, Last
  <2> QED BY <1>1, <2>1, <2>2
<1>8. ASSUME NEW x \in Savers PROVE SaverOK(x)'
  <2>1. CASE x = w
    BY <1>1, <2>1, Fresh DEF SaverOK, Dated, StoresInv, StoresType
  <2>2. CASE x # w
    <3>1. saver'[x] = saver[x] /\ saving'[x] = saving[x] /\ SaverOK(x)
      BY <1>1, <2>2 DEF StoresInv, StoresType
    <3>2. ASSUME saver[x] # "idle", NEW s \in on_disk', s.alone
          PROVE  /\ s.n < saving[x].n
                 /\ saver[x] \in {"write", "replace"} => Has(saving[x].file, s)
      <4>1. s \in on_disk
        BY <1>1, <1>2, <1>4, <2>2, <3>2
      <4> QED BY <3>1, <3>2, <4>1 DEF SaverOK
    <3>3. ASSUME NEW s PROVE Has(saving[x].file, s)' <=> Has(saving[x].file, s)
      BY <3>1 DEF Has, Last
    <3>4. Dated(saving[x].file)'
      BY <3>1 DEF SaverOK, Dated
    <3>5. ASSUME saver[x] # "idle"
          PROVE  saving[x].alone => /\ saving[x].n = saves
                                    /\ \A y \in Savers \ {x} : saver'[y] = "idle"
      BY <1>1, <3>1, <3>5 DEF SaverOK, StoresInv, StoresType
    <3>6. ASSUME saver[x] \in {"write", "replace"}, table = "session_modes"
          PROVE  saving[x].file = disk' /\ \A y \in Savers \ {x} : saver'[y] \in {"idle", "read"}
      BY <1>1, <2>2, <3>1, <3>6 DEF SaverOK, StoresInv, StoresType
    <3> QED BY <3>1, <3>2, <3>3, <3>4, <3>5, <3>6 DEF SaverOK
  <2> QED BY <2>1, <2>2
<1> QED BY <1>5, <1>7, <1>8 DEF StoresInv, Dated

\* A save goes on, with the file it has read.
LEMMA GoOnStores ==
  ASSUME StoresInv, NEW w \in Savers, saver[w] # "idle", table # "coaching_sessions",
         NEW label \in {"write", "replace"}, saver' = [saver EXCEPT ![w] = label],
         NEW file \in K!File, saving' = [saving EXCEPT ![w].file = file], Dated(file),
         \A s \in on_disk : s.alone => Has(file, s),
         table = "session_modes" => /\ file = disk
                                    /\ \A x \in Savers \ {w} : saver[x] \in {"idle", "read"},
         UNCHANGED <<table, disk, saves, on_disk>>
  PROVE  StoresInv'
<1>1. saving[w] \in Saving /\ SaverOK(w) /\ w \in DOMAIN saver /\ w \in DOMAIN saving
  BY DEF StoresInv, StoresType
<1>2. /\ saving'[w] \in Saving /\ saving'[w].file = file /\ saving'[w].row = saving[w].row
      /\ saving'[w].n = saving[w].n /\ saving'[w].alone = saving[w].alone
  BY <1>1 DEF Saving
<1>3. \A x \in Savers \ {w} : saving'[x] = saving[x] /\ saver'[x] = saver[x]
  BY DEF StoresInv, StoresType
<1>4. StoresType'
  <2>1. saving' \in [Savers -> Saving]
    BY <1>2 DEF StoresInv, StoresType
  <2> QED BY <1>2, <1>3, <2>1 DEF StoresInv, StoresType
<1>6. ASSUME NEW x \in Savers PROVE SaverOK(x)'
  <2>1. SaverOK(x)
    BY DEF StoresInv
  <2>2. CASE x = w
    <3>1. Dated(saving[w].file)'
      BY <1>2 DEF Dated
    <3>2. \A s \in on_disk : s.alone => Has(saving[w].file, s)'
      BY <1>2 DEF Has, Last
    <3>3. \A y \in Savers \ {w} : saver'[y] = saver[y]
      BY <1>3
    <3> QED BY <1>1, <1>2, <2>2, <3>1, <3>2, <3>3 DEF SaverOK
  <2>3. CASE x # w
    <3>1. Dated(saving[x].file)'
      BY <1>3, <2>1, <2>3 DEF SaverOK, Dated
    <3>2. \A s \in on_disk : Has(saving[x].file, s)' <=> Has(saving[x].file, s)
      BY <1>3, <2>3 DEF Has, Last
    <3>3. saving[x].alone => saver[x] = "idle"
      BY <2>1, <2>3 DEF SaverOK
    <3>4. saver[x] \in {"write", "replace"} => table # "session_modes"
      BY <2>3
    <3> QED BY <1>3, <2>1, <2>3, <3>1, <3>2, <3>3, <3>4 DEF SaverOK
  <2> QED BY <2>2, <2>3
<1>7. \A s \in on_disk : KeptOK(s)'
  BY DEF StoresInv, KeptOK, Has, Last
<1> QED BY <1>4, <1>6, <1>7 DEF StoresInv, Dated

LEMMA ReadFileStores ==
  ASSUME StoresInv, NEW w \in Savers, K!ReadFile(w)
  PROVE  StoresInv'
<1>1. /\ saver[w] = "read" /\ table # "coaching_sessions" /\ UNCHANGED <<table, saves>>
      /\ table = "session_modes" => \A x \in Savers : saver[x] \in {"idle", "read"}
  BY DEF K!ReadFile
<1>2. /\ disk \in K!File /\ Dated(disk) /\ SaverOK(w) /\ saving[w].row \in Rows
      /\ \A s \in on_disk : s.alone => Has(disk, s)
  BY <1>1 DEF StoresInv, StoresType, SaverOK, KeptOK
<1>3. CASE K!Raise(w)
  BY <1>1, <1>3, RaiseStores
<1>4. CASE table = "processed_interactions" /\ disk[saving[w].row] # NoRow /\ K!Return(w) /\ UNCHANGED disk
  <2>1. Last
    BY <1>4 DEF Last
  <2>2. saving[w].alone => disk[saving[w].row].first <= saving[w].n
    BY <1>1, <1>2, <1>4 DEF SaverOK, Dated
  <2>3. UNCHANGED Last
    BY <1>1 DEF Last
  <2> QED BY <1>1, <1>2, <1>4, <2>1, <2>2, <2>3, ReturnStores DEF Dated, Has
<1>5. CASE K!Goto(w, "write") /\ saving' = [saving EXCEPT ![w].file = disk] /\ UNCHANGED <<disk, on_disk>>
  BY <1>1, <1>2, <1>5, GoOnStores DEF K!Goto
<1> QED BY <1>3, <1>4, <1>5 DEF K!ReadFile

LEMMA WriteTemporaryStores ==
  ASSUME StoresInv, NEW w \in Savers, K!WriteTemporary(w)
  PROVE  StoresInv'
<1>1. saver[w] = "write" /\ UNCHANGED <<table, saves>>
  BY DEF K!WriteTemporary
<1>2. CASE K!Raise(w)
  BY <1>1, <1>2, RaiseStores
<1>3. CASE K!Goto(w, "replace") /\ UNCHANGED <<disk, saving, on_disk>>
  <2>1. /\ saving[w].file \in K!File /\ SaverOK(w) /\ saving[w] \in Saving
    BY DEF StoresInv, StoresType, Saving
  <2>2. saving' = [saving EXCEPT ![w].file = saving[w].file]
    BY <1>3, <2>1 DEF StoresInv, StoresType, Saving
  <2> QED BY <1>1, <1>3, <2>1, <2>2, GoOnStores DEF K!Goto, SaverOK
<1> QED BY <1>2, <1>3 DEF K!WriteTemporary

\* What is written, of a file that has what stood alone, is the row and all that.
LEMMA WrittenStores ==
  ASSUME StoresInv, NEW w \in Savers, saver[w] # "idle", UNCHANGED <<table, saves>>,
         NEW file \in K!File, Dated(file), \A s \in on_disk : s.alone => Has(file, s),
         K!Return(w), disk' = K!Saved(file, saving[w].row, saving[w].n),
         table \notin K!JsonTable => file = disk,
         table # "session_modes" \/ \A x \in Savers \ {w} : saver[x] \notin {"write", "replace"}
  PROVE  StoresInv'
<1>1. /\ StoresType /\ SaverOK(w) /\ saving[w].row \in Rows /\ saving[w].n \in 1..saves
      /\ \A s \in on_disk : s.alone => s.n < saving[w].n
      /\ saving[w].alone => saving[w].n = saves
  BY DEF StoresInv, SaverOK
<1>2. /\ disk' \in K!File /\ Dated(disk') /\ disk'[saving[w].row] # NoRow
      /\ \A r \in Rows : file[r] # NoRow => disk'[r] # NoRow
      /\ \A s \in on_disk : s.n < saving[w].n /\ Has(file, s) => Has(disk', s)
      /\ saving[w].n = saves => /\ disk'[saving[w].row].first <= saving[w].n
                                /\ Last \/ saving[w].n <= disk'[saving[w].row].last
  BY <1>1, SavedRow
<1>3. \A s \in on_disk : s.alone => Has(disk', s)
  BY <1>1, <1>2
<1> QED BY <1>1, <1>2, <1>3, ReturnStores

LEMMA ReplaceStores ==
  ASSUME StoresInv, NEW w \in Savers, K!Replace(w)
  PROVE  StoresInv'
<1>1. saver[w] = "replace" /\ UNCHANGED <<table, saves>>
  BY DEF K!Replace
<1>2. CASE K!Raise(w)
  BY <1>1, <1>2, RaiseStores
<1>3. CASE K!Return(w) /\ disk' = K!Saved(saving[w].file, saving[w].row, saving[w].n)
  <2>1. SaverOK(w) /\ saving[w].file \in K!File /\ table \in K!Table
    BY DEF StoresInv, StoresType, Saving
  <2>2. /\ Dated(saving[w].file) /\ \A s \in on_disk : s.alone => Has(saving[w].file, s)
        /\ table # "coaching_sessions"
        /\ table = "session_modes" =>
             saving[w].file = disk /\ \A x \in Savers \ {w} : saver[x] \in {"idle", "read"}
    BY <1>1, <2>1 DEF SaverOK
  <2>3. table \notin K!JsonTable => table = "session_modes"
    BY <2>1, <2>2 DEF K!Table
  <2> QED BY <1>1, <1>3, <2>1, <2>2, <2>3, WrittenStores
<1> QED BY <1>2, <1>3 DEF K!Replace

LEMMA ExecuteStores ==
  ASSUME StoresInv, NEW w \in Savers, K!Execute(w)
  PROVE  StoresInv'
<1>1. saver[w] = "read" /\ table = "coaching_sessions" /\ UNCHANGED <<table, saves>>
  BY DEF K!Execute
<1>2. CASE K!Raise(w)
  BY <1>1, <1>2, RaiseStores
<1>3. CASE K!Return(w) /\ disk' = K!Saved(disk, saving[w].row, saving[w].n)
  <2>1. disk \in K!File /\ Dated(disk) /\ \A s \in on_disk : s.alone => Has(disk, s)
    BY DEF StoresInv, StoresType, KeptOK
  <2> QED BY <1>1, <1>3, <2>1, WrittenStores
<1> QED BY <1>2, <1>3 DEF K!Execute

LEMMA NextStores == StoresInv /\ [K!DurableNext]_store_vars => StoresInv'
<1>1. ASSUME StoresInv, UNCHANGED store_vars PROVE StoresInv'
  <2>1. /\ UNCHANGED <<table, disk, saves, saver, saving, on_disk>> /\ StoresInv
    BY <1>1 DEF store_vars
  <2>2. \A w \in Savers : SaverOK(w)'
    BY <2>1 DEF StoresInv, SaverOK, Dated, Has, Last
  <2>3. \A s \in on_disk : KeptOK(s)'
    BY <2>1 DEF StoresInv, KeptOK, Has, Last
  <2> QED BY <2>1, <2>2, <2>3 DEF StoresInv, StoresType, Dated
<1> QED BY <1>1, BeginSaveStores, ReadFileStores, WriteTemporaryStores, ReplaceStores, ExecuteStores,
        RestartStores DEF K!DurableNext

LEMMA StoresKeep == StoresInv => K!SavedStaysSaved /\ K!DurableTypeOK
<1> SUFFICES ASSUME StoresInv PROVE K!SavedStaysSaved /\ K!DurableTypeOK
  OBVIOUS
<1>1. disk # Half
  BY DurableAssumption DEF K!DurableConstants, StoresInv, StoresType
<1>2. K!SavedStaysSaved
  BY <1>1 DEF K!SavedStaysSaved, StoresInv, KeptOK, Has, Last
<1>3. K!DurableTypeOK
  BY DEF K!DurableTypeOK, StoresInv, StoresType, Saving
<1> QED BY <1>2, <1>3

-----------------------------------------------------------------------------
(* The opening of a session.  An attempt touches nothing of another's, so  *)
(* everything is said of the values of one.                                *)

TypesOf(e) == {e[i].event_type : i \in DOMAIN e}
DegradedOf(e) == {e[i].about : i \in {k \in DOMAIN e : e[k].event_type = "session.dependency_degraded"}}

Codes == {"session_initialization_failed", "selection_not_allowed", "selection_required",
          "selection_not_accessible", "dependency_unavailable", "session_mode_unavailable"}
EventType == [event_type : {"session.initializing", "session.dependency_degraded", "session.mode_downgraded",
                            "session.opened", "session.failed"},
              about : O!SessionMode \cup O!DependencyName \cup Codes]
ErrorType == [failure_code : Codes, available_modes : (SUBSET O!SessionMode) \cup {Absent}]
Dependencies == UNION {[known -> O!DependencyState] : known \in SUBSET O!DependencyName}
Job == [command : O!Command \cup {Absent}, record : O!Record \cup {Absent}, dependencies : Dependencies,
        assessment : O!Assessments, error : ErrorType \cup {Absent}]

\* What the record in memory says is what the log says and what was found.
HandOK(e, j) ==
  /\ j.command \in O!Command /\ j.record \in O!Record
  /\ j.record.requested_mode = j.command.mode /\ j.record.failure_code = Absent
  /\ "session.failed" \notin TypesOf(e) /\ "session.opened" \notin TypesOf(e)
  /\ j.record.degraded_dependencies = DegradedOf(e)
  /\ j.record.downgraded_from # Absent <=> "session.mode_downgraded" \in TypesOf(e)
  /\ \A d \in DegradedOf(e) :
       /\ d \in DOMAIN j.dependencies /\ O!is_degraded(j.dependencies[d])
       /\ d \in {"courses", "cases"} => j.dependencies[d] = "unavailable"
       /\ d = "naric" => j.assessment # "complete"

Running == {"initializing", "profile", "naric", "resolved", "catalogue", "selection", "refusal", "finish", "opened"}

\* What has been asked by now.
Asked(form, s) ==
  CASE s \in {"initializing", "profile"} -> {}
    [] s = "naric" -> {"profile"}
    [] s \in {"resolved", "catalogue"} -> {"profile", "naric"}
    [] s = "selection" -> {"profile", "naric", O!catalogue_of(form)}
    [] OTHER -> {"profile", "naric", "courses", "cases"}

PlaceOK(r, e, j, s) ==
  LET form == j.command.mode
      record == j.record
  IN /\ s \notin {"finish", "opened"} => /\ DOMAIN j.dependencies = Asked(form, s)
                                         /\ record.linked_resource = Absent /\ record.downgraded_from = Absent
     /\ s = "initializing" => e = <<>>
     /\ s # "opened" => record.session_type = form
     /\ s \in {"catalogue", "selection", "refusal"} => form # "free-form"
     /\ s \in {"catalogue", "selection", "refusal", "finish", "opened"} =>
          record.naric_level_source =
            O!resolve_naric_level(j.assessment, j.command.continue_without_calibration)
     /\ s = "refusal" => j.dependencies[O!catalogue_of(form)] \in {"unavailable", "empty"}
     /\ s = "finish" => (record.linked_resource # Absent <=> form # "free-form" /\ record.downgraded_from = Absent)
     /\ s = "opened" => /\ r = record
                        /\ record.linked_resource # Absent <=> record.session_type # "free-form"
                        /\ record.status = "degraded" =>
                             record.degraded_dependencies # {} \/ record.downgraded_from # Absent

\* An error to be told.
ErrorOK(e, j) ==
  /\ j.command \in O!Command /\ j.record \in O!Record /\ j.error \in ErrorType
  /\ j.record.requested_mode = j.command.mode /\ "session.opened" \notin TypesOf(e)
  /\ j.error.available_modes # Absent =>
       /\ j.command.mode \notin j.error.available_modes
       /\ \A m \in j.error.available_modes \ {"free-form"} : O!catalogue_of(m) \notin DegradedOf(e)

\* The bodies of OpenedIsRecorded and FailureIsRecorded.
OpenedOK(r, e, t) ==
  /\ r = t.record /\ r.failure_code = Absent
  /\ "session.failed" \notin TypesOf(e) /\ e[Len(e)].event_type = "session.opened"
  /\ r.degraded_dependencies = DegradedOf(e)
  /\ r.downgraded_from # Absent <=> "session.mode_downgraded" \in TypesOf(e)
  /\ r.linked_resource # Absent <=> r.session_type # "free-form"
  /\ r.status = "degraded" => t.notices # {}

FailedOK(r, e, t, f) ==
  "session.initializing" \in TypesOf(e) /\ "mark_failed" \notin f =>
    /\ r.status = "failed" /\ r.failure_code = t.error.failure_code
    /\ "session.opened" \notin TypesOf(e)
    /\ "session.failed" \in TypesOf(e) \/ "failed" \in f
    /\ t.error.available_modes # Absent =>
         r.requested_mode \notin t.error.available_modes
         /\ \A m \in t.error.available_modes \ {"free-form"} : O!catalogue_of(m) \notin DegradedOf(e)

AttemptOK(r, e, t, f, j, s) ==
  /\ s # "answered" => t = Absent
  /\ s = "idle" => e = <<>>
  /\ s \in Running => HandOK(e, j) /\ PlaceOK(r, e, j, s)
  /\ s = "failing" => ErrorOK(e, j)
  /\ s = "failed" => ErrorOK(e, j) /\ r = j.record /\ r.status = "failed"
                     /\ r.failure_code = j.error.failure_code
  /\ s = "answered" => IF t.ok THEN OpenedOK(r, e, t) ELSE FailedOK(r, e, t, f)

OpeningType ==
  /\ records \in [Attempts -> O!Record \cup {Absent}]
  /\ events \in [Attempts -> Seq(EventType)]
  /\ told = [a \in Attempts |-> told[a]] /\ refused = [a \in Attempts |-> refused[a]]
  /\ job \in [Attempts -> Job]
  /\ step \in [Attempts -> Running \cup {"idle", "failing", "failed", "answered", "dead"}]

OpeningInv ==
  /\ OpeningType
  /\ \A a \in Attempts : AttemptOK(records[a], events[a], told[a], refused[a], job[a], step[a])

\* One more event.
LEMMA OneMoreEvent ==
  ASSUME NEW e \in Seq(EventType), NEW x \in EventType
  PROVE  /\ Append(e, x) \in Seq(EventType)
         /\ TypesOf(Append(e, x)) = TypesOf(e) \cup {x.event_type}
         /\ DegradedOf(Append(e, x)) =
              DegradedOf(e) \cup (IF x.event_type = "session.dependency_degraded" THEN {x.about} ELSE {})
         /\ Append(e, x)[Len(Append(e, x))] = x
<1>1. /\ Append(e, x) \in Seq(EventType) /\ Len(e) \in Nat /\ DOMAIN e = 1..Len(e)
      /\ DOMAIN Append(e, x) = 1..(Len(e) + 1) /\ Len(Append(e, x)) = Len(e) + 1
      /\ \A i \in 1..Len(e) : Append(e, x)[i] = e[i]
      /\ Append(e, x)[Len(e) + 1] = x
  BY AppendProperties
<1>2. 1..(Len(e) + 1) = 1..Len(e) \cup {Len(e) + 1}
  BY <1>1
<1>3. \A i \in DOMAIN e : Append(e, x)[i] = e[i]
  BY <1>1
<1>4. DOMAIN Append(e, x) = DOMAIN e \cup {Len(e) + 1}
  BY <1>1, <1>2
<1>5. TypesOf(Append(e, x)) = TypesOf(e) \cup {x.event_type}
  BY <1>1, <1>3, <1>4 DEF TypesOf
<1>6. DegradedOf(Append(e, x)) =
        DegradedOf(e) \cup (IF x.event_type = "session.dependency_degraded" THEN {x.about} ELSE {})
  BY <1>1, <1>3, <1>4 DEF DegradedOf
<1> QED BY <1>1, <1>5, <1>6

\* One that is not of a dependency.
LEMMA OneOtherEvent ==
  ASSUME NEW e \in Seq(EventType), NEW x \in EventType, x.event_type # "session.dependency_degraded"
  PROVE  /\ Append(e, x) \in Seq(EventType)
         /\ TypesOf(Append(e, x)) = TypesOf(e) \cup {x.event_type}
         /\ DegradedOf(Append(e, x)) = DegradedOf(e)
         /\ Append(e, x)[Len(Append(e, x))] = x
BY OneMoreEvent

LEMMA NoEvents == TypesOf(<<>>) = {} /\ DegradedOf(<<>>) = {} /\ <<>> \in Seq(EventType)
BY DEF TypesOf, DegradedOf

LEMMA NothingAsked == O!NoJob \in Job /\ O!NoJob.dependencies = <<>> /\ DOMAIN O!NoJob.dependencies = {}
<1>1. <<>> \in [{} -> O!DependencyState] /\ DOMAIN <<>> = {}
  OBVIOUS
<1>2. <<>> \in Dependencies
  BY <1>1 DEF Dependencies
<1> QED BY <1>1, <1>2 DEF O!NoJob, Job, O!Assessments

LEMMA InitOpening == O!OpeningInit => OpeningInv
<1> SUFFICES ASSUME O!OpeningInit PROVE OpeningInv
  OBVIOUS
<1>1. OpeningType
  BY NothingAsked, NoEvents DEF O!OpeningInit, OpeningType
<1> QED BY <1>1 DEF O!OpeningInit, OpeningInv, AttemptOK, Running

Step == Running \cup {"idle", "failing", "failed", "answered", "dead"}

\* What a step of an attempt makes of it.
Becomes(a, r, e, t, f, j, s) ==
  /\ records' = [records EXCEPT ![a] = r] /\ events' = [events EXCEPT ![a] = e]
  /\ told' = [told EXCEPT ![a] = t] /\ refused' = [refused EXCEPT ![a] = f]
  /\ job' = [job EXCEPT ![a] = j] /\ step' = [step EXCEPT ![a] = s]

LEMMA BecomesOpening ==
  ASSUME OpeningInv, NEW a \in Attempts, NEW r \in O!Record \cup {Absent}, NEW e \in Seq(EventType),
         NEW t, NEW f, NEW j \in Job, NEW s \in Step,
         Becomes(a, r, e, t, f, j, s), AttemptOK(r, e, t, f, j, s)
  PROVE  OpeningInv'
<1>1. OpeningType'
  BY DEF OpeningInv, OpeningType, Becomes, Step
<1>2. /\ records'[a] = r /\ events'[a] = e /\ told'[a] = t /\ refused'[a] = f /\ job'[a] = j /\ step'[a] = s
      /\ \A b \in Attempts \ {a} :
           /\ records'[b] = records[b] /\ events'[b] = events[b] /\ told'[b] = told[b]
           /\ refused'[b] = refused[b] /\ job'[b] = job[b] /\ step'[b] = step[b]
  BY DEF OpeningInv, OpeningType, Becomes
<1>3. ASSUME NEW b \in Attempts
      PROVE  AttemptOK(records'[b], events'[b], told'[b], refused'[b], job'[b], step'[b])
  <2>1. CASE b = a
    BY <1>2, <2>1
  <2>2. CASE b # a
    BY <1>2, <2>2 DEF OpeningInv
  <2> QED BY <2>1, <2>2
<1>4. ASSUME NEW b \in Attempts
      PROVE  AttemptOK(records[b], events[b], told[b], refused[b], job[b], step[b])'
  BY <1>3 DEF AttemptOK, HandOK, PlaceOK, ErrorOK, OpenedOK, FailedOK
<1> QED BY <1>1, <1>4 DEF OpeningInv

\* A variable that is left alone.
LEMMA Unmoved ==
  ASSUME OpeningType, NEW a \in Attempts
  PROVE  /\ records = [records EXCEPT ![a] = records[a]] /\ events = [events EXCEPT ![a] = events[a]]
         /\ told = [told EXCEPT ![a] = told[a]] /\ refused = [refused EXCEPT ![a] = refused[a]]
         /\ job = [job EXCEPT ![a] = job[a]] /\ step = [step EXCEPT ![a] = step[a]]
<1>1. told = [told EXCEPT ![a] = told[a]]
  BY DEF OpeningType
<1>2. refused = [refused EXCEPT ![a] = refused[a]]
  BY DEF OpeningType
<1> QED BY <1>1, <1>2 DEF OpeningType

\* The attempt as it is.
LEMMA AsItIs ==
  ASSUME OpeningInv, NEW a \in Attempts
  PROVE  /\ records[a] \in O!Record \cup {Absent} /\ events[a] \in Seq(EventType) /\ job[a] \in Job
         /\ step[a] \in Step
         /\ AttemptOK(records[a], events[a], told[a], refused[a], job[a], step[a])
         /\ step[a] # "answered" => told[a] = Absent
BY DEF OpeningInv, OpeningType, AttemptOK, Step

\* An error that closes the attempt's way: no record is touched.
LEMMA FailsOpening ==
  ASSUME OpeningInv, NEW a \in Attempts, step[a] \in Running, NEW j \in Job, NEW f, NEW error \in ErrorType,
         j.command = job[a].command, j.record \in O!Record, j.record.requested_mode = j.command.mode,
         error.available_modes # Absent =>
           /\ j.command.mode \notin error.available_modes
           /\ \A m \in error.available_modes \ {"free-form"} : O!catalogue_of(m) \notin DegradedOf(events[a]),
         O!Fails(a, j, error), UNCHANGED <<records, events>>,
         refused' = [refused EXCEPT ![a] = f]
  PROVE  OpeningInv'
<1>1. OpeningType /\ HandOK(events[a], job[a])
  BY AsItIs DEF OpeningInv, AttemptOK
<1> DEFINE k == [j EXCEPT !.error = error]
<1>2. k \in Job /\ k.command = j.command /\ k.record = j.record /\ k.error = error
  BY DEF Job
<1>3. ErrorOK(events[a], k)
  BY <1>1, <1>2 DEF ErrorOK, HandOK
<1>4. AttemptOK(records[a], events[a], told[a], f, k, "failing")
  BY <1>3, AsItIs DEF AttemptOK, Running
<1>5. Becomes(a, records[a], events[a], told[a], f, k, "failing")
  BY <1>1, Unmoved DEF O!Fails, O!Goto, Becomes
<1> HIDE DEF k
<1> QED BY <1>2, <1>4, <1>5, AsItIs, BecomesOpening DEF Step

LEMMA UnexpectedTyped == O!Unexpected \in ErrorType /\ O!Unexpected.available_modes = Absent
BY DEF O!Unexpected, ErrorType, Codes

\* An error that is told at once.
LEMMA AnswersOpening ==
  ASSUME OpeningInv, NEW a \in Attempts, NEW r \in O!Record \cup {Absent}, NEW e \in Seq(EventType),
         NEW f, NEW j \in Job, NEW error,
         records' = [records EXCEPT ![a] = r], events' = [events EXCEPT ![a] = e],
         refused' = [refused EXCEPT ![a] = f], job' = [job EXCEPT ![a] = j],
         O!AnswersError(a, error),
         \A t : t.error = error => FailedOK(r, e, t, f)
  PROVE  OpeningInv'
<1> DEFINE t == [ok |-> FALSE, record |-> Absent, notices |-> {}, error |-> error]
<1>1. t.ok = FALSE /\ t.error = error
  OBVIOUS
<1>2. Becomes(a, r, e, t, f, j, "answered")
  BY DEF O!AnswersError, O!Goto, Becomes
<1> HIDE DEF t
<1>3. AttemptOK(r, e, t, f, j, "answered")
  BY <1>1 DEF AttemptOK, Running
<1> QED BY <1>2, <1>3, BecomesOpening DEF Step

LEMMA CreateRecordOpening ==
  ASSUME OpeningInv, NEW a \in Attempts, O!CreateRecord(a)
  PROVE  OpeningInv'
<1>0. step[a] = "idle" /\ OpeningType /\ events[a] = <<>> /\ told[a] = Absent
  BY AsItIs DEF O!CreateRecord, O!At, OpeningInv, AttemptOK
<1>1. PICK command \in Commands :
        LET record == O!NewRecord(command) IN
        /\ job' = [job EXCEPT ![a] = [O!NoJob EXCEPT !.command = command, !.record = record]]
        /\ \/ /\ records' = [records EXCEPT ![a] = record]
              /\ O!Goto(a, "initializing") /\ UNCHANGED <<events, refused, told>>
           \/ O!Refuses(a, "create") /\ O!AnswersError(a, O!Unexpected)
  BY DEF O!CreateRecord
<1> DEFINE record == O!NewRecord(command)
           j == [O!NoJob EXCEPT !.command = command, !.record = record]
<1>2. command \in O!Command /\ command.mode \in O!SessionMode
  BY OpeningAssumption DEF O!OpeningConstants, O!Command
<1>3. /\ record \in O!Record /\ record.requested_mode = command.mode /\ record.failure_code = Absent
      /\ record.session_type = command.mode /\ record.linked_resource = Absent
      /\ record.downgraded_from = Absent /\ record.degraded_dependencies = {}
  BY <1>2 DEF O!NewRecord, O!Record
<1> HIDE DEF record
<1>4. j \in Job /\ j.command = command /\ j.record = record /\ DOMAIN j.dependencies = {}
  <2>1. j = [O!NoJob EXCEPT !.command = command, !.record = record]
    OBVIOUS
  <2> HIDE DEF j
  <2> QED BY <1>2, <1>3, <2>1, NothingAsked DEF Job
<1>5. job' = [job EXCEPT ![a] = j]
  BY <1>1 DEF record
<1> HIDE DEF j
<1>6. CASE /\ records' = [records EXCEPT ![a] = record]
           /\ O!Goto(a, "initializing") /\ UNCHANGED <<events, refused, told>>
  <2>1. Becomes(a, record, <<>>, Absent, refused[a], j, "initializing")
    BY <1>0, <1>5, <1>6, Unmoved DEF O!Goto, Becomes
  <2>2. HandOK(<<>>, j)
    BY <1>2, <1>3, <1>4, NoEvents DEF HandOK
  <2>3. PlaceOK(record, <<>>, j, "initializing")
    BY <1>2, <1>3, <1>4 DEF PlaceOK, Asked
  <2>4. AttemptOK(record, <<>>, Absent, refused[a], j, "initializing")
    BY <2>2, <2>3 DEF AttemptOK
  <2> QED BY <1>3, <1>4, <2>1, <2>4, NoEvents, BecomesOpening DEF Step, Running
<1>7. CASE O!Refuses(a, "create") /\ O!AnswersError(a, O!Unexpected)
  <2>1. \A t, f : FailedOK(records[a], <<>>, t, f)
    BY NoEvents DEF FailedOK
  <2>2. records' = [records EXCEPT ![a] = records[a]] /\ events' = [events EXCEPT ![a] = <<>>]
    BY <1>0, <1>7, Unmoved DEF O!Refuses
  <2>3. refused' = [refused EXCEPT ![a] = refused[a] \cup {"create"}]
    BY <1>7 DEF O!Refuses
  <2> QED BY <1>4, <1>5, <1>7, <2>1, <2>2, <2>3, NoEvents, AsItIs, AnswersOpening
<1> QED BY <1>1, <1>6, <1>7 DEF record

LEMMA AppendInitializingOpening ==
  ASSUME OpeningInv, NEW a \in Attempts, O!AppendInitializing(a)
  PROVE  OpeningInv'
<1>0. step[a] = "initializing" /\ OpeningType /\ told[a] = Absent /\ UNCHANGED job
  BY AsItIs DEF O!AppendInitializing, O!At, OpeningInv
<1>1. HandOK(events[a], job[a]) /\ PlaceOK(records[a], events[a], job[a], "initializing") /\ events[a] = <<>>
  BY <1>0, AsItIs DEF AttemptOK, Running, PlaceOK
<1>2. CASE /\ O!Appended(a, O!Event("session.initializing", O!Command_(a).mode))
           /\ O!Goto(a, "profile") /\ UNCHANGED <<records, told>>
  <2> DEFINE x == O!Event("session.initializing", O!Command_(a).mode)
             e == Append(events[a], x)
  <2>1. x \in EventType /\ x.event_type = "session.initializing"
    <3>1. O!Command_(a).mode \in O!SessionMode
      BY <1>1 DEF HandOK, O!Command_, O!Command
    <3> QED BY <3>1 DEF O!Event, EventType
  <2> HIDE DEF x
  <2>2. e \in Seq(EventType) /\ TypesOf(e) = {"session.initializing"} /\ DegradedOf(e) = {}
    <3>1. x.event_type # "session.dependency_degraded"
      BY <2>1
    <3>2. events[a] \in Seq(EventType)
      BY <1>1, NoEvents
    <3>3. e \in Seq(EventType) /\ TypesOf(e) = TypesOf(events[a]) \cup {x.event_type}
          /\ DegradedOf(e) = DegradedOf(events[a])
      BY <2>1, <3>1, <3>2, OneOtherEvent
    <3> HIDE DEF e
    <3> QED BY <1>1, <2>1, <3>3, NoEvents
  <2>3. Becomes(a, records[a], e, Absent, refused[a], job[a], "profile")
    BY <1>0, <1>2, Unmoved DEF O!Appended, O!Goto, Becomes, x
  <2> HIDE DEF e
  <2>4. HandOK(e, job[a])
    BY <1>1, <2>2, NoEvents DEF HandOK
  <2>5. PlaceOK(records[a], e, job[a], "profile")
    BY <1>1 DEF PlaceOK, Asked
  <2>6. AttemptOK(records[a], e, Absent, refused[a], job[a], "profile")
    BY <2>4, <2>5 DEF AttemptOK
  <2> QED BY <2>2, <2>3, <2>6, AsItIs, BecomesOpening DEF Step, Running
<1>3. CASE O!Refuses(a, "initializing") /\ O!AnswersError(a, O!Unexpected)
  <2>1. \A t, f : FailedOK(records[a], events[a], t, f)
    BY <1>1, NoEvents DEF FailedOK
  <2>2. /\ records' = [records EXCEPT ![a] = records[a]] /\ events' = [events EXCEPT ![a] = events[a]]
        /\ job' = [job EXCEPT ![a] = job[a]]
    BY <1>0, <1>3, Unmoved DEF O!Refuses
  <2>3. refused' = [refused EXCEPT ![a] = refused[a] \cup {"initializing"}]
    BY <1>3 DEF O!Refuses
  <2> QED BY <1>3, <2>1, <2>2, <2>3, AsItIs, AnswersOpening
<1> QED BY <1>2, <1>3 DEF O!AppendInitializing

\* What is known of the dependencies, once one more has answered.
LEMMA OneMoreKnown ==
  ASSUME NEW a \in Attempts, job[a].dependencies \in Dependencies, NEW d \in O!DependencyName,
         NEW state \in O!DependencyState
  PROVE  /\ O!Known(a, d, state) \in Dependencies
         /\ DOMAIN O!Known(a, d, state) = DOMAIN job[a].dependencies \cup {d}
         /\ O!Known(a, d, state)[d] = state
         /\ \A x \in DOMAIN job[a].dependencies \ {d} : O!Known(a, d, state)[x] = job[a].dependencies[x]
<1> DEFINE known == O!Known(a, d, state)
<1>1. PICK before \in SUBSET O!DependencyName : job[a].dependencies \in [before -> O!DependencyState]
  BY DEF Dependencies
<1>2. /\ known = [x \in before \cup {d} |-> IF x = d THEN state ELSE job[a].dependencies[x]]
      /\ DOMAIN job[a].dependencies = before
  BY <1>1 DEF O!Known
<1> HIDE DEF known
<1>3. known \in [before \cup {d} -> O!DependencyState] /\ before \cup {d} \in SUBSET O!DependencyName
  BY <1>1, <1>2
<1>4. known \in Dependencies
  BY <1>3 DEF Dependencies
<1>5. /\ known \in Dependencies /\ DOMAIN known = DOMAIN job[a].dependencies \cup {d}
      /\ known[d] = state
      /\ \A x \in DOMAIN job[a].dependencies \ {d} : known[x] = job[a].dependencies[x]
  BY <1>2, <1>4
<1> QED BY <1>5 DEF known

\* A dependency has answered: it is noted if it is degraded.
LEMMA NoteOpening ==
  ASSUME OpeningInv, NEW a \in Attempts, step[a] \in Running, step[a] # "opened",
         NEW d \in O!DependencyName, NEW state \in O!DependencyState, NEW j \in Job,
         NEW next \in Running \ {"initializing", "finish", "opened"},
         j.command = job[a].command, j.record = job[a].record,
         j.dependencies = O!Known(a, d, state), d \notin DOMAIN job[a].dependencies,
         d # "naric" => j.assessment = job[a].assessment,
         d = "naric" /\ O!is_degraded(state) => j.assessment # "complete",
         d \in {"courses", "cases"} => state # "incomplete",
         PlaceOK(records[a], events[a], j, next),
         O!note_dependency(a, j, d, state, next)
  PROVE  OpeningInv'
<1>0. OpeningType /\ HandOK(events[a], job[a]) /\ told[a] = Absent /\ job[a] \in Job /\ events[a] \in Seq(EventType)
  BY AsItIs DEF OpeningInv, AttemptOK, Running
<1>1. /\ j.dependencies \in Dependencies /\ DOMAIN j.dependencies = DOMAIN job[a].dependencies \cup {d}
      /\ j.dependencies[d] = state
      /\ \A x \in DOMAIN job[a].dependencies \ {d} : j.dependencies[x] = job[a].dependencies[x]
  <2>1. job[a].dependencies \in Dependencies
    BY <1>0 DEF Job
  <2> QED BY <2>1, OneMoreKnown
<1>2. d \notin DegradedOf(events[a]) /\ d \notin j.record.degraded_dependencies
  BY <1>0 DEF HandOK
<1>3. HandOK(events[a], j)
  <2>1. ASSUME NEW x \in DegradedOf(events[a])
        PROVE  /\ x \in DOMAIN j.dependencies /\ O!is_degraded(j.dependencies[x])
               /\ x \in {"courses", "cases"} => j.dependencies[x] = "unavailable"
               /\ x = "naric" => j.assessment # "complete"
    BY <1>0, <1>1, <1>2 DEF HandOK
  <2> QED BY <1>0, <2>1 DEF HandOK
<1> DEFINE x == O!Event("session.dependency_degraded", d)
           e == Append(events[a], x)
           noted == [j EXCEPT !.record.degraded_dependencies = @ \cup {d}]
<1>4. j.record \in O!Record /\ j.command \in O!Command
  BY <1>3 DEF HandOK
<1>5. PICK record \in O!Record :
        /\ record = [j.record EXCEPT !.degraded_dependencies = @ \cup {d}]
        /\ noted = [j EXCEPT !.record = record]
  <2>1. [j.record EXCEPT !.degraded_dependencies = @ \cup {d}] \in O!Record
    BY <1>4 DEF O!Record
  <2>2. noted = [j EXCEPT !.record = [j.record EXCEPT !.degraded_dependencies = @ \cup {d}]]
    OBVIOUS
  <2> QED BY <2>1, <2>2
<1>6. /\ record.degraded_dependencies = j.record.degraded_dependencies \cup {d}
      /\ record.session_type = j.record.session_type /\ record.requested_mode = j.record.requested_mode
      /\ record.downgraded_from = j.record.downgraded_from
      /\ record.linked_resource = j.record.linked_resource
      /\ record.naric_level_source = j.record.naric_level_source /\ record.failure_code = j.record.failure_code
  BY <1>4, <1>5 DEF O!Record
<1>7. /\ noted \in Job /\ noted.record = record /\ noted.command = j.command
      /\ noted.dependencies = j.dependencies /\ noted.assessment = j.assessment
  BY <1>5 DEF Job
<1> HIDE DEF noted
<1>8. CASE ~(O!is_degraded(state) /\ d \notin j.record.degraded_dependencies)
  <2>1. Becomes(a, records[a], events[a], Absent, refused[a], j, next)
    BY <1>0, <1>8, Unmoved DEF O!note_dependency, O!Goto, Becomes
  <2>2. AttemptOK(records[a], events[a], Absent, refused[a], j, next)
    BY <1>3 DEF AttemptOK, Running
  <2> QED BY <2>1, <2>2, AsItIs, BecomesOpening DEF Step
<1>9. CASE /\ O!is_degraded(state) /\ O!Appended(a, x) /\ job' = [job EXCEPT ![a] = noted]
           /\ O!Goto(a, next) /\ UNCHANGED <<records, told>>
  <2>1. x \in EventType /\ x.event_type = "session.dependency_degraded" /\ x.about = d
    BY DEF O!Event, EventType
  <2> HIDE DEF x
  <2>2. e \in Seq(EventType) /\ DegradedOf(e) = DegradedOf(events[a]) \cup {d}
        /\ TypesOf(e) = TypesOf(events[a]) \cup {"session.dependency_degraded"}
    BY <1>0, <2>1, OneMoreEvent
  <2>3. Becomes(a, records[a], e, Absent, refused[a], noted, next)
    BY <1>0, <1>9, Unmoved DEF O!Appended, O!Goto, Becomes
  <2> HIDE DEF e
  <2>4. HandOK(e, noted)
    <3>1. ASSUME NEW y \in DegradedOf(e)
          PROVE  /\ y \in DOMAIN j.dependencies /\ O!is_degraded(j.dependencies[y])
                 /\ y \in {"courses", "cases"} => j.dependencies[y] = "unavailable"
                 /\ y = "naric" => j.assessment # "complete"
      <4>1. CASE y \in DegradedOf(events[a])
        BY <1>3, <4>1 DEF HandOK
      <4>2. CASE y = d
        BY <1>1, <1>9, <4>2 DEF O!is_degraded
      <4> QED BY <2>2, <4>1, <4>2
    <3> QED BY <1>3, <1>6, <1>7, <2>2, <3>1 DEF HandOK
  <2>5. PlaceOK(records[a], e, noted, next)
    BY <1>6, <1>7 DEF PlaceOK
  <2>6. AttemptOK(records[a], e, Absent, refused[a], noted, next)
    BY <2>4, <2>5 DEF AttemptOK, Running
  <2> QED BY <1>7, <2>2, <2>3, <2>6, AsItIs, BecomesOpening DEF Step
<1>10. CASE O!Refuses(a, d) /\ O!Fails(a, noted, O!Unexpected)
  <2>1. noted.record.requested_mode = noted.command.mode
    BY <1>3, <1>6, <1>7 DEF HandOK
  <2>2. refused' = [refused EXCEPT ![a] = refused[a] \cup {d}] /\ UNCHANGED <<records, events>>
    BY <1>10 DEF O!Refuses
  <2> QED BY <1>7, <1>10, <2>1, <2>2, UnexpectedTyped, FailsOpening
<1> QED BY <1>2, <1>8, <1>9, <1>10 DEF O!note_dependency, noted

LEMMA LoadProfileOpening ==
  ASSUME OpeningInv, NEW a \in Attempts, O!LoadProfile(a)
  PROVE  OpeningInv'
<1>0. step[a] = "profile"
  BY DEF O!LoadProfile, O!At
<1>1. PICK state \in O!ProfileStates :
        O!note_dependency(a, [job[a] EXCEPT !.dependencies = O!Known(a, "profile", state)],
                          "profile", state, "naric")
  BY DEF O!LoadProfile
<1> DEFINE j == [job[a] EXCEPT !.dependencies = O!Known(a, "profile", state)]
<1>2. /\ job[a] \in Job /\ job[a].dependencies \in Dependencies /\ HandOK(events[a], job[a])
      /\ PlaceOK(records[a], events[a], job[a], "profile")
  BY <1>0, AsItIs DEF Job, AttemptOK, Running
<1>3. state \in O!DependencyState /\ "profile" \in O!DependencyName /\ "profile" \in Running
      /\ "naric" \in Running
  BY DEF O!ProfileStates, O!DependencyState, O!DependencyName, Running
<1>4. DOMAIN job[a].dependencies = {}
  BY <1>2 DEF PlaceOK, Asked
<1>5. /\ O!Known(a, "profile", state) \in Dependencies
      /\ DOMAIN O!Known(a, "profile", state) = {"profile"}
  <2>1. ASSUME NEW d \in O!DependencyName, d = "profile"
        PROVE  /\ O!Known(a, d, state) \in Dependencies
               /\ DOMAIN O!Known(a, d, state) = DOMAIN job[a].dependencies \cup {d}
    BY <1>2, <1>3, OneMoreKnown
  <2> QED BY <1>3, <1>4, <2>1
<1>6. /\ j \in Job /\ j.command = job[a].command /\ j.record = job[a].record
      /\ j.dependencies = O!Known(a, "profile", state) /\ j.assessment = job[a].assessment
  BY <1>2, <1>5 DEF Job
<1>7. O!note_dependency(a, j, "profile", state, "naric")
  BY <1>1
<1> HIDE DEF j
<1>8. DOMAIN j.dependencies = Asked(j.command.mode, "naric")
  BY <1>5, <1>6 DEF Asked
<1>9. PlaceOK(records[a], events[a], j, "naric")
  BY <1>2, <1>6, <1>8 DEF PlaceOK
<1>10. "naric" \in Running \ {"initializing", "finish", "opened"} /\ step[a] # "opened"
  BY <1>0, <1>3
<1> QED BY <1>0, <1>3, <1>4, <1>6, <1>7, <1>9, <1>10, NoteOpening

LEMMA LoadNaricOpening ==
  ASSUME OpeningInv, NEW a \in Attempts, O!LoadNaric(a)
  PROVE  OpeningInv'
<1>0. step[a] = "naric"
  BY DEF O!LoadNaric, O!At
<1>1. PICK assessment \in O!Assessments :
        O!note_dependency(a, [job[a] EXCEPT
                                !.dependencies = O!Known(a, "naric", O!naric_state(assessment)),
                                !.assessment = assessment],
                          "naric", O!naric_state(assessment), "resolved")
  BY DEF O!LoadNaric
<1> DEFINE state == O!naric_state(assessment)
           j == [job[a] EXCEPT !.dependencies = O!Known(a, "naric", state), !.assessment = assessment]
<1>2. /\ job[a] \in Job /\ job[a].dependencies \in Dependencies /\ HandOK(events[a], job[a])
      /\ PlaceOK(records[a], events[a], job[a], "naric")
  BY <1>0, AsItIs DEF Job, AttemptOK, Running
<1>3. /\ state \in O!DependencyState /\ "naric" \in O!DependencyName /\ "naric" \in Running
      /\ "resolved" \in Running
      /\ O!is_degraded(state) => assessment # "complete"
  BY DEF O!naric_state, O!Assessments, O!DependencyState, O!DependencyName, Running, O!is_degraded
<1>4. DOMAIN job[a].dependencies = {"profile"}
  BY <1>2 DEF PlaceOK, Asked
<1> HIDE DEF state
<1>5. /\ O!Known(a, "naric", state) \in Dependencies
      /\ DOMAIN O!Known(a, "naric", state) = {"profile", "naric"}
  <2>1. ASSUME NEW d \in O!DependencyName, d = "naric"
        PROVE  /\ O!Known(a, d, state) \in Dependencies
               /\ DOMAIN O!Known(a, d, state) = DOMAIN job[a].dependencies \cup {d}
    BY <1>2, <1>3, OneMoreKnown
  <2> QED BY <1>3, <1>4, <2>1
<1>6. /\ j \in Job /\ j.command = job[a].command /\ j.record = job[a].record
      /\ j.dependencies = O!Known(a, "naric", state) /\ j.assessment = assessment
  BY <1>2, <1>5 DEF Job
<1>7. O!note_dependency(a, j, "naric", state, "resolved")
  BY <1>1 DEF state
<1> HIDE DEF j
<1>8. DOMAIN j.dependencies = Asked(j.command.mode, "resolved")
  BY <1>5, <1>6 DEF Asked
<1>9. PlaceOK(records[a], events[a], j, "resolved")
  BY <1>2, <1>6, <1>8 DEF PlaceOK
<1>10. "resolved" \in Running \ {"initializing", "finish", "opened"} /\ step[a] # "opened"
  BY <1>0, <1>3
<1> QED BY <1>0, <1>3, <1>4, <1>6, <1>7, <1>9, <1>10, NoteOpening

\* A catalogue is asked for, the mode's or the other.
LEMMA CatalogueOpening ==
  ASSUME OpeningInv, NEW a \in Attempts, NEW d \in {"courses", "cases"}, NEW state \in O!CatalogueStates,
         O!note_dependency(a, [job[a] EXCEPT !.dependencies = O!Known(a, d, state)], d, state,
                           IF step[a] = "catalogue" THEN "selection" ELSE "refusal"),
         \/ step[a] = "catalogue" /\ d = O!catalogue_of(job[a].command.mode)
         \/ step[a] = "selection" /\ d # O!catalogue_of(job[a].command.mode) /\ ~O!Available(a)
  PROVE  OpeningInv'
<1> DEFINE j == [job[a] EXCEPT !.dependencies = O!Known(a, d, state)]
           next == IF step[a] = "catalogue" THEN "selection" ELSE "refusal"
<1>1. /\ job[a] \in Job /\ job[a].dependencies \in Dependencies /\ HandOK(events[a], job[a])
      /\ PlaceOK(records[a], events[a], job[a], step[a])
  BY AsItIs DEF Job, AttemptOK, Running
<1>2. /\ state \in O!DependencyState /\ d \in O!DependencyName /\ step[a] \in Running
      /\ next \in Running \ {"initializing", "finish", "opened"} /\ state # "incomplete" /\ d # "naric"
      /\ step[a] # "opened"
  BY DEF O!CatalogueStates, O!DependencyState, O!DependencyName, Running
<1>3. /\ DOMAIN job[a].dependencies = Asked(job[a].command.mode, step[a]) /\ d \notin DOMAIN job[a].dependencies
      /\ job[a].command.mode \in {"course-linked", "case-linked"}
  BY <1>1 DEF PlaceOK, Asked, HandOK, O!Command, O!SessionMode, O!catalogue_of
<1>4. /\ O!Known(a, d, state) \in Dependencies
      /\ DOMAIN O!Known(a, d, state) = DOMAIN job[a].dependencies \cup {d}
      /\ \A x \in DOMAIN job[a].dependencies \ {d} : O!Known(a, d, state)[x] = job[a].dependencies[x]
  <2>1. job[a].dependencies \in Dependencies /\ d \in O!DependencyName /\ state \in O!DependencyState
    BY <1>1, <1>2
  <2> HIDE DEF j, next
  <2> QED BY ONLY <2>1, OneMoreKnown
<1>5. /\ j \in Job /\ j.command = job[a].command /\ j.record = job[a].record
      /\ j.dependencies = O!Known(a, d, state) /\ j.assessment = job[a].assessment
  BY <1>1, <1>4 DEF Job
<1>6. O!note_dependency(a, j, d, state, next)
  OBVIOUS
<1> HIDE DEF j
<1>7. DOMAIN j.dependencies = Asked(j.command.mode, next)
  BY <1>3, <1>4, <1>5 DEF Asked, O!catalogue_of
<1>8. next = "refusal" => j.dependencies[O!catalogue_of(j.command.mode)] \in {"unavailable", "empty"}
  <2> SUFFICES ASSUME step[a] = "selection"
               PROVE  j.dependencies[O!catalogue_of(j.command.mode)] \in {"unavailable", "empty"}
    BY <1>2
  <2> DEFINE own == O!catalogue_of(job[a].command.mode)
  <2>1. own \in DOMAIN job[a].dependencies /\ own # d
    BY <1>3 DEF Asked, O!catalogue_of
  <2>2. job[a].dependencies[own] \in {"unavailable", "empty"}
    BY <1>3, <2>1 DEF O!Available, O!evaluate_mode_availability, O!Command_, O!SessionMode, O!catalogue_of
  <2> QED BY <1>4, <1>5, <2>1, <2>2
<1>9. PlaceOK(records[a], events[a], j, next)
  BY <1>1, <1>2, <1>5, <1>7, <1>8 DEF PlaceOK
<1> HIDE DEF next
<1> QED BY <1>2, <1>3, <1>5, <1>6, <1>9, NoteOpening

LEMMA LoadCatalogueOpening ==
  ASSUME OpeningInv, NEW a \in Attempts, O!LoadCatalogue(a)
  PROVE  OpeningInv'
<1>1. PICK d \in {"courses", "cases"} : d = O!catalogue_of(job[a].command.mode)
  BY DEF O!catalogue_of
<1>2. PICK state \in O!CatalogueStates :
        O!note_dependency(a, [job[a] EXCEPT !.dependencies = O!Known(a, d, state)], d, state, "selection")
  BY <1>1 DEF O!LoadCatalogue, O!Command_
<1>3. step[a] = "catalogue"
  BY <1>1 DEF O!LoadCatalogue, O!At, O!catalogue_of
<1>4. (IF step[a] = "catalogue" THEN "selection" ELSE "refusal") = "selection"
  BY <1>3
<1> QED BY <1>1, <1>2, <1>3, <1>4, CatalogueOpening

LEMMA EnsureCataloguesOpening ==
  ASSUME OpeningInv, NEW a \in Attempts, O!EnsureCatalogues(a)
  PROVE  OpeningInv'
<1>1. PICK d \in {"courses", "cases"} : d = IF job[a].command.mode = "course-linked" THEN "cases" ELSE "courses"
  BY DEF O!catalogue_of
<1>2. PICK state \in O!CatalogueStates :
        O!note_dependency(a, [job[a] EXCEPT !.dependencies = O!Known(a, d, state)], d, state, "refusal")
  BY <1>1 DEF O!EnsureCatalogues, O!Command_
<1>3. step[a] = "selection" /\ ~O!Available(a) /\ d # O!catalogue_of(job[a].command.mode)
  BY <1>1 DEF O!EnsureCatalogues, O!At, O!catalogue_of
<1>4. (IF step[a] = "catalogue" THEN "selection" ELSE "refusal") = "refusal"
  BY <1>3
<1> QED BY <1>1, <1>2, <1>3, <1>4, CatalogueOpening

LEMMA ResolveLevelOpening ==
  ASSUME OpeningInv, NEW a \in Attempts, O!ResolveLevel(a)
  PROVE  OpeningInv'
<1>0. step[a] = "resolved" /\ UNCHANGED <<records, events, refused>> /\ told[a] = Absent /\ OpeningType
  BY AsItIs DEF O!ResolveLevel, O!At, OpeningInv
<1>1. /\ job[a] \in Job /\ HandOK(events[a], job[a]) /\ PlaceOK(records[a], events[a], job[a], "resolved")
  BY <1>0, AsItIs DEF AttemptOK, Running
<1> DEFINE command == O!Command_(a)
           source == O!resolve_naric_level(job[a].assessment, command.continue_without_calibration)
           j == [job[a] EXCEPT !.record.naric_level_source = source]
           error == [failure_code |-> "selection_not_allowed", available_modes |-> Absent]
           next == IF command.mode = "free-form" THEN "finish" ELSE "catalogue"
<1>2. \/ O!Fails(a, j, error)
      \/ job' = [job EXCEPT ![a] = j] /\ O!Goto(a, next) /\ UNCHANGED told
  BY DEF O!ResolveLevel
<1>3. command = job[a].command /\ job[a].record \in O!Record /\ command \in O!Command
  BY <1>1 DEF O!Command_, HandOK
<1>4. source \in {"naric", "default", "default_user_acknowledged"}
  BY <1>3 DEF O!resolve_naric_level, O!Command
<1>5. source = O!resolve_naric_level(job[a].assessment, job[a].command.continue_without_calibration)
  BY <1>3
<1> HIDE DEF source
<1>6. PICK record \in O!Record :
        /\ record = [job[a].record EXCEPT !.naric_level_source = source]
        /\ j = [job[a] EXCEPT !.record = record]
  <2>1. [job[a].record EXCEPT !.naric_level_source = source] \in O!Record
    BY <1>3, <1>4 DEF O!Record
  <2>2. j = [job[a] EXCEPT !.record = [job[a].record EXCEPT !.naric_level_source = source]]
    OBVIOUS
  <2> QED BY <2>1, <2>2
<1>7. /\ record.naric_level_source = source
      /\ record.degraded_dependencies = job[a].record.degraded_dependencies
      /\ record.session_type = job[a].record.session_type
      /\ record.requested_mode = job[a].record.requested_mode
      /\ record.downgraded_from = job[a].record.downgraded_from
      /\ record.linked_resource = job[a].record.linked_resource
      /\ record.failure_code = job[a].record.failure_code
  BY <1>3, <1>6 DEF O!Record
<1>8. /\ j \in Job /\ j.record = record /\ j.command = job[a].command
      /\ j.dependencies = job[a].dependencies /\ j.assessment = job[a].assessment
  BY <1>1, <1>6 DEF Job
<1> HIDE DEF j
<1>9. HandOK(events[a], j)
  BY <1>1, <1>7, <1>8 DEF HandOK
<1>10. CASE O!Fails(a, j, error)
  <2>1. error \in ErrorType /\ error.available_modes = Absent
    BY DEF ErrorType, Codes
  <2>2. refused' = [refused EXCEPT ![a] = refused[a]]
    BY <1>0, Unmoved
  <2> HIDE DEF error
  <2> QED BY <1>0, <1>8, <1>9, <1>10, <2>1, <2>2, FailsOpening DEF HandOK, Running
<1>11. CASE job' = [job EXCEPT ![a] = j] /\ O!Goto(a, next) /\ UNCHANGED told
  <2>1. next \in {"finish", "catalogue"} /\ (next = "finish" <=> j.command.mode = "free-form")
    BY <1>3, <1>8
  <2> HIDE DEF next
  <2>2. PlaceOK(records[a], events[a], j, next)
    BY <1>1, <1>5, <1>7, <1>8, <2>1 DEF PlaceOK, Asked
  <2>3. Becomes(a, records[a], events[a], Absent, refused[a], j, next)
    BY <1>0, <1>11, Unmoved DEF O!Goto, Becomes
  <2>4. AttemptOK(records[a], events[a], Absent, refused[a], j, next)
    BY <1>9, <2>1, <2>2 DEF AttemptOK, Running
  <2> QED BY <1>8, <2>1, <2>3, <2>4, AsItIs, BecomesOpening DEF Step, Running
<1> QED BY <1>2, <1>10, <1>11

\* An error told at a place of the handler, and no record touched.
LEMMA ErrorsOpening ==
  ASSUME OpeningInv, NEW a \in Attempts, step[a] \in Running, NEW error \in ErrorType,
         O!Fails(a, job[a], error), UNCHANGED <<records, events, refused>>,
         error.available_modes # Absent =>
           /\ job[a].command.mode \notin error.available_modes
           /\ \A m \in error.available_modes \ {"free-form"} : O!catalogue_of(m) \notin DegradedOf(events[a])
  PROVE  OpeningInv'
<1>1. job[a] \in Job /\ HandOK(events[a], job[a]) /\ OpeningType
  BY AsItIs DEF AttemptOK, OpeningInv
<1>2. refused' = [refused EXCEPT ![a] = refused[a]]
  BY <1>1, Unmoved
<1> QED BY <1>1, <1>2, FailsOpening DEF HandOK

LEMMA ResolveSelectionOpening ==
  ASSUME OpeningInv, NEW a \in Attempts, O!ResolveSelection(a)
  PROVE  OpeningInv'
<1>0. /\ step[a] = "selection" /\ UNCHANGED <<records, events, refused>> /\ told[a] = Absent /\ OpeningType
      /\ step[a] \in Running
  BY AsItIs DEF O!ResolveSelection, O!At, OpeningInv, Running
<1>1. /\ job[a] \in Job /\ HandOK(events[a], job[a]) /\ PlaceOK(records[a], events[a], job[a], "selection")
  BY <1>0, AsItIs DEF AttemptOK
<1>2. ASSUME NEW code \in {"selection_required", "selection_not_accessible", "dependency_unavailable"},
             O!Fails(a, job[a], [failure_code |-> code, available_modes |-> Absent])
      PROVE  OpeningInv'
  <2>1. PICK error : error = [failure_code |-> code, available_modes |-> Absent]
    OBVIOUS
  <2>2. error \in ErrorType /\ error.available_modes = Absent
    BY <2>1 DEF ErrorType, Codes
  <2> QED BY <1>0, <1>2, <2>1, <2>2, ErrorsOpening
<1>3. CASE /\ job' = [job EXCEPT ![a].record.linked_resource = O!catalogue_of(O!Command_(a).mode)]
           /\ O!Goto(a, "finish") /\ UNCHANGED told
  <2>1. PICK d \in {"courses", "cases"} : d = O!catalogue_of(O!Command_(a).mode)
    BY DEF O!catalogue_of
  <2>2. job[a].record \in O!Record /\ DOMAIN job = Attempts
    BY <1>0, <1>1 DEF HandOK, OpeningType
  <2>3. PICK record \in O!Record : record = [job[a].record EXCEPT !.linked_resource = d]
    BY <2>2 DEF O!Record
  <2>4. /\ record.linked_resource = d
        /\ record.degraded_dependencies = job[a].record.degraded_dependencies
        /\ record.session_type = job[a].record.session_type
        /\ record.requested_mode = job[a].record.requested_mode
        /\ record.downgraded_from = job[a].record.downgraded_from
        /\ record.naric_level_source = job[a].record.naric_level_source
        /\ record.failure_code = job[a].record.failure_code
    BY <2>2, <2>3 DEF O!Record
  <2>5. PICK j : j = [job[a] EXCEPT !.record = record]
    OBVIOUS
  <2>6. job' = [job EXCEPT ![a] = j]
    BY <1>3, <2>1, <2>3, <2>5
  <2>7. /\ j \in Job /\ j.record = record /\ j.command = job[a].command
        /\ j.dependencies = job[a].dependencies /\ j.assessment = job[a].assessment
    BY <1>1, <2>5 DEF Job
  <2>8. HandOK(events[a], j)
    BY <1>1, <2>4, <2>7 DEF HandOK
  <2>9. d # Absent
    BY OpeningAssumption DEF O!OpeningConstants
  <2>10. PlaceOK(records[a], events[a], j, "finish")
    BY <1>1, <2>4, <2>7, <2>9 DEF PlaceOK
  <2>11. Becomes(a, records[a], events[a], Absent, refused[a], j, "finish")
    BY <1>0, <1>3, <2>6, Unmoved DEF O!Goto, Becomes
  <2>12. AttemptOK(records[a], events[a], Absent, refused[a], j, "finish")
    BY <2>8, <2>10 DEF AttemptOK
  <2> QED BY <2>7, <2>11, <2>12, AsItIs, BecomesOpening DEF Step, Running
<1> QED BY <1>2, <1>3 DEF O!ResolveSelection

LEMMA DowngradeOpening ==
  ASSUME OpeningInv, NEW a \in Attempts, O!Downgrade(a)
  PROVE  OpeningInv'
<1>0. step[a] = "selection" /\ told[a] = Absent /\ OpeningType /\ step[a] \in Running
  BY AsItIs DEF O!Downgrade, O!At, OpeningInv, Running
<1>1. /\ job[a] \in Job /\ HandOK(events[a], job[a]) /\ PlaceOK(records[a], events[a], job[a], "selection")
      /\ events[a] \in Seq(EventType) /\ job[a].record \in O!Record
      /\ job[a].command.mode \in O!SessionMode
  BY <1>0, AsItIs DEF AttemptOK, HandOK, O!Command
<1>2. PICK x : x = O!Event("session.mode_downgraded", job[a].command.mode)
  OBVIOUS
<1>3. PICK record : record = [job[a].record EXCEPT !.downgraded_from = job[a].command.mode]
  OBVIOUS
<1>4. PICK j : j = [job[a] EXCEPT !.record = record]
  OBVIOUS
<1>5. \/ /\ O!Appended(a, x) /\ job' = [job EXCEPT ![a] = j] /\ O!Goto(a, "finish") /\ UNCHANGED <<records, told>>
      \/ O!Refuses(a, "downgraded") /\ O!Fails(a, job[a], O!Unexpected)
  BY <1>2, <1>3, <1>4 DEF O!Downgrade, O!Command_
<1>6. CASE O!Refuses(a, "downgraded") /\ O!Fails(a, job[a], O!Unexpected)
  <2>1. refused' = [refused EXCEPT ![a] = refused[a] \cup {"downgraded"}] /\ UNCHANGED <<records, events>>
    BY <1>6 DEF O!Refuses
  <2>2. job[a].record.requested_mode = job[a].command.mode
    BY <1>1 DEF HandOK
  <2> QED BY <1>0, <1>1, <1>6, <2>1, <2>2, UnexpectedTyped, FailsOpening
<1>7. CASE /\ O!Appended(a, x) /\ job' = [job EXCEPT ![a] = j]
           /\ O!Goto(a, "finish") /\ UNCHANGED <<records, told>>
  <2>1. x \in EventType /\ x.event_type = "session.mode_downgraded"
    BY <1>1, <1>2 DEF O!Event, EventType
  <2>0. x.event_type # "session.dependency_degraded"
    BY <2>1
  <2>2. PICK e : e = Append(events[a], x)
    OBVIOUS
  <2>3. e \in Seq(EventType) /\ DegradedOf(e) = DegradedOf(events[a])
        /\ TypesOf(e) = TypesOf(events[a]) \cup {"session.mode_downgraded"}
    <3>1. /\ Append(events[a], x) \in Seq(EventType)
          /\ TypesOf(Append(events[a], x)) = TypesOf(events[a]) \cup {x.event_type}
          /\ DegradedOf(Append(events[a], x)) = DegradedOf(events[a])
      BY <1>1, <2>0, <2>1, OneOtherEvent
    <3> QED BY <2>1, <2>2, <3>1
  <2>4. record \in O!Record
    BY <1>1, <1>3 DEF O!Record
  <2>5. /\ record.downgraded_from = job[a].command.mode
        /\ record.degraded_dependencies = job[a].record.degraded_dependencies
        /\ record.session_type = job[a].record.session_type
        /\ record.requested_mode = job[a].record.requested_mode
        /\ record.linked_resource = job[a].record.linked_resource
        /\ record.naric_level_source = job[a].record.naric_level_source
        /\ record.failure_code = job[a].record.failure_code
    BY <1>1, <1>3 DEF O!Record
  <2>6. /\ j \in Job /\ j.record = record /\ j.command = job[a].command
        /\ j.dependencies = job[a].dependencies /\ j.assessment = job[a].assessment
    BY <1>1, <1>4, <2>4 DEF Job
  <2>7. job[a].command.mode # Absent
    BY <1>1, OpeningAssumption DEF O!OpeningConstants
  <2>8. HandOK(e, j)
    BY <1>1, <2>3, <2>4, <2>5, <2>6, <2>7 DEF HandOK
  <2>9. PlaceOK(records[a], e, j, "finish")
    BY <1>1, <2>5, <2>6, <2>7 DEF PlaceOK
  <2>10. Becomes(a, records[a], e, Absent, refused[a], j, "finish")
    BY <1>0, <1>7, <2>2, Unmoved DEF O!Appended, O!Goto, Becomes
  <2>11. AttemptOK(records[a], e, Absent, refused[a], j, "finish")
    BY <2>8, <2>9 DEF AttemptOK
  <2> QED BY <2>3, <2>6, <2>10, <2>11, AsItIs, BecomesOpening DEF Step, Running
<1> QED BY <1>5, <1>6, <1>7

LEMMA RefuseModeOpening ==
  ASSUME OpeningInv, NEW a \in Attempts, O!RefuseMode(a)
  PROVE  OpeningInv'
<1>0. step[a] = "refusal" /\ UNCHANGED <<records, events, refused>> /\ step[a] \in Running
  BY DEF O!RefuseMode, O!At, Running
<1>1. HandOK(events[a], job[a]) /\ PlaceOK(records[a], events[a], job[a], "refusal")
  BY <1>0, AsItIs DEF AttemptOK
<1>2. PICK open : open = O!evaluate_mode_availability(job[a].dependencies)
  OBVIOUS
<1>3. PICK error : error = [failure_code |-> "session_mode_unavailable", available_modes |-> open]
  OBVIOUS
<1>4. open \in SUBSET O!SessionMode
  BY <1>2 DEF O!evaluate_mode_availability, O!SessionMode
<1>5. error \in ErrorType /\ error.available_modes = open
  BY <1>3, <1>4 DEF ErrorType, Codes
<1>6. job[a].command.mode \in {"course-linked", "case-linked"}
  BY <1>1 DEF PlaceOK, HandOK, O!Command, O!SessionMode
<1>7. job[a].dependencies[O!catalogue_of(job[a].command.mode)] \in {"unavailable", "empty"}
  BY <1>1 DEF PlaceOK
<1>8. \A m \in open \ {"free-form"} :
        job[a].dependencies[O!catalogue_of(m)] \notin {"unavailable", "empty"}
  BY <1>2 DEF O!evaluate_mode_availability, O!SessionMode, O!catalogue_of
<1>9. job[a].command.mode \notin open
  BY <1>6, <1>7, <1>8
<1>10. \A m : O!catalogue_of(m) \in {"courses", "cases"}
  BY DEF O!catalogue_of
<1>11. \A m \in open \ {"free-form"} : O!catalogue_of(m) \notin DegradedOf(events[a])
  BY <1>1, <1>8, <1>10 DEF HandOK
<1>12. O!Fails(a, job[a], error)
  BY <1>2, <1>3 DEF O!RefuseMode
<1> QED BY <1>0, <1>5, <1>9, <1>11, <1>12, ErrorsOpening

LEMMA AdapterBreaksOpening ==
  ASSUME OpeningInv, NEW a \in Attempts, O!AdapterBreaks(a)
  PROVE  OpeningInv'
<1>1. /\ step[a] \in Running /\ UNCHANGED <<records, events, refused>>
      /\ O!Fails(a, job[a], O!Unexpected)
  BY DEF O!AdapterBreaks, O!At, Running
<1> QED BY <1>1, UnexpectedTyped, ErrorsOpening

LEMMA UpdateRecordOpening ==
  ASSUME OpeningInv, NEW a \in Attempts, O!UpdateRecord(a)
  PROVE  OpeningInv'
<1>0. step[a] = "finish" /\ told[a] = Absent /\ OpeningType /\ step[a] \in Running
  BY AsItIs DEF O!UpdateRecord, O!At, OpeningInv, Running
<1>1. /\ job[a] \in Job /\ HandOK(events[a], job[a]) /\ PlaceOK(records[a], events[a], job[a], "finish")
      /\ job[a].record \in O!Record /\ job[a].record.session_type = job[a].command.mode
  BY <1>0, AsItIs DEF AttemptOK, HandOK, PlaceOK
<1>2. PICK record : record = O!Finished(a)
  OBVIOUS
<1>3. PICK j : j = [job[a] EXCEPT !.record = record]
  OBVIOUS
<1>4. /\ record \in O!Record
      /\ record.downgraded_from = job[a].record.downgraded_from
      /\ record.degraded_dependencies = job[a].record.degraded_dependencies
      /\ record.requested_mode = job[a].record.requested_mode
      /\ record.linked_resource = job[a].record.linked_resource
      /\ record.naric_level_source = job[a].record.naric_level_source
      /\ record.failure_code = job[a].record.failure_code
      /\ record.session_type = IF record.downgraded_from = Absent THEN job[a].record.session_type ELSE "free-form"
      /\ record.status = "degraded" => record.degraded_dependencies # {} \/ record.downgraded_from # Absent
  <2>1. PICK type \in O!SessionMode, status \in {"active", "degraded"} :
          /\ record = [job[a].record EXCEPT !.session_type = type, !.status = status]
          /\ type = IF job[a].record.downgraded_from = Absent THEN job[a].record.session_type ELSE "free-form"
          /\ status = "degraded" => job[a].record.degraded_dependencies # {} \/ job[a].record.downgraded_from # Absent
    <3>1. job[a].record.session_type \in O!SessionMode /\ "free-form" \in O!SessionMode
      BY <1>1 DEF O!Record, O!SessionMode
    <3>2. record = [job[a].record EXCEPT
                      !.session_type = IF job[a].record.downgraded_from = Absent THEN job[a].record.session_type
                                       ELSE "free-form",
                      !.status = IF job[a].record.degraded_dependencies # {} \/ job[a].record.downgraded_from # Absent
                                 THEN "degraded" ELSE "active"]
      BY <1>2 DEF O!Finished
    <3> QED BY <3>1, <3>2
  <2> QED BY <1>1, <2>1 DEF O!Record
<1>5. /\ j \in Job /\ j.record = record /\ j.command = job[a].command
      /\ j.dependencies = job[a].dependencies /\ j.assessment = job[a].assessment
  BY <1>1, <1>3, <1>4 DEF Job
<1>6. HandOK(events[a], j)
  BY <1>1, <1>4, <1>5 DEF HandOK
<1>7. CASE /\ records' = [records EXCEPT ![a] = j.record]
           /\ job' = [job EXCEPT ![a] = j] /\ O!Goto(a, "opened") /\ UNCHANGED <<events, refused, told>>
  <2>1. Becomes(a, record, events[a], Absent, refused[a], j, "opened")
    BY <1>0, <1>5, <1>7, Unmoved DEF O!Goto, Becomes
  <2>2. PlaceOK(record, events[a], j, "opened")
    BY <1>1, <1>4, <1>5 DEF PlaceOK
  <2>3. AttemptOK(record, events[a], Absent, refused[a], j, "opened")
    BY <1>6, <2>2 DEF AttemptOK
  <2> QED BY <1>4, <1>5, <2>1, <2>3, AsItIs, BecomesOpening DEF Step, Running
<1>8. CASE O!Refuses(a, "update") /\ O!Fails(a, j, O!Unexpected)
  <2>1. refused' = [refused EXCEPT ![a] = refused[a] \cup {"update"}] /\ UNCHANGED <<records, events>>
    BY <1>8 DEF O!Refuses
  <2>2. j.record.requested_mode = j.command.mode
    BY <1>6 DEF HandOK
  <2> QED BY <1>0, <1>4, <1>5, <1>8, <2>1, <2>2, UnexpectedTyped, FailsOpening
<1> QED BY <1>2, <1>3, <1>7, <1>8 DEF O!UpdateRecord

\* The answer tells of whatever was degraded.
LEMMA NoticesTell ==
  ASSUME NEW e, NEW j, HandOK(e, j),
         j.record.naric_level_source =
           O!resolve_naric_level(j.assessment, j.command.continue_without_calibration),
         j.record.degraded_dependencies # {} \/ j.record.downgraded_from # Absent
  PROVE  O!build_notices(j) # {}
<1>1. CASE j.record.downgraded_from # Absent
  <2>1. "session_mode_downgraded" \in O!build_notices(j)
    BY <1>1 DEF O!build_notices
  <2> QED BY <2>1
<1>2. ASSUME NEW d \in j.record.degraded_dependencies PROVE O!build_notices(j) # {}
  <2>1. /\ d \in DegradedOf(e) /\ d \in {"profile", "naric", "courses", "cases"}
        /\ d \in DOMAIN j.dependencies /\ j.dependencies[d] \in {"incomplete", "unavailable"}
        /\ d \in {"courses", "cases"} => j.dependencies[d] = "unavailable"
        /\ d = "naric" => j.assessment # "complete"
    BY <1>2 DEF HandOK, O!Record, O!DependencyName, O!is_degraded
  <2>2. CASE d = "profile"
    <3>1. \/ "personalisation_unavailable" \in O!build_notices(j)
          \/ "personalisation_incomplete" \in O!build_notices(j)
      BY <2>1, <2>2 DEF O!build_notices
    <3> QED BY <3>1
  <2>3. CASE d = "naric"
    <3>1. j.record.naric_level_source \in {"default", "default_user_acknowledged"}
      <4>1. CASE j.command.continue_without_calibration
        BY <2>1, <2>3, <4>1 DEF O!resolve_naric_level
      <4>2. CASE ~j.command.continue_without_calibration
        BY <2>1, <2>3, <4>2 DEF O!resolve_naric_level
      <4> QED BY <4>1, <4>2
    <3>2. \/ "naric_calibration_unavailable" \in O!build_notices(j)
          \/ "naric_default_level_applied" \in O!build_notices(j)
      BY <3>1 DEF O!build_notices
    <3> QED BY <3>2
  <2>4. CASE d = "courses"
    <3>1. "courses_unavailable" \in O!build_notices(j)
      BY <2>1, <2>4 DEF O!build_notices
    <3> QED BY <3>1
  <2>5. CASE d = "cases"
    <3>1. "cases_unavailable" \in O!build_notices(j)
      BY <2>1, <2>5 DEF O!build_notices
    <3> QED BY <3>1
  <2> QED BY <2>1, <2>2, <2>3, <2>4, <2>5
<1> QED BY <1>1, <1>2

LEMMA AppendOpenedOpening ==
  ASSUME OpeningInv, NEW a \in Attempts, O!AppendOpened(a)
  PROVE  OpeningInv'
<1>0. step[a] = "opened" /\ told[a] = Absent /\ OpeningType /\ step[a] \in Running
  BY AsItIs DEF O!AppendOpened, O!At, OpeningInv, Running
<1>1. /\ job[a] \in Job /\ HandOK(events[a], job[a]) /\ PlaceOK(records[a], events[a], job[a], "opened")
      /\ events[a] \in Seq(EventType) /\ job[a].record \in O!Record /\ records[a] = job[a].record
  BY <1>0, AsItIs DEF AttemptOK, HandOK, PlaceOK
<1>2. PICK x : x = O!Event("session.opened", job[a].record.session_type)
  OBVIOUS
<1>3. PICK notices : notices = O!build_notices(job[a])
  OBVIOUS
<1>4. PICK t : t = [ok |-> TRUE, record |-> job[a].record, notices |-> notices, error |-> Absent]
  OBVIOUS
<1>5. \/ /\ O!Appended(a, x) /\ told' = [told EXCEPT ![a] = t]
         /\ O!Goto(a, "answered") /\ UNCHANGED <<records, job>>
      \/ O!Refuses(a, "opened") /\ O!Fails(a, job[a], O!Unexpected)
  BY <1>2, <1>3, <1>4 DEF O!AppendOpened
<1>6. CASE O!Refuses(a, "opened") /\ O!Fails(a, job[a], O!Unexpected)
  <2>1. refused' = [refused EXCEPT ![a] = refused[a] \cup {"opened"}] /\ UNCHANGED <<records, events>>
    BY <1>6 DEF O!Refuses
  <2>2. job[a].record.requested_mode = job[a].command.mode
    BY <1>1 DEF HandOK
  <2> QED BY <1>0, <1>1, <1>6, <2>1, <2>2, UnexpectedTyped, FailsOpening
<1>7. CASE /\ O!Appended(a, x) /\ told' = [told EXCEPT ![a] = t]
           /\ O!Goto(a, "answered") /\ UNCHANGED <<records, job>>
  <2>1. x \in EventType /\ x.event_type = "session.opened"
    <3>1. job[a].record.session_type \in O!SessionMode
      BY <1>1 DEF O!Record
    <3> QED BY <1>2, <3>1 DEF O!Event, EventType
  <2>2. x.event_type # "session.dependency_degraded"
    BY <2>1
  <2>3. PICK e : e = Append(events[a], x)
    OBVIOUS
  <2>4. /\ e \in Seq(EventType) /\ DegradedOf(e) = DegradedOf(events[a])
        /\ TypesOf(e) = TypesOf(events[a]) \cup {"session.opened"} /\ e[Len(e)].event_type = "session.opened"
    <3>1. /\ Append(events[a], x) \in Seq(EventType)
          /\ TypesOf(Append(events[a], x)) = TypesOf(events[a]) \cup {x.event_type}
          /\ DegradedOf(Append(events[a], x)) = DegradedOf(events[a])
          /\ Append(events[a], x)[Len(Append(events[a], x))] = x
      BY <1>1, <2>1, <2>2, OneOtherEvent
    <3> QED BY <2>1, <2>3, <3>1
  <2>5. t.ok = TRUE /\ t.record = job[a].record /\ t.notices = notices
    BY <1>4
  <2>6. job[a].record.status = "degraded" => notices # {}
    <3>1. job[a].record.naric_level_source =
            O!resolve_naric_level(job[a].assessment, job[a].command.continue_without_calibration)
      BY <1>1 DEF PlaceOK
    <3>2. job[a].record.status = "degraded" =>
            job[a].record.degraded_dependencies # {} \/ job[a].record.downgraded_from # Absent
      BY <1>1 DEF PlaceOK
    <3> QED BY <1>1, <1>3, <3>1, <3>2, NoticesTell
  <2>7. /\ job[a].record.failure_code = Absent /\ "session.failed" \notin TypesOf(e)
        /\ job[a].record.degraded_dependencies = DegradedOf(e)
        /\ job[a].record.downgraded_from # Absent <=> "session.mode_downgraded" \in TypesOf(e)
    BY <1>1, <2>4 DEF HandOK
  <2>8. job[a].record.linked_resource # Absent <=> job[a].record.session_type # "free-form"
    BY <1>1 DEF PlaceOK
  <2>9. OpenedOK(records[a], e, t)
    BY <1>1, <2>4, <2>5, <2>6, <2>7, <2>8 DEF OpenedOK
  <2>10. AttemptOK(records[a], e, t, refused[a], job[a], "answered")
    BY <2>5, <2>9 DEF AttemptOK, Running
  <2>11. Becomes(a, records[a], e, t, refused[a], job[a], "answered")
    BY <1>0, <1>7, <2>3, Unmoved DEF O!Appended, O!Goto, Becomes
  <2> QED BY <1>1, <2>4, <2>10, <2>11, AsItIs, BecomesOpening DEF Step
<1> QED BY <1>5, <1>6, <1>7

\* A failed attempt's record, marked.
LEMMA MarkFailedOpening ==
  ASSUME OpeningInv, NEW a \in Attempts, O!MarkFailed(a)
  PROVE  OpeningInv'
<1>0. step[a] = "failing" /\ told[a] = Absent /\ OpeningType
  BY AsItIs DEF O!MarkFailed, O!At, OpeningInv
<1>1. /\ job[a] \in Job /\ ErrorOK(events[a], job[a]) /\ events[a] \in Seq(EventType)
      /\ job[a].record \in O!Record /\ job[a].error \in ErrorType
      /\ records[a] \in O!Record \cup {Absent}
  BY <1>0, AsItIs DEF AttemptOK, ErrorOK
<1>2. PICK record : record = [job[a].record EXCEPT !.status = "failed", !.failure_code = job[a].error.failure_code]
  OBVIOUS
<1>3. PICK j : j = [job[a] EXCEPT !.record = record]
  OBVIOUS
<1>4. /\ job' = [job EXCEPT ![a] = j]
      /\ \/ /\ records' = [records EXCEPT ![a] = record]
            /\ O!Goto(a, "failed") /\ UNCHANGED <<events, refused, told>>
         \/ O!Refuses(a, "mark_failed") /\ O!AnswersError(a, job[a].error)
  <2>1. job' = [job EXCEPT ![a].record = record]
    BY <1>2 DEF O!MarkFailed
  <2>2. [job EXCEPT ![a].record = record] = [job EXCEPT ![a] = j]
    BY <1>0, <1>3 DEF OpeningType
  <2> QED BY <1>2, <2>1, <2>2 DEF O!MarkFailed
<1>5. /\ record \in O!Record /\ record.status = "failed" /\ record.failure_code = job[a].error.failure_code
      /\ record.requested_mode = job[a].record.requested_mode
  <2>1. job[a].error.failure_code \in Codes
    BY <1>1 DEF ErrorType
  <2> QED BY <1>1, <1>2, <2>1 DEF O!Record, Codes
<1>6. /\ j \in Job /\ j.record = record /\ j.command = job[a].command /\ j.error = job[a].error
  BY <1>1, <1>3, <1>5 DEF Job
<1>7. CASE /\ records' = [records EXCEPT ![a] = record]
           /\ O!Goto(a, "failed") /\ UNCHANGED <<events, refused, told>>
  <2>1. Becomes(a, record, events[a], Absent, refused[a], j, "failed")
    BY <1>0, <1>4, <1>7, Unmoved DEF O!Goto, Becomes
  <2>2. ErrorOK(events[a], j)
    BY <1>1, <1>5, <1>6 DEF ErrorOK
  <2>3. AttemptOK(record, events[a], Absent, refused[a], j, "failed")
    BY <1>5, <1>6, <2>2 DEF AttemptOK, Running
  <2> QED BY <1>1, <1>5, <1>6, <2>1, <2>3, BecomesOpening DEF Step
<1>8. CASE O!Refuses(a, "mark_failed") /\ O!AnswersError(a, job[a].error)
  <2>1. refused' = [refused EXCEPT ![a] = refused[a] \cup {"mark_failed"}]
        /\ records' = [records EXCEPT ![a] = records[a]] /\ events' = [events EXCEPT ![a] = events[a]]
    BY <1>0, <1>8, Unmoved DEF O!Refuses
  <2>2. \A t : FailedOK(records[a], events[a], t, refused[a] \cup {"mark_failed"})
    BY DEF FailedOK
  <2> QED BY <1>1, <1>4, <1>6, <1>8, <2>1, <2>2, AnswersOpening
<1> QED BY <1>4, <1>7, <1>8

LEMMA AppendFailedOpening ==
  ASSUME OpeningInv, NEW a \in Attempts, O!AppendFailed(a)
  PROVE  OpeningInv'
<1>0. step[a] = "failed" /\ told[a] = Absent /\ OpeningType
  BY AsItIs DEF O!AppendFailed, O!At, OpeningInv
<1>1. /\ job[a] \in Job /\ ErrorOK(events[a], job[a]) /\ events[a] \in Seq(EventType)
      /\ records[a] = job[a].record /\ records[a].status = "failed"
      /\ records[a].failure_code = job[a].error.failure_code
      /\ records[a] \in O!Record \cup {Absent} /\ job[a].error \in ErrorType
  BY <1>0, AsItIs DEF AttemptOK, ErrorOK
<1>2. PICK x : x = O!Event("session.failed", job[a].error.failure_code)
  OBVIOUS
<1>3. x \in EventType /\ x.event_type = "session.failed"
  <2>1. job[a].error.failure_code \in Codes
    BY <1>1 DEF ErrorType
  <2> QED BY <1>2, <2>1 DEF O!Event, EventType
<1>4. x.event_type # "session.dependency_degraded"
  BY <1>3
<1>5. /\ O!AnswersError(a, job[a].error) /\ UNCHANGED <<job, records>>
      /\ \/ O!Appended(a, x)
         \/ O!Refuses(a, "failed")
  BY <1>2 DEF O!AppendFailed, O!Refuses
<1>6. /\ records' = [records EXCEPT ![a] = records[a]] /\ job' = [job EXCEPT ![a] = job[a]]
  BY <1>0, <1>5, Unmoved
<1>7. ASSUME NEW e, NEW f, TypesOf(e) \subseteq TypesOf(events[a]) \cup {"session.failed"},
             DegradedOf(e) = DegradedOf(events[a]), "session.failed" \in TypesOf(e) \/ "failed" \in f,
             NEW t, t.error = job[a].error
      PROVE  FailedOK(records[a], e, t, f)
  <2>1. /\ "session.opened" \notin TypesOf(e)
        /\ records[a].requested_mode = job[a].command.mode
        /\ job[a].error.available_modes # Absent =>
             /\ job[a].command.mode \notin job[a].error.available_modes
             /\ \A m \in job[a].error.available_modes \ {"free-form"} : O!catalogue_of(m) \notin DegradedOf(e)
    BY <1>1, <1>7 DEF ErrorOK
  <2> QED BY <1>1, <1>7, <2>1 DEF FailedOK
<1>8. CASE O!Appended(a, x)
  <2>1. PICK e : e = Append(events[a], x)
    OBVIOUS
  <2>2. /\ e \in Seq(EventType) /\ DegradedOf(e) = DegradedOf(events[a])
        /\ TypesOf(e) = TypesOf(events[a]) \cup {"session.failed"}
    <3>1. /\ Append(events[a], x) \in Seq(EventType)
          /\ TypesOf(Append(events[a], x)) = TypesOf(events[a]) \cup {x.event_type}
          /\ DegradedOf(Append(events[a], x)) = DegradedOf(events[a])
      BY <1>1, <1>3, <1>4, OneOtherEvent
    <3> QED BY <1>3, <2>1, <3>1
  <2>3. events' = [events EXCEPT ![a] = e] /\ refused' = [refused EXCEPT ![a] = refused[a]]
    BY <1>0, <1>8, <2>1, Unmoved DEF O!Appended
  <2>4. \A t : t.error = job[a].error => FailedOK(records[a], e, t, refused[a])
    BY <1>7, <2>2
  <2> QED BY <1>1, <1>5, <1>6, <2>2, <2>3, <2>4, AnswersOpening
<1>9. CASE O!Refuses(a, "failed")
  <2>1. events' = [events EXCEPT ![a] = events[a]]
        /\ refused' = [refused EXCEPT ![a] = refused[a] \cup {"failed"}]
    BY <1>0, <1>9, Unmoved DEF O!Refuses
  <2>2. \A t : t.error = job[a].error => FailedOK(records[a], events[a], t, refused[a] \cup {"failed"})
    BY <1>7
  <2> QED BY <1>1, <1>5, <1>6, <2>1, <2>2, AnswersOpening
<1> QED BY <1>5, <1>8, <1>9

LEMMA CrashOpening ==
  ASSUME OpeningInv, NEW a \in Attempts, O!Crash(a)
  PROVE  OpeningInv'
<1>0. step[a] \notin {"idle", "answered", "dead"} /\ told[a] = Absent /\ OpeningType
  BY AsItIs DEF O!Crash, OpeningInv
<1>1. Becomes(a, records[a], events[a], told[a], refused[a], O!NoJob, "dead")
  BY <1>0, Unmoved DEF O!Crash, O!Goto, Becomes
<1>2. AttemptOK(records[a], events[a], told[a], refused[a], O!NoJob, "dead")
  BY <1>0 DEF AttemptOK, Running
<1> QED BY <1>1, <1>2, NothingAsked, AsItIs, BecomesOpening DEF Step

LEMMA NextOpening == OpeningInv /\ [O!OpeningNext]_opening_vars => OpeningInv'
<1>1. ASSUME OpeningInv, UNCHANGED opening_vars PROVE OpeningInv'
  <2>1. UNCHANGED <<records, events, told, refused, job, step>>
    BY <1>1 DEF opening_vars
  <2>2. OpeningType'
    BY <1>1, <2>1 DEF OpeningInv, OpeningType
  <2>3. ASSUME NEW a \in Attempts
        PROVE  AttemptOK(records[a], events[a], told[a], refused[a], job[a], step[a])'
    <3>1. AttemptOK(records[a], events[a], told[a], refused[a], job[a], step[a])
      BY <1>1 DEF OpeningInv
    <3>2. /\ records'[a] = records[a] /\ events'[a] = events[a] /\ told'[a] = told[a]
          /\ refused'[a] = refused[a] /\ job'[a] = job[a] /\ step'[a] = step[a]
      BY <2>1
    <3>3. AttemptOK(records'[a], events'[a], told'[a], refused'[a], job'[a], step'[a])
      BY <3>1, <3>2
    <3> QED BY <3>3 DEF AttemptOK, HandOK, PlaceOK, ErrorOK, OpenedOK, FailedOK
  <2> QED BY <2>2, <2>3 DEF OpeningInv
<1>2. ASSUME OpeningInv, NEW a \in Attempts, O!OpenSession(a) PROVE OpeningInv'
  BY <1>2, CreateRecordOpening, AppendInitializingOpening, LoadProfileOpening, LoadNaricOpening,
     ResolveLevelOpening, LoadCatalogueOpening, ResolveSelectionOpening, DowngradeOpening,
     EnsureCataloguesOpening, RefuseModeOpening, AdapterBreaksOpening, UpdateRecordOpening,
     AppendOpenedOpening, MarkFailedOpening, AppendFailedOpening, CrashOpening
     DEF O!OpenSession
<1> QED BY <1>1, <1>2 DEF O!OpeningNext

\* What is told is what is recorded.
LEMMA OpeningKept == OpeningInv => O!OpeningTypeOK /\ O!OpenedIsRecorded /\ O!FailureIsRecorded
<1> SUFFICES ASSUME OpeningInv PROVE O!OpeningTypeOK /\ O!OpenedIsRecorded /\ O!FailureIsRecorded
  OBVIOUS
<1>1. O!OpeningTypeOK
  BY DEF OpeningInv, OpeningType, O!OpeningTypeOK, Job
<1>2. ASSUME NEW a \in Attempts, told[a] # Absent
      PROVE  IF told[a].ok THEN OpenedOK(records[a], events[a], told[a])
             ELSE FailedOK(records[a], events[a], told[a], refused[a])
  BY <1>2, AsItIs DEF AttemptOK
<1>3. \A a \in Attempts : O!Types(a) = TypesOf(events[a]) /\ O!Degraded(a) = DegradedOf(events[a])
  BY DEF O!Types, O!Degraded, TypesOf, DegradedOf
<1>4. O!OpenedIsRecorded
  BY <1>2, <1>3 DEF O!OpenedIsRecorded, OpenedOK
<1>5. O!FailureIsRecorded
  BY <1>2, <1>3 DEF O!FailureIsRecorded, FailedOK
<1> QED BY <1>1, <1>4, <1>5

-----------------------------------------------------------------------------
(* All of it in one behaviour. *)

SessionsInv ==
  /\ OpeningInv /\ TypeInv /\ OwnerInv
  /\ active = "platform" => PlatformInv /\ StartedInv
  /\ active = "stores" => StoresInv

LEMMA InitSessions == SessionsInit => SessionsInv
<1> SUFFICES ASSUME SessionsInit PROVE SessionsInv
  OBVIOUS
<1>1. OpeningInv
  BY InitOpening DEF SessionsInit
<1>2. TypeInv
  BY InitType, ContextAssumption DEF SessionsInit
<1>3. OwnerInv
  BY InitOwner DEF SessionsInit
<1>4. active = "platform" => PlatformInv /\ StartedInv
  BY InitPlatform DEF SessionsInit
<1>5. active = "stores" => StoresInv
  BY InitStores DEF SessionsInit
<1> QED BY <1>1, <1>2, <1>3, <1>4, <1>5 DEF SessionsInv

\* A step is one of one of them; the others stand.
LEMMA OneOfThem ==
  ASSUME [SessionsNext]_vars
  PROVE  /\ active' = active
         /\ [O!OpeningNext]_opening_vars /\ [ContextNext]_context_vars /\ [S!Next]_dialogue_vars
         /\ active = "platform" => [D!DeploymentNext]_platform_vars
         /\ active = "stores" => [K!DurableNext]_store_vars
BY DEF SessionsNext, Alone, Together, vars

LEMMA NextSessions == SessionsInv /\ [SessionsNext]_vars => SessionsInv'
<1> SUFFICES ASSUME SessionsInv, [SessionsNext]_vars PROVE SessionsInv'
  OBVIOUS
<1>1. active' = active
  BY OneOfThem
<1>2. OpeningInv'
  BY OneOfThem, NextOpening DEF SessionsInv
<1>3. TypeInv'
  BY OneOfThem, NextType DEF SessionsInv
<1>4. OwnerInv'
  BY OneOfThem, NextOwner DEF SessionsInv
<1>5. active = "platform" => PlatformInv' /\ StartedInv'
  BY OneOfThem, NextPlatform DEF SessionsInv
<1>6. active = "stores" => StoresInv'
  BY OneOfThem, NextStores DEF SessionsInv
<1> QED BY <1>1, <1>2, <1>3, <1>4, <1>5, <1>6 DEF SessionsInv

LEMMA SessionsKept == SessionsSpec => []SessionsInv
BY InitSessions, NextSessions, PTL DEF SessionsSpec

\* Whatever is stored, held by a handler, kept by the platform or written to a
\* file has its type (SessionRecord, LearningContext, the composition roots'
\* containers, the JSON and SQLite stores' rows).
THEOREM SessionsTypes == SessionsSpec => []SessionTypesOK
<1>1. ASSUME SessionsInv PROVE SessionTypesOK
  <2>1. O!OpeningTypeOK
    BY <1>1, OpeningKept DEF SessionsInv
  <2>2. ContextTypeOK
    BY <1>1 DEF SessionsInv, TypeInv, ContextTypeOK, Brought
  <2>3. active = "platform" => D!DeploymentTypeOK
    BY <1>1 DEF SessionsInv, PlatformInv
  <2>4. active = "stores" => K!DurableTypeOK
    BY <1>1, StoresKeep DEF SessionsInv
  <2> QED BY <2>1, <2>2, <2>3, <2>4 DEF SessionTypesOK
<1> QED BY <1>1, SessionsKept, PTL

\* A client told that its session is open finds that very session stored and
\* logged, with the dependencies and the downgrade the notices tell of; a client
\* told of an error finds it on the record unless the store refused the mark, and
\* is offered no mode that has just failed (open_session, _mark_failed).  And a
\* save that returned and that no other overlapped is in the file whenever the
\* process is killed, or a later one of its row is; a file is never half
\* written (the JSON and SQLite stores).
THEOREM OpenedAndSavedStay == SessionsSpec => []AnswerIsOnRecord
<1>1. ASSUME SessionsInv PROVE AnswerIsOnRecord
  <2>1. O!OpenedIsRecorded /\ O!FailureIsRecorded
    BY <1>1, OpeningKept DEF SessionsInv
  <2>2. active = "stores" => K!SavedStaysSaved
    BY <1>1, StoresKeep DEF SessionsInv
  <2> QED BY <2>1, <2>2 DEF AnswerIsOnRecord
<1> QED BY <1>1, SessionsKept, PTL

\* Whatever the environment names, a component either runs on the providers it
\* was told to or does not run, and once started answers every request from one
\* container (the composition roots' factories, the lifespans, the harness).
THEOREM RunsOnWhatWasNamed == SessionsSpec => []ComesUpAsNamed
<1>1. ASSUME SessionsInv PROVE ComesUpAsNamed
  BY <1>1, PlatformIsHonest DEF SessionsInv, ComesUpAsNamed
<1> QED BY <1>1, SessionsKept, PTL

\* Once a learner has set a session's mode no request of another one is about
\* to write the mode or works on a dialogue of the session, whatever requests
\* overlap (_mode_state; with stores that do not yield).
THEOREM SessionsAreOwned == SessionsSpec => []OnlyTheOwnerActs
<1>1. ASSUME SessionsInv PROVE OnlyTheOwnerActs
  BY <1>1 DEF SessionsInv, OwnerInv, OnlyTheOwnerActs
<1> QED BY <1>1, SessionsKept, PTL

=============================================================================
