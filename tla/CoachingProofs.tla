---------------------------- MODULE CoachingProofs ----------------------------
(***************************************************************************)
(* What TLAPS proves of the two coaches that open protected content, and   *)
(* of the levels: first of UC-06 by itself (the types, the halt, the       *)
(* reader of the case file), then of UC-04 beside it (what is said, what   *)
(* is quoted), then of the components that read a learner's level; for any *)
(* learners, sessions, facts, lessons, framings, texts, threads and number *)
(* of requests, in any interleaving, and whatever fails.                   *)
(***************************************************************************)
EXTENDS MCCoaching, TLAPS, SequenceTheorems, FiniteSetTheorems

Job == [session : CaseSessions \cup {None}, user : CaseLearners \cup {None},
        guard : GuardClass, file : SUBSET CaseFacts, response : Response, absent : BOOLEAN]

\* Where a request has not been answered or refused yet.
Working == {"context", "access", "load", "generate", "general"}

\* A request is a learner's in a session until it ends, and its answer is the
\* only one recorded under its number.
Recorded ==
  \A i \in DOMAIN records : /\ records[i].response <= served
                            /\ pc \in Working => records[i].response # served

TypeInv ==
  /\ TypeOK /\ job \in Job /\ Recorded
  /\ pc # "idle" => job.session \in CaseSessions /\ job.user \in CaseLearners

-----------------------------------------------------------------------------
(* The types of the case coach. *)

\* What the helpers build.
LEMMA Built ==
  /\ NoJob \in Job
  /\ General \in Response
  /\ \A code \in {"refused", "generation", "session_halted", "status"} : Failing(code) \in Response
  /\ \A s \in CaseSessions, u \in CaseLearners, g \in GuardClass :
       /\ Request(s, u, g) \in Job
       /\ Request(s, u, g).session = s /\ Request(s, u, g).user = u
<1>1. General \in Response /\ \A code \in ErrorCode \cup {"status"} : Failing(code) \in Response
  BY DEF General, Response, Failing, ResponseMode
<1>2. \A code \in {"refused", "generation", "session_halted", "status"} : Failing(code) \in Response
  BY <1>1 DEF ErrorCode
<1>3. NoJob \in Job
  BY <1>2 DEF NoJob, Job, GuardClass
<1>4. ASSUME NEW s \in CaseSessions, NEW u \in CaseLearners, NEW g \in GuardClass
      PROVE  /\ Request(s, u, g) \in Job
             /\ Request(s, u, g).session = s /\ Request(s, u, g).user = u
  <2>1. NoJob.file = {} /\ NoJob.response \in Response /\ NoJob.absent = FALSE
    BY <1>2 DEF NoJob
  <2> QED BY <1>3, <2>1 DEF Request, Job
<1> QED BY <1>1, <1>2, <1>3, <1>4

\* An event that a request brings about is an event.
LEMMA ToldIsEvent ==
  ASSUME TypeInv, NEW event \in {"sent", "withheld", "check", "read", "cleared"},
         NEW code \in ResponseMode \cup ErrorCode \cup {"status", "ok", "denied", "invalid"},
         NEW facts \in SUBSET FactIds, NEW labelled \in BOOLEAN, NEW predicts \in BOOLEAN
  PROVE  ToldOf(event, code, facts, labelled, predicts) \in Event
BY DEF TypeInv, TypeOK, ToldOf, Event, Job

\* Appending keeps a sequence one of its set.
LEMMA Appended ==
  ASSUME NEW S, NEW q \in Seq(S), NEW e \in S
  PROVE  /\ Append(q, e) \in Seq(S)
         /\ Len(Append(q, e)) = Len(q) + 1
         /\ \A i \in 1..Len(q) : Append(q, e)[i] = q[i]
         /\ Append(q, e)[Len(q) + 1] = e
BY AppendProperties

LEMMA Paired ==
  ASSUME NEW S, NEW q \in Seq(S), NEW a \in S, NEW b \in S
  PROVE  q \o <<a, b>> = Append(Append(q, a), b)
OBVIOUS

LEMMA InitType == Init => TypeInv
<1> SUFFICES ASSUME Init PROVE TypeInv
  OBVIOUS
<1>1. TypeOK /\ Recorded
  BY DEF Init, TypeOK, Recorded, Event, InteractionRecord, SecurityIncident, PC, NoJob, Failing,
         Response, ErrorCode
<1>2. job \in Job /\ pc = "idle"
  BY Built DEF Init
<1> QED BY <1>1, <1>2 DEF TypeInv

\* What an answer does: it is recorded once, of a request that works.
LEMMA AnswerType ==
  ASSUME TypeInv, pc \in Working, NEW response \in Response, response.code \in ResponseMode,
         Answer(response), trail' \in Seq(Event), UNCHANGED <<served, granted, halts, incidents, alerts>>
  PROVE  TypeInv'
<1> DEFINE r == _record(response)
<1>1. job.session \in CaseSessions /\ job.user \in CaseLearners /\ served \in Nat
      /\ records \in Seq(InteractionRecord) /\ audit \in Seq(Nat) /\ job \in Job
  BY DEF TypeInv, TypeOK, Working
<1>2. r \in InteractionRecord /\ r.response = served
  BY <1>1 DEF _record, InteractionRecord, Response
<1>3. /\ records' = Append(records, r) /\ audit' = Append(audit, served)
      /\ pc' = "emit" /\ job' = [job EXCEPT !.response = response] /\ served' = served
  BY DEF Answer, _audit_event, Goto
<1>4. /\ records' \in Seq(InteractionRecord) /\ Len(records') = Len(records) + 1
      /\ \A i \in 1..Len(records) : records'[i] = records[i]
      /\ records'[Len(records) + 1] = r
  BY <1>1, <1>2, <1>3, Appended
<1>5. \A i \in 1..Len(records) : records[i].response <= served /\ records[i].response # served
  BY <1>1 DEF TypeInv, Recorded
<1>6. \A i, j \in 1..Len(records) : records[i].response = records[j].response => i = j
  BY <1>1 DEF TypeInv, TypeOK
<1>7. Len(records) \in Nat /\ DOMAIN records = 1..Len(records) /\ DOMAIN records' = 1..(Len(records) + 1)
  BY <1>1, <1>4
<1>8. \A i, j \in DOMAIN records' : records'[i].response = records'[j].response => i = j
  BY <1>2, <1>4, <1>5, <1>6, <1>7
<1>9. Recorded'
  BY <1>1, <1>2, <1>3, <1>4, <1>5, <1>7 DEF Recorded, Working
<1>10. audit' \in Seq(Nat) /\ job' \in Job
  <2>1. audit' \in Seq(Nat)
    BY <1>1, <1>3, Appended
  <2>2. job' \in Job
    BY <1>1, <1>3 DEF Job
  <2> QED BY <2>1, <2>2
<1>11. TypeOK'
  BY <1>1, <1>3, <1>4, <1>8, <1>10 DEF TypeInv, TypeOK, PC, Job
<1>12. job'.session \in CaseSessions /\ job'.user \in CaseLearners
  BY <1>1, <1>3 DEF Job
<1> QED BY <1>9, <1>10, <1>11, <1>12 DEF TypeInv

\* A step that records nothing and leaves the stores' types alone.
LEMMA QuietType ==
  ASSUME TypeInv, records' = records, served' = served, granted' \subseteq CaseLearners,
         halts' \subseteq CaseSessions, audit' \in Seq(Nat), incidents' \in Seq(SecurityIncident),
         alerts' \in Seq(Nat), trail' \in Seq(Event), pc' \in PC, job' \in Job,
         pc' # "idle" => job'.session \in CaseSessions /\ job'.user \in CaseLearners,
         pc' \in Working => pc \in Working
  PROVE  TypeInv'
BY DEF TypeInv, TypeOK, Recorded, Job

\* A request's first step.
LEMMA BeginType ==
  ASSUME TypeInv, pc = "idle", records' = records, served' = served + 1, granted' = granted,
         halts' = halts, audit' \in Seq(Nat), incidents' \in Seq(SecurityIncident),
         alerts' = alerts, trail' \in Seq(Event), pc' \in PC, job' \in Job,
         pc' # "idle" => job'.session \in CaseSessions /\ job'.user \in CaseLearners
  PROVE  TypeInv'
<1>1. served \in Nat /\ records \in Seq(InteractionRecord)
  BY DEF TypeInv, TypeOK
<1>2. \A i \in DOMAIN records : records[i].response \in Nat /\ records[i].response <= served
  <2> SUFFICES ASSUME NEW i \in DOMAIN records
               PROVE  records[i].response \in Nat /\ records[i].response <= served
    OBVIOUS
  <2>1. records[i] \in InteractionRecord
    BY <1>1
  <2>2. records[i].response \in Nat
    BY <2>1 DEF InteractionRecord
  <2> QED BY <2>2 DEF TypeInv, Recorded
<1>3. Recorded'
  BY <1>1, <1>2 DEF Recorded
<1>4. TypeOK'
  BY <1>1 DEF TypeInv, TypeOK, Job
<1> QED BY <1>3, <1>4 DEF TypeInv

LEMMA NextType == TypeInv /\ [Next]_vars => TypeInv'
<1> SUFFICES ASSUME TypeInv, [Next]_vars PROVE TypeInv'
  OBVIOUS
<1>t. /\ served \in Nat /\ job \in Job /\ pc \in PC /\ trail \in Seq(Event) /\ audit \in Seq(Nat)
      /\ alerts \in Seq(Nat) /\ incidents \in Seq(SecurityIncident) /\ halts \subseteq CaseSessions
      /\ pc # "idle" => job.session \in CaseSessions /\ job.user \in CaseLearners
  BY DEF TypeInv, TypeOK
<1>a. _audit_event => audit' \in Seq(Nat)
  BY <1>t, Appended DEF _audit_event
<1>i. \A kind \in SecurityIncidentKind : Incident(kind) => incidents' \in Seq(SecurityIncident)
  <2> SUFFICES ASSUME NEW kind \in SecurityIncidentKind, Incident(kind)
               PROVE  incidents' \in Seq(SecurityIncident)
    OBVIOUS
  <2>1. [kind |-> kind, request |-> served] \in SecurityIncident
    BY <1>t DEF SecurityIncident
  <2> QED BY <1>t, <2>1, Appended DEF Incident
<1>s. \A code \in {"ok", "denied", "invalid"}, facts \in SUBSET FactIds, event \in {"check", "read"} :
        See(event, code, facts) => trail' \in Seq(Event)
  <2> SUFFICES ASSUME NEW code \in {"ok", "denied", "invalid"}, NEW facts \in SUBSET FactIds,
                      NEW event \in {"check", "read"}, See(event, code, facts)
               PROVE  trail' \in Seq(Event)
    OBVIOUS
  <2>1. ToldOf(event, code, facts, TRUE, FALSE) \in Event
    BY ToldIsEvent
  <2> QED BY <1>t, <2>1, Appended DEF See
<1>e. \A code \in {"refused", "generation"} :
        _error(code) => job' \in Job /\ pc' = "emit" /\ job'.session = job.session /\ job'.user = job.user
  <2> SUFFICES ASSUME NEW code \in {"refused", "generation"}, _error(code)
               PROVE  job' \in Job /\ pc' = "emit" /\ job'.session = job.session /\ job'.user = job.user
    OBVIOUS
  <2>1. Failing(code) \in Response
    BY Built
  <2>2. pc' = "emit" /\ job' = [job EXCEPT !.response = Failing(code)]
    BY DEF _error, Goto
  <2> HIDE DEF Failing
  <2> QED BY <1>t, <2>1, <2>2 DEF Job
<1>x. \A response \in Response : Send(response, TRUE) =>
        trail' \in Seq(Event) /\ pc' = "idle" /\ job' \in Job
  <2> SUFFICES ASSUME NEW response \in Response, Send(response, TRUE)
               PROVE  trail' \in Seq(Event) /\ pc' = "idle" /\ job' \in Job
    OBVIOUS
  <2>1. ToldOf("sent", response.code, response.facts, TRUE, response.predicts) \in Event
    BY ToldIsEvent DEF Response
  <2> QED BY <1>t, <2>1, Appended, Built DEF Send, Goto
<1>u. Unhandled => trail' \in Seq(Event) /\ pc' = "idle" /\ job' \in Job
  <2>1. Failing("internal_error") \in Response
    BY DEF Failing, Response, ErrorCode
  <2> QED BY <1>x, <2>1 DEF Unhandled
<1>g. pc \in Working /\ _general_fallback /\ trail' \in Seq(Event)
      /\ UNCHANGED <<served, granted, halts, incidents, alerts>> => TypeInv'
  <2> SUFFICES ASSUME pc \in Working, _general_fallback, trail' \in Seq(Event),
                      UNCHANGED <<served, granted, halts, incidents, alerts>>
               PROVE  TypeInv'
    OBVIOUS
  <2>1. General \in Response /\ General.code \in ResponseMode
    BY Built DEF General, ResponseMode
  <2>2. CASE Answer(General)
    BY <2>1, <2>2, AnswerType
  <2>3. CASE Goto("general", job) /\ UNCHANGED <<records, audit>>
    BY <1>t, <2>3, QuietType DEF Goto, PC, Working, TypeInv, TypeOK
  <2> QED BY <2>2, <2>3 DEF _general_fallback
<1>1. CASE SetAccess
  BY <1>t, <1>1, QuietType DEF SetAccess
<1>2. CASE Clear
  <2>1. PICK s \in halts :
          /\ halts' = halts \ {s}
          /\ trail' = Append(trail, [ToldOf("cleared", "ok", {}, TRUE, FALSE) EXCEPT !.session = s])
    BY <1>2 DEF Clear
  <2>2. ToldOf("cleared", "ok", {}, TRUE, FALSE) \in Event
    BY ToldIsEvent
  <2>3. [ToldOf("cleared", "ok", {}, TRUE, FALSE) EXCEPT !.session = s] \in Event
    BY <1>t, <2>2 DEF Event
  <2>4. trail' \in Seq(Event)
    BY <1>t, <2>1, <2>3, Appended
  <2> QED BY <1>t, <1>2, <2>1, <2>4, QuietType DEF Clear, TypeInv, TypeOK
<1>3. CASE Ask
  <2>1. PICK s \in CaseSessions, u \in CaseLearners, guard \in {"none", "outcome_prediction"},
             injection \in BOOLEAN :
       \/ /\ audit' = Append(audit, served')
          /\ Goto("emit", [Request(s, u, guard) EXCEPT !.response = Failing("session_halted")])
          /\ UNCHANGED <<incidents, trail>>
       \/ /\ incidents' = IF injection THEN Append(incidents, [kind |-> "prompt_disclaimer_suppression",
                                                               request |-> served'])
                          ELSE incidents
          /\ Goto("context", Request(s, u, guard))
          /\ UNCHANGED <<audit, trail>>
       \/ /\ trail' = Append(trail, [ToldOf("sent", "internal_error", {}, TRUE, FALSE) EXCEPT
                                       !.request = served', !.session = s, !.user = u])
          /\ UNCHANGED <<incidents, audit, pc, job>>
    BY <1>3 DEF Ask
  <2>2. /\ pc = "idle" /\ served' = served + 1 /\ served' \in Nat
        /\ UNCHANGED <<granted, halts, records, alerts>>
    BY <1>t, <1>3 DEF Ask
  <2>3. Request(s, u, guard) \in Job /\ Request(s, u, guard).session = s /\ Request(s, u, guard).user = u
    BY Built DEF GuardClass
  <2>4. CASE /\ audit' = Append(audit, served')
             /\ Goto("emit", [Request(s, u, guard) EXCEPT !.response = Failing("session_halted")])
             /\ UNCHANGED <<incidents, trail>>
    <3>1. Failing("session_halted") \in Response
      BY Built
    <3>2. /\ job' \in Job /\ job'.session \in CaseSessions /\ job'.user \in CaseLearners
          /\ pc' = "emit"
      <4> HIDE DEF Failing, Request
      <4> QED BY <2>3, <2>4, <3>1 DEF Goto, Job
    <3>3. audit' \in Seq(Nat)
      BY <1>t, <2>2, <2>4, Appended
    <3> QED BY <1>t, <2>2, <2>4, <3>2, <3>3, BeginType DEF PC
  <2>5. CASE /\ incidents' = IF injection
                             THEN Append(incidents, [kind |-> "prompt_disclaimer_suppression",
                                                     request |-> served'])
                             ELSE incidents
             /\ Goto("context", Request(s, u, guard))
             /\ UNCHANGED <<audit, trail>>
    <3>1. [kind |-> "prompt_disclaimer_suppression", request |-> served'] \in SecurityIncident
      BY <2>2 DEF SecurityIncident, SecurityIncidentKind
    <3>2. incidents' \in Seq(SecurityIncident)
      BY <1>t, <2>5, <3>1, Appended
    <3>3. pc' = "context" /\ job' = Request(s, u, guard)
      BY <2>5 DEF Goto
    <3> QED BY <1>t, <2>2, <2>3, <2>5, <3>2, <3>3, BeginType DEF PC
  <2>6. CASE /\ trail' = Append(trail, [ToldOf("sent", "internal_error", {}, TRUE, FALSE) EXCEPT
                                       !.request = served', !.session = s, !.user = u])
             /\ UNCHANGED <<incidents, audit, pc, job>>
    <3>1. ToldOf("sent", "internal_error", {}, TRUE, FALSE) \in Event
      BY ToldIsEvent DEF ErrorCode
    <3>2. [ToldOf("sent", "internal_error", {}, TRUE, FALSE) EXCEPT
            !.request = served', !.session = s, !.user = u] \in Event
      BY <2>2, <3>1 DEF Event
    <3>3. trail' \in Seq(Event)
      BY <1>t, <2>6, <3>2, Appended
    <3> QED BY <1>t, <2>2, <2>6, <3>3, BeginType
  <2> QED BY <2>1, <2>4, <2>5, <2>6
<1>4. CASE ResolveContext
  <2>1. pc \in Working /\ trail' = trail /\ UNCHANGED <<served, granted, halts, incidents, alerts>>
    BY <1>4 DEF ResolveContext, Working
  <2>2. CASE _general_fallback
    BY <1>t, <1>g, <2>1, <2>2
  <2>3. CASE _audit_event /\ _error("refused") /\ UNCHANGED records
    BY <1>t, <1>a, <1>e, <2>1, <2>3, QuietType DEF PC, Working, TypeInv, TypeOK
  <2>4. CASE Goto("access", job) /\ UNCHANGED <<records, audit>>
    BY <1>t, <2>1, <2>4, QuietType DEF Goto, PC, Working, TypeInv, TypeOK
  <2> QED BY <1>4, <2>2, <2>3, <2>4 DEF ResolveContext
<1>5. CASE VerifyReadAccess
  <2>1. pc \in Working /\ UNCHANGED <<served, granted, halts, alerts>>
    BY <1>5 DEF VerifyReadAccess, Working
  <2>2. CASE /\ See("check", "ok", {}) /\ Goto("load", job)
             /\ UNCHANGED <<records, audit, incidents>>
    <3>1. trail' \in Seq(Event)
      BY <1>s, <2>2
    <3> QED BY <1>t, <2>1, <2>2, <3>1, QuietType DEF Goto, PC, Working, TypeInv, TypeOK
  <2>3. CASE /\ See("check", "denied", {})
             /\ Incident("unauthorised_case_access") /\ _audit_event /\ _error("refused")
             /\ UNCHANGED records
    <3>1. trail' \in Seq(Event) /\ incidents' \in Seq(SecurityIncident) /\ audit' \in Seq(Nat)
      BY <1>a, <1>i, <1>s, <2>3 DEF SecurityIncidentKind
    <3> QED BY <1>t, <1>e, <2>1, <2>3, <3>1, QuietType DEF PC, Working, TypeInv, TypeOK
  <2>4. CASE Unhandled /\ UNCHANGED <<records, audit, incidents>>
    BY <1>t, <1>u, <2>1, <2>4, QuietType DEF PC, Working, TypeInv, TypeOK
  <2>5. CASE _general_fallback /\ UNCHANGED <<incidents, trail>>
    BY <1>t, <1>g, <2>1, <2>5
  <2>6. CASE /\ trail' = trail \o <<ToldOf("check", "invalid", {}, TRUE, FALSE),
                                    ToldOf("sent", "internal_error", {}, TRUE, FALSE)>>
             /\ Goto("idle", NoJob)
             /\ UNCHANGED <<records, audit, incidents>>
    <3>1. /\ ToldOf("check", "invalid", {}, TRUE, FALSE) \in Event
          /\ ToldOf("sent", "internal_error", {}, TRUE, FALSE) \in Event
      BY ToldIsEvent DEF ErrorCode
    <3>2. trail' \in Seq(Event)
      <4> DEFINE a == ToldOf("check", "invalid", {}, TRUE, FALSE)
                 b == ToldOf("sent", "internal_error", {}, TRUE, FALSE)
      <4>1. a \in Event /\ b \in Event /\ trail' = trail \o <<a, b>>
        BY <2>6, <3>1
      <4> HIDE DEF a, b
      <4>2. trail \o <<a, b>> = Append(Append(trail, a), b)
        <5>1. \A q \in Seq(Event) : \A x, y \in Event : q \o <<x, y>> = Append(Append(q, x), y)
          BY Paired
        <5> QED BY ONLY <1>t, <4>1, <5>1
      <4>3. Append(trail, a) \in Seq(Event)
        BY <1>t, <4>1, Appended
      <4> QED BY <4>1, <4>2, <4>3, Appended
    <3> QED BY <1>t, <2>1, <2>6, <3>2, Built, QuietType DEF Goto, PC, Working, TypeInv, TypeOK
  <2> QED BY <1>5, <2>2, <2>3, <2>4, <2>5, <2>6 DEF VerifyReadAccess
<1>6. CASE LoadCaseFile
  <2>1. pc \in Working /\ UNCHANGED <<served, granted, halts, incidents, alerts>>
    BY <1>6 DEF LoadCaseFile, Working
  <2>2. CASE _general_fallback /\ UNCHANGED trail
    BY <1>t, <1>g, <2>1, <2>2
  <2>3. ASSUME NEW file \in SUBSET CaseFacts, See("read", "ok", file), UNCHANGED records,
               \/ _audit_event /\ _error("refused")
               \/ Goto("generate", [job EXCEPT !.file = file]) /\ UNCHANGED audit
        PROVE  TypeInv'
    <3>1. trail' \in Seq(Event)
      BY <1>s, <2>3 DEF FactIds
    <3>2. CASE _audit_event /\ _error("refused")
      BY <1>t, <1>a, <1>e, <2>1, <2>3, <3>1, <3>2, QuietType DEF PC, Working, TypeInv, TypeOK
    <3>3. CASE Goto("generate", [job EXCEPT !.file = file]) /\ UNCHANGED audit
      <4>1. /\ job' \in Job /\ job'.session \in CaseSessions /\ job'.user \in CaseLearners
            /\ pc' = "generate"
        BY <1>t, <2>1, <3>3 DEF Goto, Job, Working
      <4> QED BY <1>t, <2>1, <2>3, <3>1, <3>3, <4>1, QuietType DEF PC, Working, TypeInv, TypeOK
    <3> QED BY <2>3, <3>2, <3>3
  <2> QED BY <1>6, <2>2, <2>3 DEF LoadCaseFile
<1>7. CASE Generate
  <2>1. pc \in Working /\ trail' = trail /\ UNCHANGED <<served, granted, halts, incidents, alerts>>
    BY <1>7 DEF Generate, Working
  <2>2. CASE _redirect
    <3>1. PICK cited \in SUBSET job.file :
            Answer([code |-> "case_linked", facts |-> cited, predicts |-> FALSE])
      BY <2>2 DEF _redirect
    <3>2. [code |-> "case_linked", facts |-> cited, predicts |-> FALSE] \in Response
      BY <1>t DEF Job, Response, FactIds, ResponseMode
    <3> QED BY <1>t, <2>1, <3>1, <3>2, AnswerType DEF ResponseMode
  <2>3. CASE _audit_event /\ _error("generation") /\ UNCHANGED records
    BY <1>t, <1>a, <1>e, <2>1, <2>3, QuietType DEF PC, Working, TypeInv, TypeOK
  <2>4. ASSUME NEW facts \in SUBSET FactIds, NEW predicts \in BOOLEAN,
               Answer([code |-> "case_linked", facts |-> facts, predicts |-> predicts])
        PROVE  TypeInv'
    <3>1. [code |-> "case_linked", facts |-> facts, predicts |-> predicts] \in Response
      BY DEF Response, ResponseMode
    <3> QED BY <1>t, <2>1, <2>4, <3>1, AnswerType DEF ResponseMode
  <2> QED BY <1>7, <2>2, <2>3, <2>4 DEF Generate
<1>8. CASE GenerateGeneral
  <2>1. General \in Response /\ General.code \in ResponseMode
    BY Built DEF General, ResponseMode
  <2> QED BY <1>t, <1>8, <2>1, AnswerType DEF GenerateGeneral, Working
<1>9. CASE AskStatus
  <2>1. PICK s \in CaseSessions, u \in CaseLearners :
          \/ /\ trail' = Append(trail, [ToldOf("sent", "refused", {}, TRUE, FALSE) EXCEPT
                                            !.request = served', !.session = s, !.user = u])
             /\ UNCHANGED <<pc, job>>
          \/ /\ Goto("emit", [Request(s, u, "none") EXCEPT !.response = Failing("status")])
             /\ UNCHANGED trail
    BY <1>9 DEF AskStatus
  <2>2. /\ pc = "idle" /\ served' = served + 1 /\ served' \in Nat
        /\ UNCHANGED <<granted, halts, records, audit, incidents, alerts>>
    BY <1>t, <1>9 DEF AskStatus
  <2>3. CASE /\ trail' = Append(trail, [ToldOf("sent", "refused", {}, TRUE, FALSE) EXCEPT
                                            !.request = served', !.session = s, !.user = u])
             /\ UNCHANGED <<pc, job>>
    <3>1. ToldOf("sent", "refused", {}, TRUE, FALSE) \in Event
      BY ToldIsEvent DEF ErrorCode
    <3>2. [ToldOf("sent", "refused", {}, TRUE, FALSE) EXCEPT
             !.request = served', !.session = s, !.user = u] \in Event
      BY <2>2, <3>1 DEF Event
    <3>3. trail' \in Seq(Event)
      BY <1>t, <2>3, <3>2, Appended
    <3> QED BY <1>t, <2>2, <2>3, <3>3, BeginType
  <2>4. CASE /\ Goto("emit", [Request(s, u, "none") EXCEPT !.response = Failing("status")])
             /\ UNCHANGED trail
    <3>1. /\ Request(s, u, "none") \in Job /\ Request(s, u, "none").session = s
          /\ Request(s, u, "none").user = u /\ Failing("status") \in Response
      BY Built DEF GuardClass
    <3>2. /\ job' \in Job /\ job'.session \in CaseSessions /\ job'.user \in CaseLearners
          /\ pc' = "emit"
      BY <2>4, <3>1 DEF Goto, Job
    <3> QED BY <1>t, <2>2, <2>4, <3>2, BeginType DEF PC
  <2> QED BY <2>1, <2>3, <2>4
<1>10. CASE RejectRequest
  <2>1. PICK code \in {"identity", "invalid_request"}, suppression \in BOOLEAN :
          /\ trail' = Append(trail, [ToldOf("sent", code, {}, TRUE, FALSE) EXCEPT !.request = served'])
          /\ incidents' = IF code = "invalid_request" /\ suppression
                          THEN Append(incidents, [kind |-> "request_field_suppression", request |-> served'])
                          ELSE incidents
    BY <1>10 DEF RejectRequest
  <2>2. /\ pc = "idle" /\ served' = served + 1 /\ served' \in Nat
        /\ UNCHANGED <<granted, halts, records, audit, alerts, pc, job>>
    BY <1>t, <1>10 DEF RejectRequest
  <2>3. ToldOf("sent", code, {}, TRUE, FALSE) \in Event
    BY ToldIsEvent DEF ErrorCode
  <2>4. [ToldOf("sent", code, {}, TRUE, FALSE) EXCEPT !.request = served'] \in Event
    BY <2>2, <2>3 DEF Event
  <2>5. trail' \in Seq(Event)
    BY <1>t, <2>1, <2>4, Appended
  <2>6. [kind |-> "request_field_suppression", request |-> served'] \in SecurityIncident
    BY <2>2 DEF SecurityIncident, SecurityIncidentKind
  <2>7. incidents' \in Seq(SecurityIncident)
    BY <1>t, <2>1, <2>6, Appended
  <2> QED BY <1>t, <2>2, <2>5, <2>7, BeginType
<1>11. CASE Emit
  <2>1. pc = "emit" /\ UNCHANGED <<granted, records, audit, incidents, alerts, served>> /\ job.response \in Response
    BY <1>t, <1>11 DEF Emit, Job
  <2>2. CASE Send(job.response, TRUE) /\ UNCHANGED halts
    BY <1>t, <1>x, <2>1, <2>2, QuietType DEF PC, Working, TypeInv, TypeOK
  <2>3. ASSUME NEW absent \in BOOLEAN, halts' = halts \cup {job.session},
               trail' = Append(trail, ToldOf("withheld", job.response.code, {}, FALSE, FALSE)),
               Goto("alert", [job EXCEPT !.absent = absent])
        PROVE  TypeInv'
    <3>1. ToldOf("withheld", job.response.code, {}, FALSE, FALSE) \in Event
      BY <2>1, ToldIsEvent DEF Response
    <3>2. trail' \in Seq(Event)
      BY <1>t, <2>3, <3>1, Appended
    <3>3. /\ job' \in Job /\ job'.session \in CaseSessions /\ job'.user \in CaseLearners
          /\ pc' = "alert" /\ halts' \subseteq CaseSessions
      BY <1>t, <2>1, <2>3 DEF Goto, Job
    <3> QED BY <1>t, <2>1, <3>2, <3>3, QuietType DEF PC, Working, TypeInv, TypeOK
  <2> QED BY <1>11, <2>2, <2>3 DEF Emit
<1>12. CASE AlertAdmin
  <2>1. pc = "alert" /\ UNCHANGED <<granted, halts, records, audit, incidents, served>>
    BY <1>12 DEF AlertAdmin
  <2>2. CASE alerts' = Append(alerts, served) /\ Goto("incident", job) /\ UNCHANGED trail
    <3>1. alerts' \in Seq(Nat)
      BY <1>t, <2>2, Appended
    <3> QED BY <1>t, <2>1, <2>2, <3>1, QuietType DEF Goto, PC, Working, TypeInv, TypeOK
  <2>3. CASE Unhandled /\ UNCHANGED alerts
    BY <1>t, <1>u, <2>1, <2>3, QuietType DEF PC, Working, TypeInv, TypeOK
  <2> QED BY <1>12, <2>2, <2>3 DEF AlertAdmin
<1>13. CASE RecordIncident
  <2>1. pc = "incident" /\ UNCHANGED <<granted, halts, records, audit, alerts, served>>
    BY <1>13 DEF RecordIncident
  <2>2. CASE /\ Incident(IF job.absent THEN "internal_disclaimer_absent" ELSE "internal_disclaimer_altered")
             /\ Send(Failing("response_withheld"), TRUE)
    <3>1. Failing("response_withheld") \in Response
      BY DEF Failing, Response, ErrorCode
    <3>2. incidents' \in Seq(SecurityIncident)
      BY <1>i, <2>2 DEF SecurityIncidentKind
    <3> QED BY <1>t, <1>x, <2>1, <2>2, <3>1, <3>2, QuietType DEF PC, Working, TypeInv, TypeOK
  <2>3. CASE Unhandled /\ UNCHANGED incidents
    BY <1>t, <1>u, <2>1, <2>3, QuietType DEF PC, Working, TypeInv, TypeOK
  <2> QED BY <1>13, <2>2, <2>3 DEF RecordIncident
<1>14. CASE UNCHANGED vars
  BY <1>14 DEF TypeInv, TypeOK, Recorded, vars
<1> QED BY <1>1, <1>2, <1>3, <1>4, <1>5, <1>6, <1>7, <1>8, <1>9, <1>10, <1>11, <1>12, <1>13, <1>14 DEF Next

-----------------------------------------------------------------------------
(* The halt. *)

\* What HaltHolds says of a trail t.
HoldsOf(t) ==
  \A k, l \in DOMAIN t :
    /\ k < l /\ t[k].event = "withheld" /\ t[l].session = t[k].session
    /\ \A c \in k..l : t[c].session = t[k].session => t[c].event # "cleared"
    => t[l].event # "read" /\ t[l].code \notin ResponseMode

\* A withheld response of the trail t has its session among the halted ones
\* unless that was cleared since.
HaltedOf(t, halted) ==
  \A k \in DOMAIN t : t[k].event = "withheld" =>
    \/ t[k].session \in halted
    \/ \E c \in k..Len(t) : t[c].session = t[k].session /\ t[c].event = "cleared"

\* Who may still answer is not in a halted session.
HaltInv ==
  /\ HoldsOf(trail) /\ HaltedOf(trail, halts)
  /\ pc \in Working \/ (pc = "emit" /\ job.response.code \in ResponseMode) =>
       job.session \notin halts

\* One more event keeps the halts when it answers nothing in a halted session,
\* and the session of a withheld response is halted with it.
LEMMA HaltAppended ==
  ASSUME NEW t \in Seq(Event), NEW e \in Event, NEW halted, NEW after,
         HoldsOf(t), HaltedOf(t, halted),
         e.event = "read" \/ e.code \in ResponseMode => e.session \notin halted,
         e.event = "withheld" => e.session \in after,
         \A s \in halted : s \in after \/ (e.event = "cleared" /\ e.session = s)
  PROVE  HoldsOf(Append(t, e)) /\ HaltedOf(Append(t, e), after)
<1> DEFINE n == Len(t)
           u == Append(t, e)
<1>1. /\ n \in Nat /\ DOMAIN t = 1..n /\ DOMAIN u = 1..(n + 1) /\ Len(u) = n + 1
      /\ \A i \in 1..n : u[i] = t[i]
      /\ u[n + 1] = e
  BY AppendProperties
<1> HIDE DEF n, u
<1>2. ASSUME NEW k \in 1..(n + 1), NEW l \in 1..(n + 1), k < l,
             u[k].event = "withheld", u[l].session = u[k].session,
             \A c \in k..l : u[c].session = u[k].session => u[c].event # "cleared"
      PROVE  u[l].event # "read" /\ u[l].code \notin ResponseMode
  <2>1. k \in 1..n /\ u[k] = t[k]
    BY <1>1, <1>2
  <2>2. CASE l \in 1..n
    <3>1. \A c \in k..l : u[c] = t[c]
      BY <1>1, <2>2
    <3>2. \A c \in k..l : t[c].session = t[k].session => t[c].event # "cleared"
      BY <1>2, <2>1, <3>1
    <3> QED BY <1>1, <1>2, <2>1, <2>2, <3>2 DEF HoldsOf
  <2>3. CASE l = n + 1
    <3>1. \A c \in k..n : t[c].session = t[k].session => t[c].event # "cleared"
      BY <1>1, <1>2, <2>1, <2>3
    <3>2. t[k].session \in halted
      BY <1>1, <1>2, <2>1, <3>1 DEF HaltedOf, n
    <3>3. u[l] = e /\ e.session = t[k].session
      BY <1>1, <1>2, <2>1, <2>3
    <3> QED BY <3>2, <3>3
  <2> QED BY <1>1, <2>2, <2>3
<1>3. HoldsOf(u)
  BY <1>1, <1>2 DEF HoldsOf
<1>4. ASSUME NEW k \in 1..(n + 1), u[k].event = "withheld"
      PROVE  \/ u[k].session \in after
             \/ \E c \in k..(n + 1) : u[c].session = u[k].session /\ u[c].event = "cleared"
  <2>1. CASE k = n + 1
    BY <1>1, <1>4, <2>1
  <2>2. CASE k \in 1..n /\ t[k].session \in halted
    BY <1>1, <1>4, <2>2
  <2>3. CASE k \in 1..n /\ \E c \in k..n : t[c].session = t[k].session /\ t[c].event = "cleared"
    BY <1>1, <1>4, <2>3
  <2> QED BY <1>1, <1>4, <2>1, <2>2, <2>3 DEF HaltedOf, n
<1>5. HaltedOf(u, after)
  BY <1>1, <1>4 DEF HaltedOf
<1> QED BY <1>3, <1>5 DEF u

\* A step that appends an event to the trail.
LEMMA HaltStep ==
  ASSUME TypeInv, HaltInv, NEW e \in Event, trail' = Append(trail, e),
         e.event = "read" \/ e.code \in ResponseMode => e.session \notin halts,
         e.event = "withheld" => e.session \in halts',
         \A s \in halts : s \in halts' \/ (e.event = "cleared" /\ e.session = s),
         pc' \in Working \/ (pc' = "emit" /\ job'.response.code \in ResponseMode) =>
           job'.session \notin halts'
  PROVE  HaltInv'
<1>1. trail \in Seq(Event) /\ HoldsOf(trail) /\ HaltedOf(trail, halts)
  BY DEF TypeInv, TypeOK, HaltInv
<1>2. HoldsOf(Append(trail, e)) /\ HaltedOf(Append(trail, e), halts')
  BY <1>1, HaltAppended
<1>3. HoldsOf(trail') /\ HaltedOf(trail', halts')
  BY <1>2
<1> QED BY <1>3 DEF HaltInv

\* A step that leaves the trail and the halts alone.
LEMMA HaltQuiet ==
  ASSUME HaltInv, UNCHANGED <<trail, halts>>,
         pc' \in Working \/ (pc' = "emit" /\ job'.response.code \in ResponseMode) =>
           job'.session \notin halts
  PROVE  HaltInv'
BY DEF HaltInv

\* No refusal is an answer.
LEMMA CodesApart ==
  \A code \in ErrorCode \cup {"status", "ok", "denied", "invalid"} : code \notin ResponseMode
BY DEF ErrorCode, ResponseMode

\* What leaves a working request: an answer or a refusal, for its session.
LEMMA WorkingEnds ==
  ASSUME TypeInv, HaltInv, pc \in Working,
         NEW response \in Response, pc' \in PC,
         job' = [job EXCEPT !.response = response], UNCHANGED <<trail, halts>>
  PROVE  HaltInv'
<1>1. job'.session = job.session /\ job.session \notin halts
  BY DEF TypeInv, Job, HaltInv
<1> QED BY <1>1, HaltQuiet

LEMMA FallbackHalt ==
  ASSUME TypeInv, HaltInv, pc \in Working, _general_fallback, UNCHANGED <<trail, halts>>
  PROVE  HaltInv'
<1>1. job.session \notin halts /\ job \in Job
  BY DEF TypeInv, HaltInv
<1>2. job'.session = job.session
  BY <1>1 DEF _general_fallback, Answer, Goto, Job
<1> QED BY <1>1, <1>2, HaltQuiet

\* An error that leaves ends its request.
LEMMA ErrorSent ==
  ASSUME TypeInv, HaltInv, NEW code \in ErrorCode, Send(Failing(code), TRUE), UNCHANGED halts
  PROVE  HaltInv'
<1> DEFINE e == ToldOf("sent", code, {}, TRUE, FALSE)
<1>1. e \in Event
  BY ToldIsEvent
<1>2. trail' = Append(trail, e) /\ pc' = "idle"
  BY DEF Send, Goto, Failing
<1>3. e.event = "sent" /\ e.code \notin ResponseMode
  BY CodesApart DEF ToldOf
<1> HIDE DEF e
<1> QED BY <1>1, <1>2, <1>3, HaltStep DEF Working

LEMMA NextHalt == TypeInv /\ HaltInv /\ [Next]_vars => HaltInv'
<1> SUFFICES ASSUME TypeInv, HaltInv, [Next]_vars PROVE HaltInv'
  OBVIOUS
<1>t. /\ served \in Nat /\ job \in Job /\ pc \in PC /\ halts \subseteq CaseSessions
      /\ pc # "idle" => job.session \in CaseSessions /\ job.user \in CaseLearners
      /\ pc \in Working => job.session \notin halts
  BY DEF TypeInv, TypeOK, HaltInv
<1>1. CASE SetAccess
  BY <1>1, HaltQuiet DEF SetAccess, HaltInv
<1>2. CASE Clear
  <2>1. PICK s \in halts :
          /\ halts' = halts \ {s}
          /\ trail' = Append(trail, [ToldOf("cleared", "ok", {}, TRUE, FALSE) EXCEPT !.session = s])
    BY <1>2 DEF Clear
  <2> DEFINE e == [ToldOf("cleared", "ok", {}, TRUE, FALSE) EXCEPT !.session = s]
  <2>2. e \in Event
    <3>1. ToldOf("cleared", "ok", {}, TRUE, FALSE) \in Event
      BY ToldIsEvent
    <3> QED BY <1>t, <3>1 DEF Event
  <2>3. e.event = "cleared" /\ e.code = "ok" /\ e.session = s
    BY DEF ToldOf
  <2>4. pc = "idle" /\ pc' = pc
    BY <1>2 DEF Clear
  <2> HIDE DEF e
  <2> QED BY <2>1, <2>2, <2>3, <2>4, CodesApart, HaltStep DEF e, Working
<1>3. CASE Ask
  <2>1. PICK s \in CaseSessions, u \in CaseLearners, guard \in {"none", "outcome_prediction"} :
       \/ Goto("emit", [Request(s, u, guard) EXCEPT !.response = Failing("session_halted")]) /\ trail' = trail
       \/ s \notin halts /\ Goto("context", Request(s, u, guard)) /\ trail' = trail
       \/ /\ trail' = Append(trail, [ToldOf("sent", "internal_error", {}, TRUE, FALSE) EXCEPT
                                       !.request = served', !.session = s, !.user = u])
          /\ UNCHANGED <<pc, job>>
    BY <1>3 DEF Ask
  <2>2. pc = "idle" /\ halts' = halts /\ served' \in Nat
    BY <1>t, <1>3 DEF Ask
  <2>3. CASE Goto("emit", [Request(s, u, guard) EXCEPT !.response = Failing("session_halted")]) /\ trail' = trail
    <3>1. pc' = "emit" /\ job'.response.code = "session_halted"
      BY <2>3 DEF Goto, Request, NoJob, Failing
    <3> QED BY <2>2, <2>3, <3>1, HaltQuiet DEF Working, ResponseMode
  <2>4. CASE s \notin halts /\ Goto("context", Request(s, u, guard)) /\ trail' = trail
    <3>1. job'.session = s
      BY <2>4, Built DEF Goto, GuardClass
    <3> QED BY <2>2, <2>4, <3>1, HaltQuiet
  <2>5. CASE /\ trail' = Append(trail, [ToldOf("sent", "internal_error", {}, TRUE, FALSE) EXCEPT
                                       !.request = served', !.session = s, !.user = u])
             /\ UNCHANGED <<pc, job>>
    <3> DEFINE e == [ToldOf("sent", "internal_error", {}, TRUE, FALSE) EXCEPT
                       !.request = served', !.session = s, !.user = u]
    <3>1. e \in Event
      <4>1. ToldOf("sent", "internal_error", {}, TRUE, FALSE) \in Event
        BY ToldIsEvent DEF ErrorCode
      <4> QED BY <2>2, <4>1 DEF Event
    <3>2. e.event = "sent" /\ e.code = "internal_error"
      BY DEF ToldOf
    <3>3. trail' = Append(trail, e)
      BY <2>5
    <3> HIDE DEF e
    <3> QED BY <2>2, <2>5, <3>1, <3>2, <3>3, HaltStep DEF Working, ResponseMode
  <2> QED BY <2>1, <2>3, <2>4, <2>5
<1>4. CASE ResolveContext
  <2>1. pc \in Working /\ UNCHANGED <<trail, halts>>
    BY <1>4 DEF ResolveContext, Working
  <2>2. CASE _general_fallback
    BY <2>1, <2>2, FallbackHalt
  <2>3. CASE _error("refused") \/ Goto("access", job)
    <3>1. job'.session = job.session
      BY <1>t, <2>3 DEF _error, Goto, Job
    <3> QED BY <1>t, <2>1, <3>1, HaltQuiet
  <2> QED BY <1>4, <2>2, <2>3 DEF ResolveContext
<1>5. CASE VerifyReadAccess
  <2>1. pc \in Working /\ halts' = halts
    BY <1>5 DEF VerifyReadAccess, Working
  <2>2. ASSUME NEW code \in {"ok", "denied"}, See("check", code, {}),
               Goto("load", job) \/ _error("refused")
        PROVE  HaltInv'
    <3> DEFINE e == ToldOf("check", code, {}, TRUE, FALSE)
    <3>1. e \in Event /\ trail' = Append(trail, e)
      BY <2>2, ToldIsEvent DEF See
    <3>2. e.event = "check" /\ e.code \notin ResponseMode
      BY DEF ToldOf, ResponseMode
    <3>3. job'.session = job.session
      BY <1>t, <2>2 DEF _error, Goto, Job
    <3> HIDE DEF e
    <3> QED BY <1>t, <2>1, <3>1, <3>2, <3>3, HaltStep
  <2>3. CASE Unhandled
    BY <2>1, <2>3, ErrorSent DEF Unhandled, ErrorCode
  <2>4. CASE _general_fallback /\ UNCHANGED trail
    BY <2>1, <2>4, FallbackHalt
  <2>5. CASE /\ trail' = trail \o <<ToldOf("check", "invalid", {}, TRUE, FALSE),
                                    ToldOf("sent", "internal_error", {}, TRUE, FALSE)>>
             /\ Goto("idle", NoJob)
    <3> DEFINE a == ToldOf("check", "invalid", {}, TRUE, FALSE)
               b == ToldOf("sent", "internal_error", {}, TRUE, FALSE)
    <3>1. a \in Event /\ b \in Event
      BY ToldIsEvent DEF ErrorCode
    <3>2. /\ a.event = "check" /\ a.code \notin ResponseMode
          /\ b.event = "sent" /\ b.code \notin ResponseMode
      BY DEF ToldOf, ResponseMode
    <3>3. trail' = trail \o <<a, b>> /\ trail \in Seq(Event) /\ pc' = "idle"
      BY <2>5 DEF Goto, TypeInv, TypeOK
    <3> HIDE DEF a, b
    <3>4. trail' = Append(Append(trail, a), b)
      <4>1. \A q \in Seq(Event) : \A x, y \in Event : q \o <<x, y>> = Append(Append(q, x), y)
        BY Paired
      <4> QED BY ONLY <3>1, <3>3, <4>1
    <3>5. HoldsOf(Append(trail, a)) /\ HaltedOf(Append(trail, a), halts)
      BY <3>1, <3>2, <3>3, HaltAppended DEF HaltInv
    <3>6. Append(trail, a) \in Seq(Event)
      BY <3>1, <3>3, Appended
    <3>7. HoldsOf(trail') /\ HaltedOf(trail', halts)
      BY <3>1, <3>2, <3>4, <3>5, <3>6, HaltAppended
    <3> QED BY <2>1, <3>3, <3>7 DEF HaltInv, Working
  <2> QED BY <1>5, <2>2, <2>3, <2>4, <2>5 DEF VerifyReadAccess
<1>6. CASE LoadCaseFile
  <2>1. pc \in Working /\ halts' = halts
    BY <1>6 DEF LoadCaseFile, Working
  <2>2. CASE _general_fallback /\ UNCHANGED trail
    BY <2>1, <2>2, FallbackHalt
  <2>3. ASSUME NEW file \in SUBSET CaseFacts, See("read", "ok", file),
               _error("refused") \/ Goto("generate", [job EXCEPT !.file = file])
        PROVE  HaltInv'
    <3> DEFINE e == ToldOf("read", "ok", file, TRUE, FALSE)
    <3>1. e \in Event /\ trail' = Append(trail, e)
      BY <2>3, ToldIsEvent DEF See, FactIds
    <3>2. e.event = "read" /\ e.session = job.session
      BY DEF ToldOf
    <3>3. job'.session = job.session
      BY <1>t, <2>3 DEF _error, Goto, Job
    <3> HIDE DEF e
    <3> QED BY <1>t, <2>1, <3>1, <3>2, <3>3, HaltStep
  <2> QED BY <1>6, <2>2, <2>3 DEF LoadCaseFile
<1>7. CASE Generate \/ GenerateGeneral
  <2>1. pc \in Working /\ UNCHANGED <<trail, halts>>
    BY <1>7 DEF Generate, GenerateGeneral, Working
  <2>2. job'.session = job.session
    BY <1>t, <1>7 DEF Generate, GenerateGeneral, _redirect, Answer, _error, Goto, Job
  <2> QED BY <1>t, <2>1, <2>2, HaltQuiet
<1>8. CASE AskStatus
  <2>1. PICK s \in CaseSessions, u \in CaseLearners :
          \/ /\ trail' = Append(trail, [ToldOf("sent", "refused", {}, TRUE, FALSE) EXCEPT
                                            !.request = served', !.session = s, !.user = u])
             /\ UNCHANGED <<pc, job>>
          \/ /\ Goto("emit", [Request(s, u, "none") EXCEPT !.response = Failing("status")])
             /\ UNCHANGED trail
    BY <1>8 DEF AskStatus
  <2>2. pc = "idle" /\ halts' = halts /\ served' \in Nat
    BY <1>t, <1>8 DEF AskStatus
  <2>3. CASE /\ trail' = Append(trail, [ToldOf("sent", "refused", {}, TRUE, FALSE) EXCEPT
                                            !.request = served', !.session = s, !.user = u])
             /\ UNCHANGED <<pc, job>>
    <3> DEFINE e == [ToldOf("sent", "refused", {}, TRUE, FALSE) EXCEPT
                       !.request = served', !.session = s, !.user = u]
    <3>1. e \in Event
      <4>1. ToldOf("sent", "refused", {}, TRUE, FALSE) \in Event
        BY ToldIsEvent DEF ErrorCode
      <4> QED BY <2>2, <4>1 DEF Event
    <3>2. e.event = "sent" /\ e.code = "refused"
      BY DEF ToldOf
    <3>3. trail' = Append(trail, e)
      BY <2>3
    <3> HIDE DEF e
    <3> QED BY <2>2, <2>3, <3>1, <3>2, <3>3, HaltStep DEF Working, ResponseMode
  <2>4. CASE /\ Goto("emit", [Request(s, u, "none") EXCEPT !.response = Failing("status")])
             /\ UNCHANGED trail
    <3>1. pc' = "emit" /\ job'.response.code = "status"
      BY <2>4 DEF Goto, Request, NoJob, Failing
    <3> QED BY <2>2, <2>4, <3>1, HaltQuiet DEF Working, ResponseMode
  <2> QED BY <2>1, <2>3, <2>4
<1>9. CASE RejectRequest
  <2>1. PICK code \in {"identity", "invalid_request"} :
          trail' = Append(trail, [ToldOf("sent", code, {}, TRUE, FALSE) EXCEPT !.request = served'])
    BY <1>9 DEF RejectRequest
  <2>2. pc = "idle" /\ pc' = pc /\ halts' = halts /\ served' \in Nat
    BY <1>t, <1>9 DEF RejectRequest
  <2> DEFINE e == [ToldOf("sent", code, {}, TRUE, FALSE) EXCEPT !.request = served']
  <2>3. e \in Event
    <3>1. ToldOf("sent", code, {}, TRUE, FALSE) \in Event
      BY ToldIsEvent DEF ErrorCode
    <3> QED BY <2>2, <3>1 DEF Event
  <2>4. e.event = "sent" /\ e.code \notin ResponseMode
    BY DEF ToldOf, ResponseMode
  <2>5. trail' = Append(trail, e)
    BY <2>1
  <2> HIDE DEF e
  <2> QED BY <2>2, <2>3, <2>4, <2>5, HaltStep DEF Working
<1>10. CASE Emit
  <2>1. /\ pc = "emit" /\ job.response \in Response
        /\ job.response.code \in ResponseMode => job.session \notin halts
    BY <1>t, <1>10 DEF Emit, Job, HaltInv
  <2>2. CASE Send(job.response, TRUE) /\ UNCHANGED halts
    <3> DEFINE e == ToldOf("sent", job.response.code, job.response.facts, TRUE, job.response.predicts)
    <3>1. e \in Event
      BY <2>1, ToldIsEvent DEF Response
    <3>2. trail' = Append(trail, e) /\ pc' = "idle"
      BY <2>2 DEF Send, Goto
    <3>3. e.event = "sent" /\ e.code = job.response.code /\ e.session = job.session
      BY DEF ToldOf
    <3> HIDE DEF e
    <3> QED BY <2>1, <2>2, <3>1, <3>2, <3>3, HaltStep DEF Working
  <2>3. ASSUME halts' = halts \cup {job.session}, pc' = "alert",
               trail' = Append(trail, ToldOf("withheld", job.response.code, {}, FALSE, FALSE))
        PROVE  HaltInv'
    <3> DEFINE e == ToldOf("withheld", job.response.code, {}, FALSE, FALSE)
    <3>1. e \in Event
      BY <2>1, ToldIsEvent DEF Response
    <3>2. e.event = "withheld" /\ e.code = job.response.code /\ e.session = job.session
      BY DEF ToldOf
    <3>3. trail' = Append(trail, e)
      BY <2>3
    <3> HIDE DEF e
    <3> QED BY <2>1, <2>3, <3>1, <3>2, <3>3, HaltStep DEF Working
  <2> QED BY <1>10, <2>2, <2>3 DEF Emit, Goto
<1>11. CASE AlertAdmin
  <2>1. CASE Goto("incident", job) /\ UNCHANGED trail
    BY <1>11, <2>1, HaltQuiet DEF AlertAdmin, Goto, Working
  <2>2. CASE Unhandled
    BY <1>11, <2>2, ErrorSent DEF AlertAdmin, Unhandled, ErrorCode
  <2> QED BY <1>11, <2>1, <2>2 DEF AlertAdmin
<1>12. CASE RecordIncident
  <2>1. halts' = halts /\ (Unhandled \/ Send(Failing("response_withheld"), TRUE))
    BY <1>12 DEF RecordIncident
  <2> QED BY <2>1, ErrorSent DEF Unhandled, ErrorCode
<1>13. CASE UNCHANGED vars
  BY <1>13 DEF HaltInv, vars
<1> QED BY <1>1, <1>2, <1>3, <1>4, <1>5, <1>6, <1>7, <1>8, <1>9, <1>10, <1>11, <1>12, <1>13 DEF Next

-----------------------------------------------------------------------------
(* The reader of the case file. *)

\* What ContentHasItsReader says of a trail t.
ReaderOf(t) ==
  \A k \in DOMAIN t :
    LET e == t[k]
        before(event) == k > 1 /\ t[k-1].event = event /\ t[k-1].request = e.request
    IN /\ e.event = "read" => before("check") /\ t[k-1].code = "ok" /\ t[k-1].user = e.user
       /\ (e.event = "sent" /\ e.facts # {}) => before("read") /\ e.facts \subseteq t[k-1].facts
       /\ e.event = "sent" => e.labelled /\ ~ e.predicts

LastIs(t, event, request) ==
  Len(t) > 0 /\ t[Len(t)].event = event /\ t[Len(t)].request = request

\* The trail t ends with the check of a reader, with the reading of facts.
EndsWithCheck(t, request, user) ==
  LastIs(t, "check", request) /\ t[Len(t)].code = "ok" /\ t[Len(t)].user = user
EndsWithRead(t, request, facts) ==
  LastIs(t, "read", request) /\ facts \subseteq t[Len(t)].facts

\* What may follow on the trail t.
Fits(t, e) ==
  /\ e.event = "read" => EndsWithCheck(t, e.request, e.user)
  /\ (e.event = "sent" /\ e.facts # {}) => EndsWithRead(t, e.request, e.facts)
  /\ e.event = "sent" => e.labelled /\ ~ e.predicts

ReaderInv ==
  /\ ReaderOf(trail)
  /\ pc = "load" => EndsWithCheck(trail, served, job.user)
  /\ pc = "generate" => EndsWithRead(trail, served, job.file)
  /\ pc = "emit" => /\ ~ job.response.predicts
                    /\ job.response.facts # {} => EndsWithRead(trail, served, job.response.facts)

LEMMA ReaderAppended ==
  ASSUME NEW t \in Seq(Event), NEW e \in Event, ReaderOf(t), Fits(t, e)
  PROVE  ReaderOf(Append(t, e))
<1> DEFINE n == Len(t)
           u == Append(t, e)
<1>1. /\ n \in Nat /\ DOMAIN t = 1..n /\ DOMAIN u = 1..(n + 1)
      /\ \A i \in 1..n : u[i] = t[i]
      /\ u[n + 1] = e
  BY AppendProperties
<1>2. Fits(t, e) <=> /\ e.event = "read" => /\ n > 0 /\ t[n].event = "check" /\ t[n].request = e.request
                                           /\ t[n].code = "ok" /\ t[n].user = e.user
                     /\ (e.event = "sent" /\ e.facts # {}) =>
                          /\ n > 0 /\ t[n].event = "read" /\ t[n].request = e.request
                          /\ e.facts \subseteq t[n].facts
                     /\ e.event = "sent" => e.labelled /\ ~ e.predicts
  BY DEF Fits, EndsWithCheck, EndsWithRead, LastIs
<1> HIDE DEF n, u
<1>3. ASSUME NEW k \in 1..n
      PROVE  u[k] = t[k] /\ (k > 1 => u[k-1] = t[k-1])
  BY <1>1
<1>4. n > 0 => u[n] = t[n]
  BY <1>1
<1> SUFFICES ASSUME NEW k \in 1..(n + 1)
             PROVE  LET f == u[k]
                        before(event) == k > 1 /\ u[k-1].event = event /\ u[k-1].request = f.request
                    IN /\ f.event = "read" => before("check") /\ u[k-1].code = "ok" /\ u[k-1].user = f.user
                       /\ (f.event = "sent" /\ f.facts # {}) => before("read") /\ f.facts \subseteq u[k-1].facts
                       /\ f.event = "sent" => f.labelled /\ ~ f.predicts
  BY <1>1 DEF ReaderOf, u
<1>5. CASE k \in 1..n
  BY <1>1, <1>3, <1>5 DEF ReaderOf
<1>6. CASE k = n + 1
  <2>1. u[k] = e /\ k - 1 = n /\ (n > 0 => u[k-1] = t[n]) /\ (k > 1 <=> n > 0)
    BY <1>1, <1>4, <1>6
  <2> QED BY <1>2, <2>1
<1> QED BY <1>1, <1>5, <1>6

\* An error that leaves ends its request.
LEMMA ErrorRead ==
  ASSUME TypeInv, ReaderInv, NEW code \in ErrorCode, Send(Failing(code), TRUE)
  PROVE  ReaderInv'
<1> DEFINE e == ToldOf("sent", code, {}, TRUE, FALSE)
<1>1. e \in Event /\ trail \in Seq(Event)
  BY ToldIsEvent DEF TypeInv, TypeOK
<1>2. trail' = Append(trail, e) /\ pc' = "idle"
  BY DEF Send, Goto, Failing
<1>3. Fits(trail, e)
  BY DEF ToldOf, Fits
<1> HIDE DEF e
<1>4. ReaderOf(trail')
  BY <1>1, <1>2, <1>3, ReaderAppended DEF ReaderInv
<1> QED BY <1>2, <1>4 DEF ReaderInv

\* A step that leaves the trail alone and answers without facts, if it answers.
LEMMA ReaderQuiet ==
  ASSUME ReaderInv, UNCHANGED <<trail, served>>, pc' \notin {"load", "generate"},
         pc' = "emit" => job'.response.facts = {} /\ ~ job'.response.predicts
  PROVE  ReaderInv'
BY DEF ReaderInv

LEMMA FallbackRead ==
  ASSUME TypeInv, ReaderInv, _general_fallback, UNCHANGED <<trail, served>>
  PROVE  ReaderInv'
<1>1. job \in Job
  BY DEF TypeInv
<1>2. CASE Answer(General)
  <2>1. pc' = "emit" /\ job'.response = General
    BY <1>1, <1>2 DEF Answer, Goto, Job
  <2> QED BY <2>1, ReaderQuiet DEF General
<1>3. CASE Goto("general", job)
  BY <1>3, ReaderQuiet DEF Goto
<1> QED BY <1>2, <1>3 DEF _general_fallback

\* A refusal says nothing of the file.
LEMMA RefusalRead ==
  ASSUME TypeInv, NEW code, _error(code)
  PROVE  pc' = "emit" /\ job'.response.facts = {} /\ ~ job'.response.predicts
BY DEF _error, Goto, Failing, TypeInv, Job

LEMMA NextReader == TypeInv /\ ReaderInv /\ [Next]_vars => ReaderInv'
<1> SUFFICES ASSUME TypeInv, ReaderInv, [Next]_vars PROVE ReaderInv'
  OBVIOUS
<1>t. /\ served \in Nat /\ job \in Job /\ pc \in PC /\ trail \in Seq(Event)
  BY DEF TypeInv, TypeOK
\* One more event, after which nothing rests on the trail.
<1>a. ASSUME NEW e \in Event, trail' = Append(trail, e), Fits(trail, e),
             pc' \notin {"load", "generate", "emit"}
      PROVE  ReaderInv'
  <2>1. ReaderOf(trail')
    BY <1>t, <1>a, ReaderAppended DEF ReaderInv
  <2> QED BY <1>a, <2>1 DEF ReaderInv
<1>1. CASE SetAccess \/ UNCHANGED vars
  BY <1>1 DEF SetAccess, vars, ReaderInv
<1>2. CASE Clear
  <2>1. PICK s \in halts : trail' = Append(trail, [ToldOf("cleared", "ok", {}, TRUE, FALSE) EXCEPT !.session = s])
    BY <1>2 DEF Clear
  <2> DEFINE e == [ToldOf("cleared", "ok", {}, TRUE, FALSE) EXCEPT !.session = s]
  <2>2. e \in Event
    <3>1. ToldOf("cleared", "ok", {}, TRUE, FALSE) \in Event /\ s \in CaseSessions
      BY ToldIsEvent DEF TypeInv, TypeOK
    <3> QED BY <3>1 DEF Event
  <2>3. Fits(trail, e)
    BY DEF ToldOf, Fits
  <2>4. pc' = "idle" /\ trail' = Append(trail, e)
    BY <1>2, <2>1 DEF Clear
  <2> HIDE DEF e
  <2> QED BY <1>a, <2>2, <2>3, <2>4
<1>3. CASE Ask \/ AskStatus \/ RejectRequest
  <2>1. pc = "idle" /\ served' \in Nat
    <3>1. pc = "idle" /\ served' = served + 1
      <4>1. CASE Ask
        BY <4>1 DEF Ask
      <4>2. CASE AskStatus
        BY <4>2 DEF AskStatus
      <4>3. CASE RejectRequest
        BY <4>3 DEF RejectRequest
      <4> QED BY <1>3, <4>1, <4>2, <4>3
    <3> QED BY <1>t, <3>1
  <2>2. CASE trail' = trail
    <3>1. pc' = "context" \/ (pc' = "emit" /\ job'.response.facts = {} /\ ~ job'.response.predicts) \/ pc' = "idle"
      <4>a. ASSUME NEW s, NEW u, NEW g, NEW code,
                   Goto("emit", [Request(s, u, g) EXCEPT !.response = Failing(code)])
            PROVE  pc' = "emit" /\ job'.response.facts = {} /\ ~ job'.response.predicts
        BY <4>a DEF Goto, Request, NoJob, Failing
      <4>1. CASE Ask
        <5>1. \/ pc' = "context" \/ pc' = pc
              \/ \E s, u, g : Goto("emit", [Request(s, u, g) EXCEPT !.response = Failing("session_halted")])
          BY <4>1 DEF Ask, Goto
        <5> QED BY <2>1, <4>a, <5>1
      <4>2. CASE AskStatus
        <5>1. \/ pc' = pc
              \/ \E s, u : Goto("emit", [Request(s, u, "none") EXCEPT !.response = Failing("status")])
          BY <4>2 DEF AskStatus
        <5> QED BY <2>1, <4>a, <5>1
      <4>3. CASE RejectRequest
        BY <2>1, <4>3 DEF RejectRequest
      <4> QED BY <1>3, <4>1, <4>2, <4>3
    <3> QED BY <2>2, <3>1 DEF ReaderInv
  <2>3. ASSUME NEW code \in ErrorCode, NEW s \in CaseSessions \cup {None}, NEW u \in CaseLearners \cup {None},
               trail' = Append(trail, [ToldOf("sent", code, {}, TRUE, FALSE) EXCEPT
                                         !.request = served', !.session = s, !.user = u]),
               pc' = pc
        PROVE  ReaderInv'
    <3> DEFINE e == [ToldOf("sent", code, {}, TRUE, FALSE) EXCEPT
                       !.request = served', !.session = s, !.user = u]
    <3>1. e \in Event
      <4>1. ToldOf("sent", code, {}, TRUE, FALSE) \in Event
        BY ToldIsEvent
      <4> QED BY <2>1, <4>1 DEF Event
    <3>2. Fits(trail, e)
      BY DEF ToldOf, Fits
    <3>3. trail' = Append(trail, e)
      BY <2>3
    <3> HIDE DEF e
    <3> QED BY <1>a, <2>1, <2>3, <3>1, <3>2, <3>3
  <2>4. CASE Ask
    <3>1. \/ trail' = trail
          \/ \E s \in CaseSessions, u \in CaseLearners :
               /\ trail' = Append(trail, [ToldOf("sent", "internal_error", {}, TRUE, FALSE) EXCEPT
                                            !.request = served', !.session = s, !.user = u])
               /\ pc' = pc
      BY <2>4 DEF Ask
    <3> QED BY <2>2, <2>3, <3>1 DEF ErrorCode
  <2>5. CASE AskStatus
    <3>1. \/ trail' = trail
          \/ \E s \in CaseSessions, u \in CaseLearners :
               /\ trail' = Append(trail, [ToldOf("sent", "refused", {}, TRUE, FALSE) EXCEPT
                                            !.request = served', !.session = s, !.user = u])
               /\ pc' = pc
      BY <2>5 DEF AskStatus
    <3> QED BY <2>2, <2>3, <3>1 DEF ErrorCode
  <2>6. CASE RejectRequest
    <3>1. PICK code \in {"identity", "invalid_request"} :
            trail' = Append(trail, [ToldOf("sent", code, {}, TRUE, FALSE) EXCEPT !.request = served'])
      BY <2>6 DEF RejectRequest
    <3> DEFINE e == [ToldOf("sent", code, {}, TRUE, FALSE) EXCEPT !.request = served']
    <3>2. e \in Event
      <4>1. ToldOf("sent", code, {}, TRUE, FALSE) \in Event
        BY ToldIsEvent DEF ErrorCode
      <4> QED BY <2>1, <4>1 DEF Event
    <3>3. Fits(trail, e)
      BY DEF ToldOf, Fits
    <3>4. trail' = Append(trail, e) /\ pc' = "idle"
      BY <2>1, <2>6, <3>1 DEF RejectRequest
    <3> HIDE DEF e
    <3> QED BY <1>a, <3>2, <3>3, <3>4
  <2> QED BY <1>3, <2>4, <2>5, <2>6
<1>4. CASE ResolveContext
  <2>1. UNCHANGED <<trail, served>>
    BY <1>4 DEF ResolveContext
  <2>2. CASE _general_fallback
    BY <2>1, <2>2, FallbackRead
  <2>3. CASE _error("refused")
    BY <2>1, <2>3, RefusalRead, ReaderQuiet
  <2>4. CASE Goto("access", job)
    BY <2>1, <2>4, ReaderQuiet DEF Goto
  <2> QED BY <1>4, <2>2, <2>3, <2>4 DEF ResolveContext
<1>5. CASE VerifyReadAccess
  <2>1. served' = served
    BY <1>5 DEF VerifyReadAccess
  <2>2. ASSUME NEW code \in {"ok", "denied"}, See("check", code, {}),
               (code = "ok" /\ Goto("load", job)) \/ _error("refused")
        PROVE  ReaderInv'
    <3> DEFINE e == ToldOf("check", code, {}, TRUE, FALSE)
    <3>1. e \in Event /\ trail' = Append(trail, e)
      BY <2>2, ToldIsEvent DEF See
    <3>2. Fits(trail, e) /\ e.event = "check" /\ e.code = code /\ e.request = served /\ e.user = job.user
      BY DEF ToldOf, Fits
    <3> HIDE DEF e
    <3>3. ReaderOf(trail')
      BY <1>t, <3>1, <3>2, ReaderAppended DEF ReaderInv
    <3>4. Len(trail') > 0 /\ trail'[Len(trail')] = e
      BY <1>t, <3>1, Appended
    <3>5. CASE code = "ok" /\ Goto("load", job)
      <4>1. EndsWithCheck(trail', served', job'.user) /\ pc' = "load"
        BY <2>1, <3>2, <3>4, <3>5 DEF EndsWithCheck, LastIs, Goto
      <4> QED BY <3>3, <4>1 DEF ReaderInv
    <3>6. CASE _error("refused")
      BY <3>3, <3>6, RefusalRead DEF ReaderInv
    <3> QED BY <2>2, <3>5, <3>6
  <2>3. CASE Unhandled
    BY <2>3, ErrorRead DEF Unhandled, ErrorCode
  <2>4. CASE _general_fallback /\ UNCHANGED trail
    BY <2>1, <2>4, FallbackRead
  <2>5. CASE /\ trail' = trail \o <<ToldOf("check", "invalid", {}, TRUE, FALSE),
                                    ToldOf("sent", "internal_error", {}, TRUE, FALSE)>>
             /\ Goto("idle", NoJob)
    <3> DEFINE a == ToldOf("check", "invalid", {}, TRUE, FALSE)
               b == ToldOf("sent", "internal_error", {}, TRUE, FALSE)
    <3>1. a \in Event /\ b \in Event
      BY ToldIsEvent DEF ErrorCode
    <3>2. Fits(trail, a) /\ Fits(Append(trail, a), b)
      BY DEF ToldOf, Fits
    <3>3. trail' = trail \o <<a, b>> /\ pc' = "idle"
      BY <2>5 DEF Goto
    <3> HIDE DEF a, b
    <3>4. trail' = Append(Append(trail, a), b)
      <4>1. \A q \in Seq(Event) : \A x, y \in Event : q \o <<x, y>> = Append(Append(q, x), y)
        BY Paired
      <4> QED BY ONLY <1>t, <3>1, <3>3, <4>1
    <3>5. ReaderOf(Append(trail, a))
      BY <1>t, <3>1, <3>2, ReaderAppended DEF ReaderInv
    <3>6. Append(trail, a) \in Seq(Event)
      BY <1>t, <3>1, Appended
    <3>7. ReaderOf(trail')
      BY <3>1, <3>2, <3>4, <3>5, <3>6, ReaderAppended
    <3> QED BY <3>3, <3>7 DEF ReaderInv
  <2> QED BY <1>5, <2>2, <2>3, <2>4, <2>5 DEF VerifyReadAccess
<1>6. CASE LoadCaseFile
  <2>1. pc = "load" /\ served' = served
    BY <1>6 DEF LoadCaseFile
  <2>2. CASE _general_fallback /\ UNCHANGED trail
    BY <2>1, <2>2, FallbackRead
  <2>3. ASSUME NEW file \in SUBSET CaseFacts, See("read", "ok", file),
               _error("refused") \/ Goto("generate", [job EXCEPT !.file = file])
        PROVE  ReaderInv'
    <3> DEFINE e == ToldOf("read", "ok", file, TRUE, FALSE)
    <3>1. e \in Event /\ trail' = Append(trail, e)
      BY <2>3, ToldIsEvent DEF See, FactIds
    <3>2. e.event = "read" /\ e.facts = file /\ e.request = served /\ e.user = job.user
      BY DEF ToldOf
    <3> HIDE DEF e
    <3>3. Fits(trail, e)
      BY <2>1, <3>2 DEF ReaderInv, Fits
    <3>4. ReaderOf(trail')
      BY <1>t, <3>1, <3>3, ReaderAppended DEF ReaderInv
    <3>5. Len(trail') > 0 /\ trail'[Len(trail')] = e
      BY <1>t, <3>1, Appended
    <3>6. CASE Goto("generate", [job EXCEPT !.file = file])
      <4>1. job'.file = file /\ pc' = "generate"
        BY <1>t, <3>6 DEF Goto, Job
      <4>2. EndsWithRead(trail', served', job'.file)
        BY <2>1, <3>2, <3>5, <4>1 DEF EndsWithRead, LastIs
      <4> QED BY <3>4, <4>1, <4>2 DEF ReaderInv
    <3>7. CASE _error("refused")
      BY <3>4, <3>7, RefusalRead DEF ReaderInv
    <3> QED BY <2>3, <3>6, <3>7
  <2> QED BY <1>6, <2>2, <2>3 DEF LoadCaseFile
<1>7. CASE Generate
  <2>1. EndsWithRead(trail, served, job.file) /\ UNCHANGED <<trail, served>>
    BY <1>7 DEF Generate, ReaderInv
  <2>2. ASSUME NEW facts \in SUBSET job.file,
               Answer([code |-> "case_linked", facts |-> facts, predicts |-> FALSE])
        PROVE  ReaderInv'
    <3>1. pc' = "emit" /\ job'.response = [code |-> "case_linked", facts |-> facts, predicts |-> FALSE]
      BY <1>t, <2>2 DEF Answer, Goto, Job
    <3>2. EndsWithRead(trail', served', facts)
      BY <2>1 DEF EndsWithRead, LastIs
    <3> QED BY <2>1, <3>1, <3>2 DEF ReaderInv
  <2>3. CASE _redirect
    BY <2>2, <2>3 DEF _redirect
  <2>4. CASE _error("generation")
    BY <2>1, <2>4, RefusalRead, ReaderQuiet
  <2>5. ASSUME NEW in_text \in SUBSET FactIds, NEW claimed \in SUBSET FactIds, NEW predicts \in BOOLEAN,
               verify_and_render(in_text, claimed, job.file), ~ predicts,
               Answer([code |-> "case_linked", facts |-> in_text \cup claimed, predicts |-> predicts])
        PROVE  ReaderInv'
    BY <2>2, <2>5 DEF verify_and_render
  <2> QED BY <1>7, <2>3, <2>4, <2>5 DEF Generate
<1>8. CASE GenerateGeneral
  <2>1. pc' = "emit" /\ job'.response = General /\ UNCHANGED <<trail, served>>
    BY <1>t, <1>8 DEF GenerateGeneral, Answer, Goto, Job
  <2> QED BY <2>1, ReaderQuiet DEF General
<1>9. CASE Emit
  <2>1. /\ pc = "emit" /\ job.response \in Response /\ ~ job.response.predicts
        /\ job.response.facts # {} => EndsWithRead(trail, served, job.response.facts)
    BY <1>t, <1>9 DEF Emit, Job, ReaderInv
  <2>2. CASE Send(job.response, TRUE)
    <3> DEFINE e == ToldOf("sent", job.response.code, job.response.facts, TRUE, job.response.predicts)
    <3>1. e \in Event
      BY <2>1, ToldIsEvent DEF Response
    <3>2. /\ e.event = "sent" /\ e.facts = job.response.facts /\ e.request = served
          /\ e.labelled /\ e.predicts = job.response.predicts
      BY DEF ToldOf
    <3>3. trail' = Append(trail, e) /\ pc' = "idle"
      BY <2>2 DEF Send, Goto
    <3> HIDE DEF e
    <3>4. Fits(trail, e)
      BY <2>1, <3>2 DEF Fits
    <3> QED BY <1>a, <3>1, <3>3, <3>4
  <2>3. ASSUME pc' = "alert",
               trail' = Append(trail, ToldOf("withheld", job.response.code, {}, FALSE, FALSE))
        PROVE  ReaderInv'
    <3>1. ToldOf("withheld", job.response.code, {}, FALSE, FALSE) \in Event
      BY <2>1, ToldIsEvent DEF Response
    <3>2. Fits(trail, ToldOf("withheld", job.response.code, {}, FALSE, FALSE))
      BY DEF ToldOf, Fits
    <3> QED BY <1>a, <2>3, <3>1, <3>2
  <2> QED BY <1>9, <2>2, <2>3 DEF Emit, Goto
<1>10. CASE AlertAdmin
  <2>1. CASE Goto("incident", job) /\ UNCHANGED trail
    BY <1>10, <2>1, ReaderQuiet DEF AlertAdmin, Goto
  <2>2. CASE Unhandled
    BY <2>2, ErrorRead DEF Unhandled, ErrorCode
  <2> QED BY <1>10, <2>1, <2>2 DEF AlertAdmin
<1>11. CASE RecordIncident
  BY <1>11, ErrorRead DEF RecordIncident, Unhandled, ErrorCode
<1> QED BY <1>1, <1>2, <1>3, <1>4, <1>5, <1>6, <1>7, <1>8, <1>9, <1>10, <1>11 DEF Next

-----------------------------------------------------------------------------
(* What is proved of the case coach. *)

IInv == TypeInv /\ HaltInv /\ ReaderInv

LEMMA Invariance == Spec => []IInv
<1>1. Init => IInv
  <2>1. Init => HaltInv /\ ReaderInv
    BY DEF Init, HaltInv, HoldsOf, HaltedOf, ReaderInv, ReaderOf, Working
  <2> QED BY <2>1, InitType DEF IInv
<1>2. IInv /\ [Next]_vars => IInv'
  BY NextType, NextHalt, NextReader DEF IInv
<1> QED BY <1>1, <1>2, PTL DEF Spec

\* Every variable of the case coach keeps to its type, and no request's answer
\* is recorded twice.
THEOREM CaseTypes == Spec => []TypeOK
<1>1. IInv => TypeOK
  BY DEF IInv, TypeInv
<1> QED BY <1>1, Invariance, PTL

\* For any number of requests and whichever sink fails while the service fails
\* closed: until its halt is cleared, no answer leaves in a session of which a
\* response was withheld, and its case file is not read.
THEOREM HaltAlwaysHolds == Spec => []HaltHolds
<1>1. IInv => HaltHolds
  BY DEF IInv, HaltInv, HoldsOf, HaltHolds
<1> QED BY <1>1, Invariance, PTL

\* Whatever upstream grants, takes back, answers or fails to answer: the case
\* file is read right after a check that granted the learner of the request, and
\* an answer has facts of that very reading only, and predicts nothing.
THEOREM CaseContentHasItsReader == Spec => []ContentHasItsReader
<1>1. IInv => ContentHasItsReader
  BY DEF IInv, ReaderInv, ReaderOf, ContentHasItsReader
<1> QED BY <1>1, Invariance, PTL

-----------------------------------------------------------------------------
(* The course coach: what its state is. *)

CourseMatch == [section : Sections \cup {None}, concept : Concepts \cup {None}]

CourseTurn ==
  [kind : L!Kind, session : CourseSessions \cup {None}, user : CourseLearners \cup {None},
   concept : L!ConceptTag, match : CourseMatch, grounding : L!Grounding,
   history : Seq(L!FramingAttempt), framing : L!FramingStrategy \cup {None},
   text : Texts \cup {None}, spans : SUBSET L!Spans, came : Nat,
   entitled : BOOLEAN, unread : BOOLEAN, unrecorded : BOOLEAN]

\* By the place of a turn: it is of a learner in a session, and what it records
\* is a framing and a text.
TurnTyped(t, label) ==
  /\ t \in CourseTurn
  /\ label # "idle" => t.session \in CourseSessions /\ t.user \in CourseLearners
  /\ label = "record" => t.framing # None
  /\ label \in {"record", "log"} /\ t.framing # None => t.text \in Texts

CourseTyped ==
  /\ enrolled \in SUBSET CourseLearners
  /\ attempts \in [CourseSessions \X L!ConceptTag -> Seq(L!FramingAttempt)]
  /\ interactions \in Seq(L!Prior) /\ answers \in Seq(L!Answers)
  /\ at \in [Threads -> L!At] /\ turn \in [Threads -> CourseTurn]
  /\ \A w \in Threads : TurnTyped(turn[w], at[w])

-----------------------------------------------------------------------------
(* The helpers. *)

LEMMA CourseConstantsAre ==
  /\ Threads # {} /\ FRAMING_ORDER \in Seq(L!FramingStrategy) /\ Len(FRAMING_ORDER) \in Nat \ {0}
  /\ None \notin L!FramingStrategy /\ section_of \in [Concepts -> Sections]
  /\ KeyPoints \in Nat /\ MAX_QUOTED_SPANS_PER_CONCEPT \in Nat /\ MAX_QUOTED_SPANS_PER_RESPONSE \in Nat
  /\ MaxTurns \in Nat
<1>1. L!CourseConstants
  BY CourseAssumption
<1>2. FRAMING_ORDER \in Seq(L!FramingStrategy) /\ Len(FRAMING_ORDER) > 0
  BY <1>1 DEF L!CourseConstants, L!FramingStrategy
<1>3. {KeyPoints, MAX_QUOTED_SPANS_PER_CONCEPT, MAX_QUOTED_SPANS_PER_RESPONSE, MaxTurns} \subseteq Nat
  BY <1>1 DEF L!CourseConstants
<1>4. Threads # {} /\ None \notin L!FramingStrategy /\ section_of \in [Concepts -> Sections]
  BY <1>1 DEF L!CourseConstants, L!FramingStrategy
<1> QED BY <1>2, <1>3, <1>4

LEMMA LesserOf ==
  ASSUME NEW m \in Nat, NEW n \in Nat
  PROVE  L!Min({m, n}) \in Nat /\ L!Min({m, n}) <= m /\ L!Min({m, n}) <= n
<1>1. \E x \in {m, n} : \A y \in {m, n} : x <= y
  <2>1. CASE m <= n
    BY <2>1
  <2>2. CASE ~ (m <= n)
    BY <2>2
  <2> QED BY <2>1, <2>2
<1> QED BY <1>1 DEF L!Min

\* What may be quoted of a match is spans, none of no match.
LEMMA MaterialIs ==
  ASSUME NEW match \in CourseMatch
  PROVE  /\ L!quotable_material(match) \in Seq(L!Spans)
         /\ match = L!NoMatch => L!quotable_material(match) = <<>>
<1> DEFINE summary == IF match.concept = None THEN <<>> ELSE <<<<match.concept, 0>>>>
           points == IF match.section = None THEN <<>>
                     ELSE [n \in 1..KeyPoints |-> <<match.section, n>>]
           material == summary \o points
           most == L!Min({MAX_QUOTED_SPANS_PER_CONCEPT, Len(material)})
<1>1. L!quotable_material(match) = SubSeq(material, 1, most)
  BY Zenon DEF L!quotable_material
<1>2. summary \in Seq(L!Spans)
  <2>1. CASE match.concept = None
    BY <2>1
  <2>2. CASE match.concept # None
    <3>1. <<match.concept, 0>> \in L!Spans
      BY <2>2 DEF CourseMatch, L!Spans
    <3> QED BY <2>2, <3>1
  <2> QED BY <2>1, <2>2
<1>3. points \in Seq(L!Spans)
  <2>1. CASE match.section = None
    BY <2>1
  <2>2. CASE match.section # None
    <3>1. \A n \in 1..KeyPoints : <<match.section, n>> \in L!Spans
      BY <2>2 DEF CourseMatch, L!Spans
    <3>2. points \in [1..KeyPoints -> L!Spans]
      BY <2>2, <3>1
    <3> QED BY <3>2, CourseConstantsAre
  <2> QED BY <2>1, <2>2
<1>4. material \in Seq(L!Spans) /\ Len(material) \in Nat
  <2> HIDE DEF summary, points
  <2> QED BY <1>2, <1>3
<1> HIDE DEF material
<1>5. most \in Nat /\ most <= Len(material)
  BY <1>4, LesserOf, CourseConstantsAre
<1> HIDE DEF most
<1>6. SubSeq(material, 1, most) \in Seq(L!Spans)
  BY <1>4, <1>5
<1>7. ASSUME match = L!NoMatch PROVE SubSeq(material, 1, most) = <<>>
  <2>1. summary = <<>> /\ points = <<>>
    BY <1>7 DEF L!NoMatch
  <2>2. material = <<>>
    BY <2>1 DEF material
  <2> QED BY <1>5, <2>2
<1> QED BY <1>1, <1>6, <1>7

\* What is quoted is of the material.
LEMMA SpansAre ==
  ASSUME NEW material \in Seq(L!Spans), NEW index \in Nat
  PROVE  /\ L!spans_for_response(material, index) \in SUBSET L!Spans
         /\ material = <<>> => L!spans_for_response(material, index) = {}
<1> DEFINE n == Len(material)
           most == L!Min({MAX_QUOTED_SPANS_PER_RESPONSE, n})
<1>1. n \in Nat /\ most \in Nat /\ most <= n
  BY LesserOf, CourseConstantsAre
<1>2. L!spans_for_response(material, index) = {material[((index + k) % n) + 1] : k \in 0..most - 1}
  BY Zenon DEF L!spans_for_response
<1> HIDE DEF n, most
<1>3. ASSUME NEW k \in 0..most - 1 PROVE material[((index + k) % n) + 1] \in L!Spans
  <2>1. index + k \in Nat /\ n \in Nat \ {0}
    BY <1>1
  <2>2. (index + k) % n \in 0..(n - 1)
    BY <2>1
  <2>3. ((index + k) % n) + 1 \in 1..n
    BY <2>1, <2>2
  <2> QED BY <2>3 DEF n
<1>4. material = <<>> => n = 0
  BY DEF n
<1>5. material = <<>> => most = 0
  BY <1>1, <1>4
<1> QED BY <1>2, <1>3, <1>5

LEMMA CandidatesAre ==
  ASSUME NEW history
  PROVE  /\ L!candidates(history) \subseteq 1..Len(FRAMING_ORDER)
         /\ \A k \in L!candidates(history) :
              /\ FRAMING_ORDER[k] \in L!FramingStrategy
              /\ L!plan(history) # {} =>
                   \A i \in DOMAIN history : history[i].framing # FRAMING_ORDER[k]
         /\ \A k : L!Cardinality({m \in L!candidates(history) : m < k}) \in Nat
<1>1. L!plan(history) \subseteq 1..Len(FRAMING_ORDER)
  BY CourseConstantsAre DEF L!plan
<1>2. L!candidates(history) \subseteq 1..Len(FRAMING_ORDER)
  BY <1>1, CourseConstantsAre DEF L!candidates
<1>3. \A k \in L!candidates(history) : FRAMING_ORDER[k] \in L!FramingStrategy
  BY <1>2, CourseConstantsAre
<1>4. ASSUME NEW k \in L!candidates(history), L!plan(history) # {}, NEW i \in DOMAIN history
      PROVE  history[i].framing # FRAMING_ORDER[k]
  BY <1>4 DEF L!plan, L!candidates
<1>5. ASSUME NEW k PROVE L!Cardinality({m \in L!candidates(history) : m < k}) \in Nat
  <2>1. IsFiniteSet(1..Len(FRAMING_ORDER))
    BY CourseConstantsAre, FS_Interval
  <2>2. {m \in L!candidates(history) : m < k} \subseteq 1..Len(FRAMING_ORDER)
    BY <1>2
  <2>3. Cardinality({m \in L!candidates(history) : m < k}) \in Nat
    BY <2>1, <2>2, FS_Subset, FS_CardinalityType
  <2>4. \A X : L!Cardinality(X) = Cardinality(X)
    BY Zenon DEF L!Cardinality, Cardinality
  <2> QED BY <2>3, <2>4
<1> QED BY <1>2, <1>3, <1>4, <1>5

-----------------------------------------------------------------------------
(* The invariant. *)

\* The registry has the framing and the text of an answer or of a turn.
Noted(noted, e) ==
  \E k \in DOMAIN noted[<<e.session, e.concept>>] :
    /\ noted[<<e.session, e.concept>>][k].framing = e.framing
    /\ noted[<<e.session, e.concept>>][k].text = e.text

\* An earlier answer that a turn or a later one must not repeat, and does not.
Bears(e, t) ==
  /\ e.session = t.session /\ e.concept = t.concept
  /\ e.status = "answered" /\ ~ e.unrecorded

Differs(e, t) ==
  e.text # t.text /\ (t.kind = "explain_differently" => e.framing # t.framing)

SaidOK(said, noted) ==
  \A j \in DOMAIN said :
    /\ said[j].came < j
    /\ said[j].status = "answered" /\ ~ said[j].unrecorded => Noted(noted, said[j])
    /\ said[j].status = "answered" /\ ~ said[j].unread =>
         \A i \in 1..said[j].came : Bears(said[i], said[j]) => Differs(said[i], said[j])
    /\ said[j].grounding = "lesson" \/ said[j].spans # {} => said[j].entitled

\* A history that was read has all that was said when its turn began; so what
\* is chosen by it differs from all that.
TurnSays(said, noted, t, label) ==
  /\ label # "idle" => t.came <= Len(said)
  /\ label = "generate" /\ ~ t.unread =>
       /\ \A i \in 1..t.came : Bears(said[i], t) =>
            \E k \in DOMAIN t.history : /\ t.history[k].framing = said[i].framing
                                        /\ t.history[k].text = said[i].text
       /\ t.kind = "explain_differently" => L!plan(t.history) # {}
  /\ label \in {"record", "log"} /\ t.framing # None /\ ~ t.unread =>
       \A i \in 1..t.came : Bears(said[i], t) => Differs(said[i], t)
  /\ label = "log" /\ t.framing # None /\ ~ t.unrecorded => Noted(noted, t)

\* Without an enrolment at any moment of the turn there is no lesson in it.
TurnEntitled(open, t, label) ==
  /\ label # "idle" /\ t.user \in open => t.entitled
  /\ label = "enrolment" => t.spans = {}
  /\ label = "lesson" => t.entitled /\ t.spans = {}
  /\ label \in {"history", "generate", "record", "log"} /\ ~ t.entitled =>
       t.match = L!NoMatch /\ t.grounding = "general_knowledge" /\ t.spans = {}

CourseInv ==
  /\ CourseTyped /\ SaidOK(answers, attempts)
  /\ \A w \in Threads : /\ TurnSays(answers, attempts, turn[w], at[w])
                        /\ TurnEntitled(enrolled, turn[w], at[w])

\* Nothing is taken back: not from the registry, nor from what was said.
Grown(noted, more) ==
  \A key \in CourseSessions \X L!ConceptTag : \A k \in DOMAIN noted[key] :
    k \in DOMAIN more[key] /\ more[key][k] = noted[key][k]

LEMMA NotedStays ==
  ASSUME NEW noted, NEW more, NEW e, Grown(noted, more),
         e.session \in CourseSessions, e.concept \in L!ConceptTag, Noted(noted, e)
  PROVE  Noted(more, e)
<1>1. <<e.session, e.concept>> \in CourseSessions \X L!ConceptTag
  OBVIOUS
<1>2. PICK key \in CourseSessions \X L!ConceptTag : key = <<e.session, e.concept>>
  BY <1>1
<1>3. PICK k \in DOMAIN noted[key] : noted[key][k].framing = e.framing /\ noted[key][k].text = e.text
  BY <1>2 DEF Noted
<1>4. k \in DOMAIN more[key] /\ more[key][k] = noted[key][k]
  BY <1>2 DEF Grown
<1> QED BY <1>2, <1>3, <1>4 DEF Noted

LEMMA SaysStays ==
  ASSUME NEW said \in Seq(L!Answers), NEW further \in Seq(L!Answers), NEW noted, NEW more,
         Grown(noted, more), Len(said) <= Len(further),
         \A i \in 1..Len(said) : further[i] = said[i],
         NEW t, NEW label, TurnTyped(t, label), TurnSays(said, noted, t, label)
  PROVE  TurnSays(further, more, t, label)
<1>1. label # "idle" =>
        /\ t.session \in CourseSessions /\ t.concept \in L!ConceptTag /\ t.came \in Nat
        /\ t.came <= Len(said)
  BY DEF TurnTyped, CourseTurn, TurnSays
<1>2. Len(said) \in Nat /\ Len(further) \in Nat
  OBVIOUS
<1>3. label # "idle" => t.came <= Len(further) /\ \A i \in 1..t.came : further[i] = said[i]
  BY <1>1, <1>2
<1>4. CASE label = "idle"
  BY <1>4 DEF TurnSays
<1>5. CASE label = "generate"
  BY <1>3, <1>5 DEF TurnSays
<1>6. CASE label \in {"record", "log"}
  <2>1. t.framing # None /\ ~ t.unread =>
          \A i \in 1..t.came : Bears(further[i], t) => Differs(further[i], t)
    BY <1>3, <1>6 DEF TurnSays
  <2>2. label = "log" /\ t.framing # None /\ ~ t.unrecorded => Noted(more, t)
    BY <1>1, <1>6, NotedStays DEF TurnSays
  <2> QED BY <1>3, <1>6, <2>1, <2>2 DEF TurnSays
<1> QED BY <1>3, <1>4, <1>5, <1>6 DEF TurnSays

LEMMA GrownRefl == \A noted : Grown(noted, noted)
  BY DEF Grown

LEMMA SaidStays ==
  ASSUME NEW said \in Seq(L!Answers), NEW noted, NEW more, Grown(noted, more), SaidOK(said, noted)
  PROVE  SaidOK(said, more)
<1>1. ASSUME NEW j \in DOMAIN said
      PROVE  said[j].session \in CourseSessions /\ said[j].concept \in L!ConceptTag
  <2>1. said[j] \in L!Answers
    OBVIOUS
  <2> QED BY <2>1 DEF L!Answers
<1>2. \A j \in DOMAIN said : Noted(noted, said[j]) => Noted(more, said[j])
  BY <1>1, NotedStays
<1>3. ASSUME NEW j \in DOMAIN said
      PROVE  /\ said[j].came < j
             /\ said[j].status = "answered" /\ ~ said[j].unrecorded => Noted(more, said[j])
             /\ said[j].status = "answered" /\ ~ said[j].unread =>
                  \A i \in 1..said[j].came : Bears(said[i], said[j]) => Differs(said[i], said[j])
             /\ said[j].grounding = "lesson" \/ said[j].spans # {} => said[j].entitled
  BY <1>2, Zenon DEF SaidOK
<1> QED BY <1>3 DEF SaidOK

\* One more answer, of a turn that has come to its log.
LEMMA SaidMore ==
  ASSUME NEW said \in Seq(L!Answers), NEW noted, SaidOK(said, noted),
         NEW e \in L!Answers, e.came <= Len(said),
         e.status = "answered" /\ ~ e.unrecorded => Noted(noted, e),
         e.status = "answered" /\ ~ e.unread =>
           \A i \in 1..e.came : Bears(said[i], e) => Differs(said[i], e),
         e.grounding = "lesson" \/ e.spans # {} => e.entitled
  PROVE  /\ SaidOK(Append(said, e), noted)
         /\ Append(said, e) \in Seq(L!Answers) /\ Len(said) <= Len(Append(said, e))
         /\ \A i \in 1..Len(said) : Append(said, e)[i] = said[i]
<1> DEFINE more == Append(said, e)
           n == Len(said)
<1>1. /\ n \in Nat /\ more \in Seq(L!Answers) /\ Len(more) = n + 1
      /\ DOMAIN more = 1..(n + 1) /\ DOMAIN said = 1..n
      /\ \A i \in 1..n : more[i] = said[i]
      /\ more[n + 1] = e
  OBVIOUS
<1> HIDE DEF more
<1>2. e.came \in Nat
  BY DEF L!Answers
<1>3. ASSUME NEW j \in 1..n PROVE said[j].came \in Nat /\ said[j].came < j
  <2>1. said[j] \in L!Answers
    BY <1>1
  <2>2. said[j].came \in Nat
    BY <2>1 DEF L!Answers
  <2> QED BY <1>1, <2>2 DEF SaidOK
<1>4. ASSUME NEW j \in 1..n
      PROVE  /\ more[j] = said[j]
             /\ \A i \in 1..said[j].came : more[i] = said[i]
  BY <1>1, <1>3
<1>5. \A i \in 1..e.came : more[i] = said[i]
  BY <1>1, <1>2
<1>6. ASSUME NEW j \in DOMAIN more
      PROVE  /\ more[j].came < j
             /\ more[j].status = "answered" /\ ~ more[j].unrecorded => Noted(noted, more[j])
             /\ more[j].status = "answered" /\ ~ more[j].unread =>
                  \A i \in 1..more[j].came : Bears(more[i], more[j]) => Differs(more[i], more[j])
             /\ more[j].grounding = "lesson" \/ more[j].spans # {} => more[j].entitled
  <2>1. CASE j \in 1..n
    BY <1>1, <1>4, <2>1 DEF SaidOK
  <2>2. CASE j = n + 1
    <3>1. more[j] = e /\ e.came < j
      BY <1>1, <1>2, <2>2
    <3> QED BY <1>5, <3>1
  <2> QED BY <1>1, <2>1, <2>2
<1>7. SaidOK(more, noted)
  BY <1>6 DEF SaidOK
<1> QED BY <1>1, <1>7 DEF more

\* A step of one turn.
LEMMA TurnStep ==
  ASSUME CourseInv, NEW w \in Threads, NEW label \in L!At, NEW t, L!Goto(w, label, t),
         TurnTyped(t, label), UNCHANGED enrolled,
         attempts' \in [CourseSessions \X L!ConceptTag -> Seq(L!FramingAttempt)],
         interactions' \in Seq(L!Prior), answers' \in Seq(L!Answers),
         Grown(attempts, attempts'), Len(answers) <= Len(answers'),
         \A i \in 1..Len(answers) : answers'[i] = answers[i],
         SaidOK(answers', attempts'),
         TurnSays(answers', attempts', t, label), TurnEntitled(enrolled, t, label)
  PROVE  CourseInv'
<1>1. /\ at \in [Threads -> L!At] /\ turn \in [Threads -> CourseTurn]
      /\ at' = [at EXCEPT ![w] = label] /\ turn' = [turn EXCEPT ![w] = t] /\ t \in CourseTurn
  BY DEF CourseInv, CourseTyped, L!Goto, TurnTyped
<1>2. \A v \in Threads : /\ at'[v] = (IF v = w THEN label ELSE at[v])
                         /\ turn'[v] = (IF v = w THEN t ELSE turn[v])
  BY <1>1
<1>3. /\ answers \in Seq(L!Answers)
      /\ \A v \in Threads : /\ TurnTyped(turn[v], at[v]) /\ TurnSays(answers, attempts, turn[v], at[v])
                            /\ TurnEntitled(enrolled, turn[v], at[v])
  BY DEF CourseInv, CourseTyped
<1>4. ASSUME NEW v \in Threads
      PROVE  TurnTyped(turn'[v], at'[v]) /\ TurnSays(answers', attempts', turn'[v], at'[v])
             /\ TurnEntitled(enrolled', turn'[v], at'[v])
  <2>1. CASE v = w
    BY <1>2, <2>1
  <2>2. CASE v # w
    <3>1. TurnSays(answers', attempts', turn[v], at[v])
      BY <1>3, SaysStays
    <3> QED BY <1>2, <1>3, <2>2, <3>1
  <2> QED BY <2>1, <2>2
<1>5. at' \in [Threads -> L!At] /\ turn' \in [Threads -> CourseTurn]
  BY <1>1
<1>6. CourseTyped'
  BY <1>4, <1>5 DEF CourseInv, CourseTyped
<1> QED BY <1>4, <1>6 DEF CourseInv

\* A step of one turn that writes nothing.
LEMMA QuietTurn ==
  ASSUME CourseInv, NEW w \in Threads, NEW label \in L!At, NEW t, L!Goto(w, label, t),
         TurnTyped(t, label), UNCHANGED <<enrolled, attempts, interactions, answers>>,
         TurnSays(answers, attempts, t, label), TurnEntitled(enrolled, t, label)
  PROVE  CourseInv'
<1>1. /\ attempts' \in [CourseSessions \X L!ConceptTag -> Seq(L!FramingAttempt)]
      /\ interactions' \in Seq(L!Prior) /\ answers' \in Seq(L!Answers)
      /\ Len(answers) <= Len(answers') /\ SaidOK(answers', attempts')
  BY DEF CourseInv, CourseTyped
<1>2. Grown(attempts, attempts')
  BY GrownRefl
<1> QED BY <1>1, <1>2, TurnStep

-----------------------------------------------------------------------------
(* Each step. *)

LEMMA NoTurnIs == TurnTyped(L!NoTurn, "idle")
<1>1. <<>> \in Seq(L!FramingAttempt)
  OBVIOUS
<1> QED BY <1>1 DEF TurnTyped, CourseTurn, L!NoTurn, L!Kind, L!ConceptTag, CourseMatch, L!NoMatch, L!Grounding

LEMMA FailIs ==
  ASSUME CourseInv, NEW w \in Threads, L!Fail(w),
         UNCHANGED <<enrolled, attempts, interactions, answers>>
  PROVE  CourseInv'
<1>1. L!Goto(w, "idle", L!NoTurn) /\ "idle" \in L!At
  BY DEF L!Fail, L!At
<1>2. TurnSays(answers, attempts, L!NoTurn, "idle") /\ TurnEntitled(enrolled, L!NoTurn, "idle")
  BY DEF TurnSays, TurnEntitled
<1> QED BY <1>1, <1>2, NoTurnIs, QuietTurn

\* What a turn is, where it is.
LEMMA TurnIs ==
  ASSUME CourseInv, NEW w \in Threads
  PROVE  /\ turn[w] \in CourseTurn /\ at[w] \in L!At /\ TurnTyped(turn[w], at[w])
         /\ TurnSays(answers, attempts, turn[w], at[w]) /\ TurnEntitled(enrolled, turn[w], at[w])
         /\ enrolled \in SUBSET CourseLearners
         /\ attempts \in [CourseSessions \X L!ConceptTag -> Seq(L!FramingAttempt)]
         /\ interactions \in Seq(L!Prior) /\ answers \in Seq(L!Answers)
         /\ Len(answers) \in Nat /\ SaidOK(answers, attempts)
  BY DEF CourseInv, CourseTyped

LEMMA EnrolmentStep ==
  ASSUME CourseInv, L!SetEnrolment
  PROVE  CourseInv'
<1>1. PICK u \in CourseLearners : enrolled' = L!SymDiff(enrolled, {u})
  BY DEF L!SetEnrolment
<1>2. enrolled' \in SUBSET CourseLearners
  BY <1>1 DEF CourseInv, CourseTyped, L!SymDiff
<1>3. /\ turn' = [w \in Threads |->
                    [turn[w] EXCEPT !.entitled = turn[w].entitled \/ turn[w].user \in enrolled']]
      /\ UNCHANGED <<attempts, interactions, answers, at>>
  BY DEF L!SetEnrolment
<1>4. ASSUME NEW w \in Threads
      PROVE  /\ turn'[w] \in CourseTurn /\ TurnTyped(turn'[w], at'[w])
             /\ TurnSays(answers', attempts', turn'[w], at'[w])
             /\ TurnEntitled(enrolled', turn'[w], at'[w])
  <2>1. PICK t \in CourseTurn, b \in BOOLEAN :
          t = turn[w] /\ b = (turn[w].entitled \/ turn[w].user \in enrolled')
    BY TurnIs
  <2>2. PICK label, l : label = at[w] /\ l = [t EXCEPT !.entitled = b]
    OBVIOUS
  <2>3. turn'[w] = l /\ at'[w] = label
    BY <1>3, <2>1, <2>2
  <2>4. l \in CourseTurn
    BY <2>2 DEF CourseTurn
  <2>5. /\ l.session = t.session /\ l.user = t.user /\ l.kind = t.kind /\ l.concept = t.concept
        /\ l.match = t.match /\ l.grounding = t.grounding /\ l.history = t.history
        /\ l.framing = t.framing /\ l.text = t.text /\ l.spans = t.spans /\ l.came = t.came
        /\ l.unread = t.unread /\ l.unrecorded = t.unrecorded
        /\ l.entitled = b
    BY <2>2 DEF CourseTurn
  <2>6. t.entitled => b
    BY <2>1
  <2>7. t.user \in enrolled' => b
    BY <2>1
  <2>8. TurnTyped(t, label) /\ TurnSays(answers, attempts, t, label) /\ TurnEntitled(enrolled, t, label)
    BY <2>1, <2>2, TurnIs
  <2>9. TurnTyped(l, label)
    BY <2>4, <2>5, <2>8 DEF TurnTyped
  <2>10. TurnSays(answers, attempts, l, label)
    BY <2>5, <2>8 DEF TurnSays, Bears, Differs, Noted
  <2>11. TurnEntitled(enrolled', l, label)
    BY <2>5, <2>6, <2>7, <2>8 DEF TurnEntitled
  <2> QED BY <1>3, <2>3, <2>4, <2>9, <2>10, <2>11
<1>5. at' \in [Threads -> L!At] /\ turn' \in [Threads -> CourseTurn]
  <2>1. at' \in [Threads -> L!At]
    BY <1>3 DEF CourseInv, CourseTyped
  <2> QED BY <1>3, <1>4, <2>1
<1>6. CourseTyped'
  BY <1>2, <1>3, <1>4, <1>5 DEF CourseInv, CourseTyped
<1> QED BY <1>3, <1>4, <1>6 DEF CourseInv

\* A turn that begins.
LEMMA BeginIs ==
  ASSUME CourseInv, NEW s \in CourseSessions, NEW u \in CourseLearners, NEW kind \in L!Kind
  PROVE  LET t == L!Begin(s, u, kind)
         IN /\ t \in CourseTurn /\ t.session = s /\ t.user = u /\ t.spans = {}
            /\ t.came = Len(answers) /\ t.entitled = (u \in enrolled)
<1>1. PICK b \in BOOLEAN : b = (u \in enrolled)
  <2>1. CASE u \in enrolled
    BY <2>1, TRUE = (u \in enrolled)
  <2>2. CASE u \notin enrolled
    BY <2>2, FALSE = (u \in enrolled)
  <2> QED BY <2>1, <2>2
<1>2. PICK n \in Nat : n = Len(answers)
  BY DEF CourseInv, CourseTyped
<1>3. L!Begin(s, u, kind) = [L!NoTurn EXCEPT !.session = s, !.user = u, !.kind = kind,
                                             !.came = n, !.entitled = b]
  BY <1>1, <1>2 DEF L!Begin
<1>4. L!NoTurn \in CourseTurn /\ L!NoTurn.spans = {}
  BY NoTurnIs DEF TurnTyped, L!NoTurn
<1>5. PICK t : t = L!Begin(s, u, kind)
  OBVIOUS
<1>6. /\ t \in CourseTurn /\ t.session = s /\ t.user = u /\ t.spans = {}
      /\ t.came = n /\ t.entitled = b
  BY <1>3, <1>4, <1>5 DEF CourseTurn
<1> QED BY <1>1, <1>2, <1>5, <1>6

\* A turn that begins, or one like it, is as it should be.
LEMMA BegunIs ==
  ASSUME CourseInv, NEW t \in CourseTurn, t.session \in CourseSessions, t.user \in CourseLearners,
         t.spans = {}, t.came = Len(answers), t.entitled = (t.user \in enrolled)
  PROVE  /\ "enrolment" \in L!At /\ TurnTyped(t, "enrolment")
         /\ TurnSays(answers, attempts, t, "enrolment") /\ TurnEntitled(enrolled, t, "enrolment")
<1>1. t.came <= Len(answers)
  BY DEF CourseInv, CourseTyped
<1> QED BY <1>1 DEF L!At, TurnTyped, TurnSays, TurnEntitled

LEMMA AskStep ==
  ASSUME CourseInv, NEW w \in Threads, L!AskQuestion(w)
  PROVE  CourseInv'
<1>1. PICK s \in CourseSessions, u \in CourseLearners : L!Goto(w, "enrolment", L!Begin(s, u, "ask"))
  BY DEF L!AskQuestion
<1>2. PICK t : t = L!Begin(s, u, "ask")
  OBVIOUS
<1>3. /\ t \in CourseTurn /\ t.session = s /\ t.user = u /\ t.spans = {}
      /\ t.came = Len(answers) /\ t.entitled = (u \in enrolled)
  BY <1>2, BeginIs DEF L!Kind
<1>4. /\ "enrolment" \in L!At /\ TurnTyped(t, "enrolment")
      /\ TurnSays(answers, attempts, t, "enrolment") /\ TurnEntitled(enrolled, t, "enrolment")
  BY <1>3, BegunIs
<1>5. UNCHANGED <<enrolled, attempts, interactions, answers>>
  BY DEF L!AskQuestion
<1> QED BY <1>1, <1>2, <1>4, <1>5, QuietTurn

LEMMA FollowUpStep ==
  ASSUME CourseInv, NEW w \in Threads, L!FollowUp(w)
  PROVE  CourseInv'
<1>1. UNCHANGED <<enrolled, attempts, interactions, answers>>
  BY DEF L!FollowUp
<1>2. CASE L!Fail(w)
  BY <1>1, <1>2, FailIs
<1>3. CASE ~ L!Fail(w)
  <2>1. PICK u \in CourseLearners, kind \in L!Kind \ {"ask"}, i \in DOMAIN interactions :
          L!Goto(w, "enrolment",
                 [L!Begin(interactions[i].session, u, kind) EXCEPT
                    !.concept = interactions[i].concept, !.grounding = interactions[i].grounding,
                    !.match = [L!NoMatch EXCEPT !.section = interactions[i].section]])
    BY <1>3 DEF L!FollowUp
  <2>2. interactions[i] \in L!Prior
    BY DEF CourseInv, CourseTyped
  <2>3. PICK s \in CourseSessions, c \in L!ConceptTag, g \in L!Grounding, a \in Sections \cup {None} :
          /\ s = interactions[i].session /\ c = interactions[i].concept
          /\ g = interactions[i].grounding /\ a = interactions[i].section
    BY <2>2 DEF L!Prior
  <2>4. PICK b : b = L!Begin(s, u, kind)
    OBVIOUS
  <2>5. /\ b \in CourseTurn /\ b.session = s /\ b.user = u /\ b.spans = {}
        /\ b.came = Len(answers) /\ b.entitled = (u \in enrolled)
    BY <2>4, BeginIs
  <2>6. PICK m : m = [L!NoMatch EXCEPT !.section = a]
    OBVIOUS
  <2>7. m \in CourseMatch
    BY <2>6 DEF CourseMatch, L!NoMatch
  <2>8. PICK t : t = [b EXCEPT !.concept = c, !.grounding = g, !.match = m]
    OBVIOUS
  <2>9. L!Goto(w, "enrolment", t)
    BY <2>1, <2>3, <2>4, <2>6, <2>8
  <2>10. /\ t \in CourseTurn /\ t.session = s /\ t.user = u /\ t.spans = {}
         /\ t.came = b.came /\ t.entitled = b.entitled
    BY <2>5, <2>7, <2>8 DEF CourseTurn
  <2>11. /\ "enrolment" \in L!At /\ TurnTyped(t, "enrolment")
         /\ TurnSays(answers, attempts, t, "enrolment") /\ TurnEntitled(enrolled, t, "enrolment")
    BY <2>5, <2>10, BegunIs
  <2> QED BY <1>1, <2>9, <2>11, QuietTurn
<1> QED BY <1>2, <1>3

\* What a turn knows of its question once it has it, or has been refused it.
LEMMA HistoryIs ==
  ASSUME CourseInv, NEW w \in Threads, at[w] \in {"enrolment", "lesson"},
         NEW c \in L!ConceptTag, NEW m \in CourseMatch, NEW g \in L!Grounding,
         turn[w].entitled \/ (m = L!NoMatch /\ g = "general_knowledge"),
         NEW t, t = [turn[w] EXCEPT !.concept = c, !.match = m, !.grounding = g],
         L!Goto(w, "history", t), UNCHANGED <<enrolled, attempts, interactions, answers>>
  PROVE  CourseInv'
<1>1. PICK q \in CourseTurn : q = turn[w]
  BY TurnIs
<1>2. /\ t \in CourseTurn /\ t.session = q.session /\ t.user = q.user /\ t.spans = q.spans
      /\ t.came = q.came /\ t.entitled = q.entitled /\ t.match = m /\ t.grounding = g
  BY <1>1 DEF CourseTurn
<1>3. /\ q.session \in CourseSessions /\ q.user \in CourseLearners /\ q.spans = {}
      /\ q.came <= Len(answers) /\ (q.user \in enrolled => q.entitled)
  BY <1>1, TurnIs DEF TurnTyped, TurnSays, TurnEntitled
<1>4. TurnTyped(t, "history") /\ TurnSays(answers, attempts, t, "history")
  BY <1>2, <1>3 DEF TurnTyped, TurnSays
<1>5. TurnEntitled(enrolled, t, "history")
  BY <1>1, <1>2, <1>3 DEF TurnEntitled
<1>6. "history" \in L!At
  BY DEF L!At
<1> QED BY <1>4, <1>5, <1>6, QuietTurn

LEMMA NoMatchIs == L!NoMatch \in CourseMatch
  BY DEF L!NoMatch, CourseMatch

LEMMA WithoutLessonIs ==
  ASSUME CourseInv, NEW w \in Threads, at[w] = "enrolment", NEW c \in L!ConceptTag,
         L!WithoutLesson(w, c), UNCHANGED <<enrolled, attempts, interactions, answers>>
  PROVE  CourseInv'
<1>1. "general_knowledge" \in L!Grounding
  BY DEF L!Grounding
<1> QED BY <1>1, NoMatchIs, HistoryIs DEF L!WithoutLesson

LEMMA VerifyStep ==
  ASSUME CourseInv, NEW w \in Threads, L!VerifyEnrolment(w)
  PROVE  CourseInv'
<1>1. at[w] = "enrolment" /\ UNCHANGED <<enrolled, attempts, interactions, answers>>
  BY DEF L!VerifyEnrolment
<1>2. PICK q \in CourseTurn : q = turn[w]
  BY TurnIs
<1>3. CASE q.user \in enrolled /\ L!Goto(w, "lesson", q)
  <2>1. TurnTyped(q, "enrolment") /\ TurnSays(answers, attempts, q, "enrolment")
        /\ TurnEntitled(enrolled, q, "enrolment")
    BY <1>1, <1>2, TurnIs
  <2>2. TurnTyped(q, "lesson") /\ TurnSays(answers, attempts, q, "lesson") /\ "lesson" \in L!At
    BY <2>1 DEF TurnTyped, TurnSays, L!At
  <2>3. TurnEntitled(enrolled, q, "lesson")
    BY <1>3, <2>1 DEF TurnEntitled
  <2> QED BY <1>1, <1>3, <2>2, <2>3, QuietTurn
<1>4. CASE L!Fail(w)
  BY <1>1, <1>4, FailIs
<1>5. CASE L!WithoutLesson(w, q.concept)
  <2>1. q.concept \in L!ConceptTag
    BY DEF CourseTurn
  <2> QED BY <1>1, <1>5, <2>1, WithoutLessonIs
<1>6. ASSUME NEW tag \in L!ConceptTag, L!WithoutLesson(w, tag) PROVE CourseInv'
  BY <1>1, <1>6, WithoutLessonIs
<1> QED BY <1>2, <1>3, <1>4, <1>5, <1>6 DEF L!VerifyEnrolment

\* A lesson's matches, and what a turn makes of them.
LEMMA MatchesAre ==
  /\ L!Matches \subseteq CourseMatch
  /\ \A q \in CourseTurn, taught \in BOOLEAN :
       L!_rematch([concept |-> q.concept, section |-> q.match.section], taught) \subseteq CourseMatch
  /\ \A item \in Concepts \cup {None}, tag \in L!ConceptTag, match \in CourseMatch :
       L!_resolve_concept_tag(item, tag, match) \in L!ConceptTag
  /\ \A match \in CourseMatch, claimed \in L!Grounding : L!Grounded(match, claimed) \in L!Grounding
<1>1. ASSUME NEW s \in Sections \cup {None},
             NEW c \in IF L!ConceptsOf(s) = {} THEN {None} ELSE L!ConceptsOf(s)
      PROVE  [section |-> s, concept |-> c] \in CourseMatch
  BY DEF L!ConceptsOf, CourseMatch
<1>2. L!Matches \subseteq CourseMatch
  BY <1>1, NoMatchIs DEF L!Matches
<1>3. ASSUME NEW q \in CourseTurn, NEW taught \in BOOLEAN
      PROVE  L!_rematch([concept |-> q.concept, section |-> q.match.section], taught) \subseteq CourseMatch
  <2>1. PICK s \in Sections \cup {None}, c \in L!ConceptTag : s = q.match.section /\ c = q.concept
    BY DEF CourseTurn, CourseMatch
  <2>2. ASSUME c \in Concepts PROVE L!find_concept(c) \in CourseMatch
    BY <2>2, CourseConstantsAre DEF L!find_concept, CourseMatch
  <2>3. PICK p : p = [concept |-> c, section |-> s]
    OBVIOUS
  <2>4. L!_rematch(p, taught) \subseteq CourseMatch
    BY <1>1, <2>2, <2>3, NoMatchIs DEF L!_rematch
  <2> QED BY <2>1, <2>3, <2>4
<1>4. ASSUME NEW item \in Concepts \cup {None}, NEW tag \in L!ConceptTag, NEW match \in CourseMatch
      PROVE  L!_resolve_concept_tag(item, tag, match) \in L!ConceptTag
  BY DEF L!_resolve_concept_tag, L!ConceptTag, CourseMatch
<1>5. ASSUME NEW match \in CourseMatch, NEW claimed \in L!Grounding
      PROVE  L!Grounded(match, claimed) \in L!Grounding
  BY DEF L!Grounded, L!Grounding
<1> QED BY <1>2, <1>3, <1>4, <1>5

LEMMA LessonStep ==
  ASSUME CourseInv, NEW w \in Threads, L!LoadLesson(w)
  PROVE  CourseInv'
<1>1. at[w] = "lesson" /\ UNCHANGED <<enrolled, attempts, interactions, answers>>
  BY DEF L!LoadLesson
<1>2. PICK q \in CourseTurn : q = turn[w]
  BY TurnIs
<1>3. turn[w].entitled
  BY <1>1, TurnIs DEF TurnEntitled
<1>4. ASSUME NEW taught \in BOOLEAN, NEW tag \in L!ConceptTag,
             NEW match \in IF taught THEN L!Matches ELSE {L!NoMatch},
             NEW item \in IF taught THEN Concepts \cup {None} ELSE {None},
             L!Goto(w, "history",
                    [q EXCEPT !.concept = L!_resolve_concept_tag(item, tag, match),
                              !.match = match, !.grounding = L!Grounded(match, "lesson")])
      PROVE  CourseInv'
  <2>1. match \in CourseMatch /\ item \in Concepts \cup {None} /\ "lesson" \in L!Grounding
    BY MatchesAre, NoMatchIs DEF L!Grounding
  <2>2. PICK c \in L!ConceptTag : c = L!_resolve_concept_tag(item, tag, match)
    BY <2>1, MatchesAre
  <2>3. PICK g \in L!Grounding : g = L!Grounded(match, "lesson")
    BY <2>1, MatchesAre
  <2>4. PICK t : t = [q EXCEPT !.concept = c, !.match = match, !.grounding = g]
    OBVIOUS
  <2>5. L!Goto(w, "history", t)
    BY <1>4, <2>2, <2>3, <2>4
  <2> QED BY <1>1, <1>2, <1>3, <2>1, <2>4, <2>5, HistoryIs
<1>5. ASSUME NEW taught \in BOOLEAN,
             NEW match \in L!_rematch([concept |-> q.concept, section |-> q.match.section], taught),
             L!Goto(w, "history", [q EXCEPT !.match = match, !.grounding = L!Grounded(match, @)])
      PROVE  CourseInv'
  <2>1. match \in CourseMatch
    BY MatchesAre
  <2>2. PICK c \in L!ConceptTag, h \in L!Grounding : c = q.concept /\ h = q.grounding
    BY DEF CourseTurn
  <2>3. PICK g \in L!Grounding : g = L!Grounded(match, h)
    BY <2>1, MatchesAre
  <2>4. PICK t : t = [q EXCEPT !.concept = c, !.match = match, !.grounding = g]
    OBVIOUS
  <2>5. t = [q EXCEPT !.match = match, !.grounding = L!Grounded(match, @)]
    BY <2>2, <2>3, <2>4 DEF CourseTurn
  <2>6. L!Goto(w, "history", t)
    BY <1>5, <2>5
  <2> QED BY <1>1, <1>2, <1>3, <2>1, <2>4, <2>6, HistoryIs
<1> QED BY <1>2, <1>4, <1>5 DEF L!LoadLesson

\* A turn that ends without a framing.
LEMMA ExhaustedIs ==
  ASSUME CourseInv, NEW w \in Threads, at[w] \in {"history", "generate"}, L!Exhausted(w),
         UNCHANGED <<enrolled, attempts, interactions, answers>>
  PROVE  CourseInv'
<1>1. PICK q \in CourseTurn : q = turn[w]
  BY TurnIs
<1>2. PICK t : t = [q EXCEPT !.framing = None, !.text = None, !.spans = {}]
  OBVIOUS
<1>3. /\ t \in CourseTurn /\ t.session = q.session /\ t.user = q.user /\ t.framing = None
      /\ t.spans = {} /\ t.came = q.came /\ t.entitled = q.entitled
      /\ t.match = q.match /\ t.grounding = q.grounding
  BY <1>2 DEF CourseTurn
<1>4. L!Goto(w, "log", t) /\ "log" \in L!At
  BY <1>1, <1>2 DEF L!Exhausted, L!At
<1>5. /\ q.session \in CourseSessions /\ q.user \in CourseLearners /\ q.came <= Len(answers)
      /\ (q.user \in enrolled => q.entitled)
      /\ (~ q.entitled => q.match = L!NoMatch /\ q.grounding = "general_knowledge")
  BY <1>1, TurnIs DEF TurnTyped, TurnSays, TurnEntitled
<1>6. TurnTyped(t, "log") /\ TurnSays(answers, attempts, t, "log") /\ TurnEntitled(enrolled, t, "log")
  BY <1>3, <1>5 DEF TurnTyped, TurnSays, TurnEntitled
<1> QED BY <1>4, <1>6, QuietTurn

\* What was said to a session on a concept is in what its registry has.
LEMMA HistoryHas ==
  ASSUME CourseInv, NEW q \in CourseTurn, q.session \in CourseSessions, q.came <= Len(answers),
         NEW i \in 1..q.came, Bears(answers[i], q)
  PROVE  \E k \in DOMAIN attempts[<<q.session, q.concept>>] :
           /\ attempts[<<q.session, q.concept>>][k].framing = answers[i].framing
           /\ attempts[<<q.session, q.concept>>][k].text = answers[i].text
<1>1. answers \in Seq(L!Answers) /\ SaidOK(answers, attempts)
  BY DEF CourseInv, CourseTyped
<1>2. q.came \in Nat
  BY DEF CourseTurn
<1>3. i \in DOMAIN answers
  BY <1>1, <1>2
<1>4. Noted(attempts, answers[i])
  BY <1>1, <1>3 DEF SaidOK, Bears
<1> QED BY <1>4 DEF Noted, Bears

LEMMA HistoryStep ==
  ASSUME CourseInv, NEW w \in Threads, L!ReadHistory(w)
  PROVE  CourseInv'
<1>1. at[w] = "history" /\ UNCHANGED <<enrolled, attempts, interactions, answers>>
  BY DEF L!ReadHistory
<1>2. PICK q \in CourseTurn : q = turn[w]
  BY TurnIs
<1>3. /\ q.session \in CourseSessions /\ q.user \in CourseLearners /\ q.came <= Len(answers)
      /\ (q.user \in enrolled => q.entitled)
      /\ (~ q.entitled => q.match = L!NoMatch /\ q.grounding = "general_knowledge" /\ q.spans = {})
  BY <1>1, <1>2, TurnIs DEF TurnTyped, TurnSays, TurnEntitled
<1>4. "generate" \in L!At
  BY DEF L!At
<1>5. L!Key(w) = <<q.session, q.concept>>
  BY <1>2 DEF L!Key
<1>6. PICK history \in Seq(L!FramingAttempt) : history = attempts[L!Key(w)]
  <2>1. <<q.session, q.concept>> \in CourseSessions \X L!ConceptTag
    BY <1>3 DEF CourseTurn
  <2> QED BY <1>5, <2>1, TurnIs
<1>7. ASSUME q.kind = "explain_differently" => L!plan(history) # {},
             L!Goto(w, "generate", [q EXCEPT !.history = history])
      PROVE  CourseInv'
  <2>1. PICK t : t = [q EXCEPT !.history = history]
    OBVIOUS
  <2>2. /\ t \in CourseTurn /\ t.session = q.session /\ t.user = q.user /\ t.concept = q.concept
        /\ t.spans = q.spans /\ t.came = q.came /\ t.entitled = q.entitled /\ t.kind = q.kind
        /\ t.match = q.match /\ t.grounding = q.grounding /\ t.history = history
    BY <2>1 DEF CourseTurn
  <2>3. ASSUME NEW i \in 1..t.came, Bears(answers[i], t)
        PROVE  \E k \in DOMAIN t.history : /\ t.history[k].framing = answers[i].framing
                                           /\ t.history[k].text = answers[i].text
    <3>1. Bears(answers[i], q) /\ i \in 1..q.came
      BY <2>2, <2>3 DEF Bears
    <3> QED BY <1>3, <1>5, <1>6, <2>2, <3>1, HistoryHas
  <2>4. TurnTyped(t, "generate") /\ TurnEntitled(enrolled, t, "generate")
    BY <1>3, <2>2 DEF TurnTyped, TurnEntitled
  <2>5. TurnSays(answers, attempts, t, "generate")
    BY <1>3, <1>7, <2>2, <2>3 DEF TurnSays
  <2> QED BY <1>1, <1>4, <1>7, <2>1, <2>4, <2>5, QuietTurn
<1>8. ASSUME L!Goto(w, "generate", [q EXCEPT !.unread = TRUE])
      PROVE  CourseInv'
  <2>1. PICK t : t = [q EXCEPT !.unread = TRUE]
    OBVIOUS
  <2>2. /\ t \in CourseTurn /\ t.session = q.session /\ t.user = q.user /\ t.unread
        /\ t.spans = q.spans /\ t.came = q.came /\ t.entitled = q.entitled
        /\ t.match = q.match /\ t.grounding = q.grounding
    BY <2>1 DEF CourseTurn
  <2>3. TurnTyped(t, "generate") /\ TurnEntitled(enrolled, t, "generate")
        /\ TurnSays(answers, attempts, t, "generate")
    BY <1>3, <2>2 DEF TurnTyped, TurnEntitled, TurnSays
  <2> QED BY <1>1, <1>4, <1>8, <2>1, <2>3, QuietTurn
<1>9. CASE L!Exhausted(w)
  BY <1>1, <1>9, ExhaustedIs
<1> QED BY <1>2, <1>6, <1>7, <1>8, <1>9 DEF L!ReadHistory

\* What a turn chooses is none of what it has read.
LEMMA ChosenIsNew ==
  ASSUME NEW said, NEW noted, NEW q \in CourseTurn, ~ q.unread, TurnSays(said, noted, q, "generate"),
         NEW k \in L!candidates(q.history), NEW text, ~ L!is_repeat(text, q.history),
         NEW t, t.session = q.session, t.concept = q.concept, t.kind = q.kind, t.came = q.came,
         t.framing = FRAMING_ORDER[k], t.text = text
  PROVE  \A i \in 1..t.came : Bears(said[i], t) => Differs(said[i], t)
<1> SUFFICES ASSUME NEW i \in 1..q.came, Bears(said[i], t)
             PROVE  Differs(said[i], t)
  OBVIOUS
<1>1. Bears(said[i], q)
  BY DEF Bears
<1>2. PICK n \in DOMAIN q.history : q.history[n].framing = said[i].framing /\ q.history[n].text = said[i].text
  BY <1>1 DEF TurnSays
<1>3. said[i].text # text
  BY <1>2 DEF L!is_repeat
<1>4. ASSUME q.kind = "explain_differently" PROVE said[i].framing # FRAMING_ORDER[k]
  <2>1. L!plan(q.history) # {}
    BY <1>4 DEF TurnSays
  <2> QED BY <1>2, <2>1, CandidatesAre
<1> QED BY <1>3, <1>4 DEF Differs

LEMMA GenerateStep ==
  ASSUME CourseInv, NEW w \in Threads, L!Generate(w)
  PROVE  CourseInv'
<1>1. at[w] = "generate" /\ UNCHANGED <<enrolled, attempts, interactions, answers>>
  BY DEF L!Generate
<1>2. PICK q \in CourseTurn : q = turn[w]
  BY TurnIs
<1>3. TurnTyped(q, "generate") /\ TurnSays(answers, attempts, q, "generate")
      /\ TurnEntitled(enrolled, q, "generate")
  BY <1>1, <1>2, TurnIs
<1>4. CASE L!Fail(w)
  BY <1>1, <1>4, FailIs
<1>5. CASE L!Exhausted(w)
  BY <1>1, <1>5, ExhaustedIs
<1>6. ASSUME NEW texts \in [L!candidates(q.history) -> Texts], NEW k \in L!candidates(q.history),
             ~ L!is_repeat(texts[k], q.history),
             L!Goto(w, "record",
                    [q EXCEPT !.framing = FRAMING_ORDER[k], !.text = texts[k],
                              !.spans = L!spans_for_response(L!quotable_material(q.match),
                                          Len(q.history) + L!Cardinality({m \in L!candidates(q.history) : m < k}))])
      PROVE  CourseInv'
  <2>1. PICK f \in L!FramingStrategy, x \in Texts : f = FRAMING_ORDER[k] /\ x = texts[k]
    BY CandidatesAre
  <2>2. PICK n \in Nat : n = Len(q.history) + L!Cardinality({m \in L!candidates(q.history) : m < k})
    <3>1. PICK a \in Nat : a = Len(q.history)
      <4>1. q.history \in Seq(L!FramingAttempt)
        BY DEF CourseTurn
      <4> QED BY <4>1
    <3>2. PICK b \in Nat : b = L!Cardinality({m \in L!candidates(q.history) : m < k})
      BY CandidatesAre
    <3>3. PICK n \in Nat : n = a + b
      OBVIOUS
    <3> QED BY <3>1, <3>2, <3>3
  <2>3. PICK material \in Seq(L!Spans) : /\ material = L!quotable_material(q.match)
                                         /\ q.match = L!NoMatch => material = <<>>
    BY MaterialIs DEF CourseTurn
  <2>4. PICK spans \in SUBSET L!Spans : /\ spans = L!spans_for_response(material, n)
                                        /\ q.match = L!NoMatch => spans = {}
    BY <2>3, SpansAre
  <2>5. PICK t : t = [q EXCEPT !.framing = f, !.text = x, !.spans = spans]
    OBVIOUS
  <2>6. L!Goto(w, "record", t) /\ "record" \in L!At
    BY <1>6, <2>1, <2>2, <2>3, <2>4, <2>5 DEF L!At
  <2>7. /\ t \in CourseTurn /\ t.session = q.session /\ t.user = q.user /\ t.concept = q.concept
        /\ t.spans = spans /\ t.came = q.came /\ t.entitled = q.entitled /\ t.kind = q.kind
        /\ t.match = q.match /\ t.grounding = q.grounding /\ t.framing = f /\ t.text = x
        /\ t.unread = q.unread
    BY <2>5 DEF CourseTurn
  <2>8. f # None
    BY <2>1, CourseConstantsAre
  <2>9. TurnTyped(t, "record") /\ TurnEntitled(enrolled, t, "record")
    BY <1>3, <2>4, <2>7, <2>8 DEF TurnTyped, TurnEntitled
  <2>10. ~ t.unread => \A i \in 1..t.came : Bears(answers[i], t) => Differs(answers[i], t)
    BY <1>3, <1>6, <2>1, <2>7, ChosenIsNew
  <2>11. TurnSays(answers, attempts, t, "record")
    BY <1>3, <2>7, <2>10 DEF TurnSays
  <2> QED BY <1>1, <2>6, <2>9, <2>11, QuietTurn
<1> QED BY <1>2, <1>4, <1>5, <1>6 DEF L!Generate

LEMMA RecordStep ==
  ASSUME CourseInv, NEW w \in Threads, L!RecordFraming(w)
  PROVE  CourseInv'
<1>1. at[w] = "record" /\ UNCHANGED <<enrolled, interactions, answers>>
  BY DEF L!RecordFraming
<1>2. PICK q \in CourseTurn : q = turn[w]
  BY TurnIs
<1>3. TurnTyped(q, "record") /\ TurnSays(answers, attempts, q, "record")
      /\ TurnEntitled(enrolled, q, "record")
  BY <1>1, <1>2, TurnIs
<1>4. "log" \in L!At /\ TurnTyped(q, "log") /\ TurnEntitled(enrolled, q, "log")
  BY <1>3 DEF TurnTyped, TurnEntitled, L!At
<1>5. CASE L!record(L!Key(w), q.framing, q.text) /\ L!Goto(w, "log", q)
  <2>1. PICK key \in CourseSessions \X L!ConceptTag : key = <<q.session, q.concept>> /\ key = L!Key(w)
    BY <1>2, <1>3 DEF TurnTyped, CourseTurn, L!Key
  <2>2. PICK e \in L!FramingAttempt : e = [framing |-> q.framing, text |-> q.text]
    BY <1>3 DEF TurnTyped, CourseTurn, L!FramingAttempt
  <2>3. /\ attempts \in [CourseSessions \X L!ConceptTag -> Seq(L!FramingAttempt)]
        /\ attempts' = [attempts EXCEPT ![key] = Append(attempts[key], e)]
    BY <1>5, <2>1, <2>2, TurnIs DEF L!record
  <2>4. /\ attempts[key] \in Seq(L!FramingAttempt)
        /\ \A other \in CourseSessions \X L!ConceptTag :
             attempts'[other] = IF other = key THEN Append(attempts[key], e) ELSE attempts[other]
    BY <2>3
  <2>5. /\ Append(attempts[key], e) \in Seq(L!FramingAttempt)
        /\ Len(attempts[key]) + 1 \in DOMAIN Append(attempts[key], e)
        /\ Append(attempts[key], e)[Len(attempts[key]) + 1] = e
        /\ \A k \in DOMAIN attempts[key] : /\ k \in DOMAIN Append(attempts[key], e)
                                           /\ Append(attempts[key], e)[k] = attempts[key][k]
    BY <2>4
  <2>6. attempts' \in [CourseSessions \X L!ConceptTag -> Seq(L!FramingAttempt)]
    BY <2>3, <2>5
  <2>7. Grown(attempts, attempts')
    BY <2>4, <2>5 DEF Grown
  <2>8. Noted(attempts', q)
    <3>1. attempts'[key] = Append(attempts[key], e)
      BY <2>4
    <3>2. e.framing = q.framing /\ e.text = q.text
      BY <2>2
    <3> QED BY <2>1, <2>5, <3>1, <3>2 DEF Noted
  <2>9. answers \in Seq(L!Answers) /\ SaidOK(answers, attempts')
    BY <2>7, TurnIs, SaidStays
  <2>10. TurnSays(answers, attempts', q, "log")
    BY <1>3, <2>8 DEF TurnSays
  <2>11. /\ interactions' \in Seq(L!Prior) /\ answers' \in Seq(L!Answers)
         /\ Len(answers) <= Len(answers') /\ \A i \in 1..Len(answers) : answers'[i] = answers[i]
         /\ SaidOK(answers', attempts') /\ TurnSays(answers', attempts', q, "log")
    BY <1>1, <2>9, <2>10, TurnIs
  <2> QED BY <1>1, <1>4, <1>5, <2>6, <2>7, <2>11, TurnStep
<1>6. CASE L!Goto(w, "log", [q EXCEPT !.unrecorded = TRUE]) /\ UNCHANGED attempts
  <2>1. PICK t : t = [q EXCEPT !.unrecorded = TRUE]
    OBVIOUS
  <2>2. /\ t \in CourseTurn /\ t.session = q.session /\ t.user = q.user /\ t.concept = q.concept
        /\ t.spans = q.spans /\ t.came = q.came /\ t.entitled = q.entitled /\ t.kind = q.kind
        /\ t.match = q.match /\ t.grounding = q.grounding /\ t.framing = q.framing
        /\ t.text = q.text /\ t.unread = q.unread /\ t.unrecorded
    BY <2>1 DEF CourseTurn
  <2>3. TurnTyped(t, "log") /\ TurnEntitled(enrolled, t, "log")
    BY <1>4, <2>2 DEF TurnTyped, TurnEntitled
  <2>4. TurnSays(answers, attempts, t, "log")
    BY <1>3, <2>2 DEF TurnSays, Bears, Differs
  <2> QED BY <1>1, <1>4, <1>6, <2>1, <2>3, <2>4, QuietTurn
<1> QED BY <1>2, <1>5, <1>6 DEF L!RecordFraming

LEMMA WriteStep ==
  ASSUME CourseInv, NEW w \in Threads, L!WriteRecord(w)
  PROVE  CourseInv'
<1>1. at[w] = "log" /\ UNCHANGED <<enrolled, attempts>> /\ L!Goto(w, "idle", L!NoTurn)
  BY DEF L!WriteRecord
<1>2. PICK q \in CourseTurn : q = turn[w]
  BY TurnIs
<1>3. TurnTyped(q, "log") /\ TurnSays(answers, attempts, q, "log") /\ TurnEntitled(enrolled, q, "log")
  BY <1>1, <1>2, TurnIs
<1>4. /\ q.session \in CourseSessions /\ q.user \in CourseLearners
      /\ q.framing # None => q.text \in Texts
  BY <1>3 DEF TurnTyped
<1>5. PICK e : e =
        [status |-> IF q.framing = None THEN "framings_exhausted" ELSE "answered",
         kind |-> q.kind, session |-> q.session, concept |-> q.concept, grounding |-> q.grounding,
         framing |-> q.framing, text |-> q.text, spans |-> q.spans, came |-> q.came,
         entitled |-> q.entitled, unread |-> q.unread, unrecorded |-> q.unrecorded]
  OBVIOUS
<1>6. answers' = Append(answers, e)
  BY <1>2, <1>5 DEF L!WriteRecord
<1>7. /\ e.status = "answered" <=> q.framing # None
      /\ e.session = q.session /\ e.concept = q.concept /\ e.kind = q.kind
      /\ e.framing = q.framing /\ e.text = q.text /\ e.spans = q.spans /\ e.came = q.came
      /\ e.entitled = q.entitled /\ e.unread = q.unread /\ e.unrecorded = q.unrecorded
      /\ e.grounding = q.grounding
  BY <1>5
<1>8. e \in L!Answers
  BY <1>4, <1>5 DEF CourseTurn, L!Answers, L!ResponseStatus
<1>9. interactions' \in Seq(L!Prior)
  <2>1. PICK p : p = [session |-> q.session, user |-> q.user, concept |-> q.concept,
                      grounding |-> q.grounding, section |-> q.match.section]
    OBVIOUS
  <2>2. p \in L!Prior
    BY <1>4, <2>1 DEF CourseTurn, CourseMatch, L!Prior
  <2>3. interactions' = Append(interactions, p) \/ interactions' = interactions
    BY <1>2, <2>1 DEF L!WriteRecord
  <2>4. interactions \in Seq(L!Prior)
    BY TurnIs
  <2> QED BY <2>2, <2>3, <2>4
<1>10. /\ answers \in Seq(L!Answers) /\ SaidOK(answers, attempts) /\ e.came <= Len(answers)
  BY <1>3, <1>7, TurnIs DEF TurnSays
<1>11. /\ e.status = "answered" /\ ~ e.unrecorded => Noted(attempts, e)
       /\ e.status = "answered" /\ ~ e.unread =>
            \A i \in 1..e.came : Bears(answers[i], e) => Differs(answers[i], e)
       /\ e.grounding = "lesson" \/ e.spans # {} => e.entitled
  BY <1>3, <1>7 DEF TurnSays, TurnEntitled, Bears, Differs, Noted
<1>12. /\ SaidOK(Append(answers, e), attempts)
       /\ Append(answers, e) \in Seq(L!Answers) /\ Len(answers) <= Len(Append(answers, e))
       /\ \A i \in 1..Len(answers) : Append(answers, e)[i] = answers[i]
  BY <1>8, <1>10, <1>11, SaidMore
<1>13. /\ attempts' \in [CourseSessions \X L!ConceptTag -> Seq(L!FramingAttempt)]
       /\ Grown(attempts, attempts') /\ UNCHANGED enrolled
  BY <1>1, TurnIs, GrownRefl
<1>14. /\ SaidOK(answers', attempts') /\ answers' \in Seq(L!Answers) /\ Len(answers) <= Len(answers')
       /\ \A i \in 1..Len(answers) : answers'[i] = answers[i]
  BY <1>1, <1>6, <1>12
<1>15. /\ "idle" \in L!At /\ TurnTyped(L!NoTurn, "idle")
       /\ TurnSays(answers', attempts', L!NoTurn, "idle") /\ TurnEntitled(enrolled, L!NoTurn, "idle")
  BY NoTurnIs DEF L!At, TurnSays, TurnEntitled
<1> QED BY <1>1, <1>9, <1>13, <1>14, <1>15, TurnStep

LEMMA TurnKeeps ==
  ASSUME CourseInv, NEW w \in Threads, L!Turn(w)
  PROVE  CourseInv'
BY AskStep, FollowUpStep, VerifyStep, LessonStep, HistoryStep, GenerateStep, RecordStep, WriteStep
   DEF L!Turn

\* No turn comes after the last.
LEMMA AskedKeeps ==
  ASSUME asked \in 0..MaxTurns, L!SetEnrolment \/ \E w \in Threads : L!Turn(w)
  PROVE  asked' \in 0..MaxTurns
<1>1. MaxTurns \in Nat
  BY CourseConstantsAre
<1>2. CASE asked' = asked
  BY <1>2
<1>3. CASE asked' = asked + 1 /\ asked < MaxTurns
  BY <1>1, <1>3
<1>4. asked' = asked \/ (asked' = asked + 1 /\ asked < MaxTurns)
  BY DEF L!SetEnrolment, L!Turn, L!AskQuestion, L!FollowUp, L!VerifyEnrolment, L!LoadLesson,
         L!ReadHistory, L!Generate, L!RecordFraming, L!WriteRecord
<1> QED BY <1>2, <1>3, <1>4

LEMMA CourseBegins == L!CourseInit => CourseInv /\ asked \in 0..MaxTurns
<1> SUFFICES ASSUME L!CourseInit PROVE CourseInv /\ asked \in 0..MaxTurns
  OBVIOUS
<1>1. /\ enrolled \in SUBSET CourseLearners
      /\ attempts = [key \in CourseSessions \X L!ConceptTag |-> <<>>]
      /\ interactions = <<>> /\ answers = <<>> /\ asked = 0
      /\ at = [w \in Threads |-> "idle"] /\ turn = [w \in Threads |-> L!NoTurn]
  BY DEF L!CourseInit
<1>2. /\ attempts \in [CourseSessions \X L!ConceptTag -> Seq(L!FramingAttempt)]
      /\ interactions \in Seq(L!Prior) /\ answers \in Seq(L!Answers)
  <2>1. <<>> \in Seq(L!FramingAttempt) /\ <<>> \in Seq(L!Prior) /\ <<>> \in Seq(L!Answers)
    OBVIOUS
  <2> QED BY <1>1, <2>1
<1>3. L!NoTurn \in CourseTurn /\ "idle" \in L!At
  BY NoTurnIs DEF TurnTyped, L!At
<1>4. CourseTyped
  BY <1>1, <1>2, <1>3, NoTurnIs DEF CourseTyped
<1>5. SaidOK(answers, attempts)
  BY <1>1 DEF SaidOK
<1>6. \A w \in Threads : /\ TurnSays(answers, attempts, turn[w], at[w])
                         /\ TurnEntitled(enrolled, turn[w], at[w])
  BY <1>1 DEF TurnSays, TurnEntitled
<1> QED BY <1>1, <1>4, <1>5, <1>6, CourseConstantsAre DEF CourseInv

-----------------------------------------------------------------------------
(* The two coaches side by side. *)

InLesson == active \in {"alone", "together"}

CoachInv ==
  /\ active = "case" => TypeInv /\ HaltInv /\ ReaderInv
  /\ active # "case" => trail = <<>>
  /\ InLesson => CourseInv /\ asked \in 0..MaxTurns
  /\ ~ InLesson => answers = <<>>

LEMMA CaseKeeps == TypeInv /\ HaltInv /\ ReaderInv /\ [Next]_vars => TypeInv' /\ HaltInv' /\ ReaderInv'
  BY NextType, NextHalt, NextReader

LEMMA CoachBegins == CoachingInit => CoachInv
<1> SUFFICES ASSUME CoachingInit PROVE CoachInv
  OBVIOUS
<1>1. active = "case" => TypeInv /\ HaltInv /\ ReaderInv
  BY InitType DEF CoachingInit, Init, HaltInv, HoldsOf, HaltedOf, ReaderInv, ReaderOf, Working
<1>2. active # "case" => trail = <<>>
  BY DEF CoachingInit, CaseIdle
<1>3. InLesson => CourseInv /\ asked \in 0..MaxTurns
  BY CourseBegins DEF CoachingInit, InLesson
<1>4. ~ InLesson => answers = <<>>
  BY DEF CoachingInit, InLesson, LessonIdle
<1> QED BY <1>1, <1>2, <1>3, <1>4 DEF CoachInv

LEMMA CoachKeeps ==
  CoachInv /\ [CoachingNext]_<<active, vars, lesson_vars, upstream_vars, quiz_vars, http_vars>>
    => CoachInv'
<1> SUFFICES ASSUME CoachInv,
                    [CoachingNext]_<<active, vars, lesson_vars, upstream_vars, quiz_vars, http_vars>>
             PROVE  CoachInv'
  OBVIOUS
<1>1. UNCHANGED active
  BY DEF CoachingNext
<1>2. (active = "case" /\ Next) \/ UNCHANGED vars
  BY DEF CoachingNext
<1>3. (InLesson /\ (L!SetEnrolment \/ \E w \in Threads : L!Turn(w))) \/ UNCHANGED lesson_vars
  <2>1. First \in Threads
    BY CourseConstantsAre DEF First
  <2> QED BY <2>1 DEF CoachingNext, L!CourseNext, InLesson
<1>4. active = "case" => TypeInv' /\ HaltInv' /\ ReaderInv'
  BY <1>2, CaseKeeps DEF CoachInv
<1>5. active # "case" => trail' = <<>>
  BY <1>2 DEF CoachInv, vars
<1>6. InLesson => CourseInv' /\ asked' \in 0..MaxTurns
  <2>1. CASE InLesson /\ (L!SetEnrolment \/ \E w \in Threads : L!Turn(w))
    BY <2>1, EnrolmentStep, TurnKeeps, AskedKeeps DEF CoachInv
  <2>2. CASE UNCHANGED lesson_vars
    BY <2>2 DEF CoachInv, CourseInv, CourseTyped, lesson_vars
  <2> QED BY <1>3, <2>1, <2>2
<1>7. ~ InLesson => answers' = <<>>
  BY <1>3 DEF CoachInv, lesson_vars
<1> QED BY <1>1, <1>4, <1>5, <1>6, <1>7 DEF CoachInv, InLesson

LEMMA CoachInvariance == CoachingSpec => []CoachInv
BY CoachBegins, CoachKeeps, PTL DEF CoachingSpec

\* Everything the two coaches keep has its type, for any number of requests and
\* turns: above all, what a thread records is a framing of the order and a text.
THEOREM CoachesTypes ==
  CoachingSpec => []((active = "case" => TypeOK) /\ (active \in {"alone", "together"} => L!TypeOK))
<1>1. CoachInv => (active = "case" => TypeOK)
  BY DEF CoachInv, TypeInv
<1>2. ASSUME CourseInv, asked \in 0..MaxTurns PROVE L!TypeOK
  <2>1. \A w \in Threads : turn[w].spans \subseteq L!Spans /\ turn[w].grounding \in L!Grounding
    BY <1>2 DEF CourseInv, CourseTyped, CourseTurn
  <2> QED BY <1>2, <2>1 DEF L!TypeOK, CourseInv, CourseTyped
<1>3. CoachInv => (active = "case" => TypeOK) /\ (active \in {"alone", "together"} => L!TypeOK)
  BY <1>1, <1>2 DEF CoachInv, InLesson
<1> QED BY <1>3, CoachInvariance, PTL

\* For any threads, turns, lessons and framings, in any interleaving and whatever
\* the registry, the log or the enrolment service fail to do: of two answers on
\* one concept in one session, the second asked for once the first was given, the
\* texts differ unless the registry failed one of them, and a re-explanation
\* takes another framing than every answer before it.
THEOREM NothingIsSaidTwice == CoachingSpec => []NothingSaidTwice
<1>1. ASSUME CourseInv PROVE L!NothingSaidTwice
  <2>1. SaidOK(answers, attempts)
    BY <1>1 DEF CourseInv
  <2> QED BY <2>1 DEF L!NothingSaidTwice, SaidOK, Bears, Differs
<1>2. answers = <<>> => L!NothingSaidTwice
  BY DEF L!NothingSaidTwice
<1>3. CoachInv => NothingSaidTwice
  BY <1>1, <1>2 DEF CoachInv, NothingSaidTwice
<1> QED BY <1>3, CoachInvariance, PTL

\* Whatever is granted, enrolled, taken back or cannot be asked: the case file is
\* read right after a check that granted the learner of the request and an answer
\* has facts of that very reading only, and the material of a lesson is quoted
\* only to a learner who was enrolled at some moment of the request.
THEOREM NothingIsGivenAway == CoachingSpec => []NothingGivenAway
<1>1. ReaderInv => ContentHasItsReader
  BY DEF ReaderInv, ReaderOf, ContentHasItsReader
<1>2. trail = <<>> => ContentHasItsReader
  BY DEF ContentHasItsReader
<1>3. ASSUME CourseInv PROVE L!MaterialNeedsEnrolment
  <2>1. SaidOK(answers, attempts)
    BY <1>3 DEF CourseInv
  <2> QED BY <2>1 DEF L!MaterialNeedsEnrolment, SaidOK
<1>4. answers = <<>> => L!MaterialNeedsEnrolment
  BY DEF L!MaterialNeedsEnrolment
<1>5. CoachInv => NothingGivenAway
  BY <1>1, <1>2, <1>3, <1>4 DEF CoachInv, NothingGivenAway
<1> QED BY <1>5, CoachInvariance, PTL

-----------------------------------------------------------------------------
(* The levels, of any number of components that read them. *)

\* What LevelsAreHonest says of one reading u, met where the upstream was so.
Leveled(u) == "level" \in DOMAIN u /\ u.level \in U!NaricLevel

HonestUse(a, u, met) ==
  /\ Leveled(u) =>
       /\ u.source = "retrieved" =>
            u.level = record.holds /\ (a \in U!Told => record.origin # "fallback")
       /\ u.level # record.holds => u.source = "default" /\ u.level = U!DEFAULT_NARIC_LEVEL(a)
       /\ u.status = "empty" =>
            \/ record.holds = "nothing" /\ met = "answers"
            \/ a = "uc05_acme" /\ met = "unnamed_error"
       /\ u.status = "unavailable" => met # "answers"
       /\ u.status = "invalid" =>
            record.holds # "nothing" \/ met # "answers" \/ a = "uc06_foreign"
  /\ a \in {"uc03", "uc04_foreign_demo", "uc05_acme", "uc05_fake", "uc06_foreign"} =>
       Leveled(u) \/ met = "odd"

LevelsInv ==
  /\ record \in U!Record /\ service \in U!ServiceState
  /\ \A a \in DOMAIN readings :
       a \in U!Adapter /\ HonestUse(a, readings[a].uses, readings[a].met)

\* A level that is recognised is the one on record.
LEMMA LevelIs ==
  ASSUME record \in U!Record, NEW a
  PROVE  /\ U!Level(a) \in U!NaricLevel => U!Level(a) = record.holds
         /\ U!Level(a) \in U!NaricLevel \cup {"nothing", "other"}
         /\ U!Level(a) = "nothing" <=> record.holds = "nothing"
BY DEF U!Level, U!Record, U!NaricLevel

LEMMA DefaultedIs ==
  ASSUME NEW a, NEW status
  PROVE  /\ Leveled(U!Defaulted(a, status))
         /\ U!Defaulted(a, status).level = U!DEFAULT_NARIC_LEVEL(a)
         /\ U!Defaulted(a, status).source = "default" /\ U!Defaulted(a, status).status = status
         /\ "raises" \notin DOMAIN U!Defaulted(a, status)
BY DEF U!Defaulted, U!Reading, Leveled, U!NaricLevel, U!DEFAULT_NARIC_LEVEL

LEMMA ReadingIs ==
  ASSUME NEW level, NEW source, NEW status
  PROVE  /\ U!Reading(level, source, status).level = level
         /\ U!Reading(level, source, status).source = source
         /\ U!Reading(level, source, status).status = status
         /\ "raises" \notin DOMAIN U!Reading(level, source, status)
         /\ Leveled(U!Reading(level, source, status)) <=> level \in U!NaricLevel
BY DEF U!Reading, Leveled

LEMMA RaisedIs ==
  ASSUME NEW error
  PROVE  /\ U!Raised(error).raises = error /\ "raises" \in DOMAIN U!Raised(error)
         /\ ~ Leveled(U!Raised(error))
BY DEF U!Raised, Leveled

\* What a failure comes to: an error, untyped of no coach but for one oddity.
LEMMA FailuresAre ==
  ASSUME NEW a \in U!Adapter, NEW s \in DOMAIN U!Failures(a)
  PROVE  /\ s # "answers"
         /\ U!Failures(a)[s] \in {"unavailable", "timeout", "invalid", "untyped"}
         /\ U!Failures(a)[s] = "untyped" => s = "odd"
         /\ ~ (a = "uc05_acme" /\ s = "unnamed_error")
<1>1. CASE a = "uc03"
  BY <1>1 DEF U!Failures, U!ContextProviderFailures
<1>2. CASE a = "uc04_foreign_demo"
  BY <1>2 DEF U!Failures, U!StaffFailures
<1>3. CASE a = "uc05_acme"
  BY <1>3 DEF U!Failures, U!AcmeFailures
<1>4. CASE a = "uc05_fake"
  BY <1>4 DEF U!Failures, U!FakeFailures
<1>5. CASE a = "uc06_foreign"
  BY <1>5 DEF U!Failures, U!MattersphereFailures
<1>6. CASE a = "uc07_foreign"
  BY <1>6 DEF U!Failures, U!NexusFailures
<1>7. CASE a = "uc08_foreign"
  BY <1>7 DEF U!Failures, U!LexiconFailures
<1>8. CASE a = "uc09_foreign"
  BY <1>8 DEF U!Failures, U!LexPortalFailures
<1>9. CASE a = "uc09_larrycore"
  BY <1>9 DEF U!Failures, U!LarryCoreFailures, U!LexPortalFailures
<1>10. CASE a = "uc10_foreign"
  BY <1>10 DEF U!Failures, U!InteractionFailures
<1> QED BY <1>1, <1>2, <1>3, <1>4, <1>5, <1>6, <1>7, <1>8, <1>9, <1>10 DEF U!Adapter

\* What an adapter makes of an upstream that answers it.
LEMMA ReadsAre ==
  ASSUME record \in U!Record, NEW a \in U!Adapter,
         service = "answers" \/ (a = "uc05_acme" /\ service = "unnamed_error")
  PROVE  \/ HonestUse(a, U!Read(a), service) /\ "raises" \notin DOMAIN U!Read(a)
         \/ U!Read(a) = U!Raised("invalid") /\ a \in {"uc06_foreign", "uc07_foreign"}
<1>1. CASE a = "uc03"
  <2>1. U!Read(a) = U!ProvidedContext
    BY <1>1 DEF U!Read
  <2> QED BY <1>1, <2>1, LevelIs, DefaultedIs, ReadingIs, RaisedIs DEF HonestUse, U!ProvidedContext, U!Told
<1>2. CASE a = "uc04_foreign_demo"
  <2>1. U!Read(a) = U!Normalised("uc04_foreign_demo")
    BY <1>2 DEF U!Read
  <2> QED BY <1>2, <2>1, LevelIs, DefaultedIs, ReadingIs, RaisedIs DEF HonestUse, U!Normalised, U!Told
<1>3. CASE a = "uc05_acme"
  <2>1. U!Read(a) = U!AcmeContext
    BY <1>3 DEF U!Read
  <2> QED BY <1>3, <2>1, LevelIs, DefaultedIs, ReadingIs, RaisedIs DEF HonestUse, U!AcmeContext, U!Told
<1>4. CASE a = "uc05_fake"
  <2>1. U!Read(a) = U!FakeContext
    BY <1>4 DEF U!Read
  <2> QED BY <1>4, <2>1, LevelIs, DefaultedIs, ReadingIs, RaisedIs DEF HonestUse, U!FakeContext, U!Told
<1>5. CASE a = "uc06_foreign"
  <2>1. U!Read(a) = U!CaseLearnerContext
    BY <1>5 DEF U!Read
  <2> QED BY <1>5, <2>1, LevelIs, DefaultedIs, ReadingIs, RaisedIs DEF HonestUse, U!CaseLearnerContext, U!Told
<1>6. CASE a = "uc07_foreign"
  <2>1. U!Read(a) = U!NexusProfile
    BY <1>6 DEF U!Read
  <2> QED BY <1>6, <2>1, LevelIs, DefaultedIs, ReadingIs, RaisedIs DEF HonestUse, U!NexusProfile, U!Told
<1>7. CASE a = "uc08_foreign"
  <2>1. U!Read(a) = U!Normalised("uc08_foreign")
    BY <1>7 DEF U!Read
  <2> QED BY <1>7, <2>1, LevelIs, DefaultedIs, ReadingIs, RaisedIs DEF HonestUse, U!Normalised, U!Told
<1>8. CASE a = "uc09_foreign"
  <2>1. U!Read(a) = U!Normalised("uc09_foreign")
    BY <1>8 DEF U!Read
  <2> QED BY <1>8, <2>1, LevelIs, DefaultedIs, ReadingIs, RaisedIs DEF HonestUse, U!Normalised, U!Told
<1>9. CASE a = "uc09_larrycore"
  <2>1. U!Read(a) = U!Normalised("uc09_larrycore")
    BY <1>9 DEF U!Read
  <2> QED BY <1>9, <2>1, LevelIs, DefaultedIs, ReadingIs, RaisedIs DEF HonestUse, U!Normalised, U!Told
<1>10. CASE a = "uc10_foreign"
  <2>1. U!Read(a) = U!InteractionLevel
    BY <1>10 DEF U!Read
  <2>2. PICK n : n = U!Normalised("uc10_foreign")
    OBVIOUS
  <2>3. PICK level, status : /\ n = U!Reading(level, "retrieved", status) \/ n = U!Reading(level, "default", status)
                             /\ \/ level = record.holds /\ status = "available"
                                \/ level = U!DEFAULT_NARIC_LEVEL(a) /\ status = "empty" /\ record.holds = "nothing"
                                \/ level = U!DEFAULT_NARIC_LEVEL(a) /\ status = "invalid" /\ record.holds # "nothing"
                             /\ n = U!Reading(level, "retrieved", status) => level = record.holds
                             /\ level \in U!NaricLevel
    <3>1. CASE U!Level("uc10_foreign") = "nothing"
      <4>1. n = U!Reading(U!DEFAULT_NARIC_LEVEL(a), "default", "empty")
        BY <1>10, <2>2, <3>1 DEF U!Normalised, U!Defaulted
      <4> QED BY <1>10, <3>1, <4>1, LevelIs, ReadingIs DEF U!DEFAULT_NARIC_LEVEL, U!NaricLevel
    <3>2. CASE U!Level("uc10_foreign") = "other"
      <4>1. n = U!Reading(U!DEFAULT_NARIC_LEVEL(a), "default", "invalid")
        BY <1>10, <2>2, <3>2 DEF U!Normalised, U!Defaulted
      <4> QED BY <1>10, <3>2, <4>1, LevelIs, ReadingIs DEF U!DEFAULT_NARIC_LEVEL, U!NaricLevel
    <3>3. CASE U!Level("uc10_foreign") \notin {"nothing", "other"}
      <4>1. n = U!Reading(record.holds, "retrieved", "available")
        BY <2>2, <3>3 DEF U!Normalised
      <4> QED BY <3>3, <4>1, LevelIs, ReadingIs
    <3> QED BY <3>1, <3>2, <3>3
  <2>4. [n EXCEPT !.source = "default"] = U!Reading(level, "default", status)
    BY <2>3 DEF U!Reading
  <2>5. U!Read(a) = U!Reading(level, "default", status)
        \/ (record.origin = "lookup" /\ U!Read(a) = U!Reading(level, "retrieved", status) /\ level = record.holds)
    BY <2>1, <2>2, <2>3, <2>4 DEF U!InteractionLevel
  <2> QED BY <1>10, <2>3, <2>5, ReadingIs DEF HonestUse
<1> QED BY <1>1, <1>2, <1>3, <1>4, <1>5, <1>6, <1>7, <1>8, <1>9, <1>10 DEF U!Adapter

LEMMA UsesAre ==
  ASSUME record \in U!Record, NEW a \in U!Adapter, U!Meets(a)
  PROVE  HonestUse(a, U!Used(a, U!get_context(a)), service)
<1>1. CASE service \in DOMAIN U!Failures(a)
  <2>1. PICK error : /\ error = U!Failures(a)[service]
                     /\ error \in {"unavailable", "timeout", "invalid", "untyped"}
                     /\ error = "untyped" => service = "odd"
                     /\ service # "answers" /\ ~ (a = "uc05_acme" /\ service = "unnamed_error")
    BY <1>1, FailuresAre
  <2>2. U!get_context(a) = U!Raised(error)
    BY <1>1, <2>1 DEF U!get_context
  <2>3. \/ U!Used(a, U!get_context(a)) = U!Raised(error)
           /\ (a \in {"uc03", "uc04_foreign_demo", "uc05_acme", "uc05_fake", "uc06_foreign"} => error = "untyped")
        \/ \E status \in {"unavailable", "invalid"} :
             U!Used(a, U!get_context(a)) = U!Defaulted(a, status)
    <3>1. CASE a = "uc03"
      BY <2>2, <3>1, RaisedIs DEF U!Used, U!UC03_load_context
    <3>2. CASE a = "uc04_foreign_demo"
      BY <2>2, <3>2, RaisedIs DEF U!Used, U!UC04_load_context, U!resolve_context, U!Unread
    <3>3. CASE a \in {"uc05_acme", "uc05_fake"}
      BY <2>2, <3>3, RaisedIs DEF U!Used, U!resolve_context, U!Unread
    <3>4. CASE a = "uc06_foreign"
      BY <2>2, <3>4, RaisedIs DEF U!Used, U!UC06_resolve_context, U!resolve_context, U!Unread
    <3>5. CASE a \notin {"uc03", "uc04_foreign_demo", "uc05_acme", "uc05_fake", "uc06_foreign"}
      BY <2>2, <3>5 DEF U!Used
    <3> QED BY <3>1, <3>2, <3>3, <3>4, <3>5
  <2> QED BY <2>1, <2>3, RaisedIs, DefaultedIs DEF HonestUse
<1>2. CASE service \notin DOMAIN U!Failures(a)
  <2>1. service = "answers" \/ (a = "uc05_acme" /\ service = "unnamed_error")
    BY <1>2 DEF U!Meets
  <2>2. U!get_context(a) = U!Read(a)
    BY <1>2 DEF U!get_context
  <2>3. CASE HonestUse(a, U!Read(a), service) /\ "raises" \notin DOMAIN U!Read(a)
    <3>1. U!Used(a, U!Read(a)) = U!Read(a)
      BY <2>3 DEF U!Used, U!UC03_load_context, U!UC04_load_context, U!UC06_resolve_context,
                  U!resolve_context
    <3> QED BY <2>2, <2>3, <3>1
  <2>4. CASE U!Read(a) = U!Raised("invalid") /\ a = "uc06_foreign"
    <3>1. U!Used(a, U!Read(a)) = U!Defaulted(a, "invalid")
      BY <2>4, RaisedIs DEF U!Used, U!UC06_resolve_context, U!resolve_context, U!Unread
    <3> QED BY <2>2, <2>4, <3>1, DefaultedIs DEF HonestUse
  <2>5. CASE U!Read(a) = U!Raised("invalid") /\ a = "uc07_foreign"
    <3>1. U!Used(a, U!Read(a)) = U!Read(a)
      BY <2>5 DEF U!Used
    <3> QED BY <2>2, <2>5, <3>1, RaisedIs DEF HonestUse
  <2> QED BY <2>1, <2>3, <2>4, <2>5, ReadsAre
<1> QED BY <1>1, <1>2

LEMMA LevelsBegin == CoachingInit => LevelsInv
<1> SUFFICES ASSUME CoachingInit PROVE LevelsInv
  OBVIOUS
<1>1. service = "answers" /\ readings = <<>> /\ (record \in U!Record \/ U!NoLevels)
  BY DEF CoachingInit, UpstreamsIdle, U!UpstreamsInit, U!LevelsInit, U!NoLevels
<1>2. U!NoLevels => record \in U!Record
  BY DEF U!NoLevels, U!Record, U!NaricLevel, U!Spelling
<1> QED BY <1>1, <1>2 DEF LevelsInv, U!ServiceState

LEMMA LevelsKeep ==
  LevelsInv /\ [CoachingNext]_<<active, vars, lesson_vars, upstream_vars, quiz_vars, http_vars>>
    => LevelsInv'
<1> SUFFICES ASSUME LevelsInv,
                    [CoachingNext]_<<active, vars, lesson_vars, upstream_vars, quiz_vars, http_vars>>
             PROVE  LevelsInv'
  OBVIOUS
<1>1. U!UpstreamsNext \/ UNCHANGED upstream_vars
  BY DEF CoachingNext
<1>2. ASSUME UNCHANGED <<record, readings>>, service' \in U!ServiceState PROVE LevelsInv'
  BY <1>2 DEF LevelsInv, HonestUse
<1>3. CASE UNCHANGED upstream_vars
  BY <1>2, <1>3 DEF upstream_vars, LevelsInv
<1>4. ASSUME NEW a \in U!Adapter, U!UseLevel(a) PROVE LevelsInv'
  <2>1. /\ UNCHANGED <<record, service>> /\ U!Meets(a)
        /\ DOMAIN readings' = DOMAIN readings \cup {a}
        /\ readings'[a].uses = U!Used(a, U!get_context(a)) /\ readings'[a].met = service
        /\ \A b \in DOMAIN readings : b # a => readings'[b] = readings[b]
    BY <1>4 DEF U!UseLevel
  <2>2. HonestUse(a, readings'[a].uses, readings'[a].met)
    BY <2>1, UsesAre DEF LevelsInv
  <2>3. ASSUME NEW b \in DOMAIN readings'
        PROVE  b \in U!Adapter /\ HonestUse(b, readings'[b].uses, readings'[b].met)
    BY <2>1, <2>2, <2>3 DEF LevelsInv
  <2> QED BY <2>1, <2>3 DEF LevelsInv, HonestUse
<1>5. CASE U!Fails \/ U!Recovers
  BY <1>2, <1>5 DEF U!Fails, U!Recovers, U!ServiceState
<1>6. ASSUME NEW op, U!Take(op) PROVE LevelsInv'
  BY <1>2, <1>6 DEF U!Take, U!level_vars, LevelsInv
<1> QED BY <1>1, <1>3, <1>4, <1>5, <1>6 DEF U!UpstreamsNext, U!LevelsNext

\* The components draw the same line between the depths.
LEMMA DepthsAgree ==
  ASSUME NEW a \in U!Adapter \ {"uc07_foreign"}, NEW l \in U!NaricLevel
  PROVE  U!Depth(a, l) = U!UC03_NARIC_TO_DEPTH[l]
<1>1. CASE a = "uc03"
  BY <1>1 DEF U!Depth
<1>2. CASE a = "uc04_foreign_demo"
  BY <1>2 DEF U!Depth, U!UC03_NARIC_TO_DEPTH, U!UC04_NARIC_LEVEL_PROFILE
<1>3. CASE a \in {"uc05_acme", "uc05_fake"}
  BY <1>3 DEF U!Depth, U!UC03_NARIC_TO_DEPTH, U!UC05_EXPLANATION_PROFILE_BY_LEVEL
<1>4. CASE a = "uc06_foreign"
  BY <1>4 DEF U!Depth, U!UC03_NARIC_TO_DEPTH, U!UC06_PROFILE_BY_LEVEL
<1>5. CASE a = "uc08_foreign"
  BY <1>5 DEF U!Depth, U!UC03_NARIC_TO_DEPTH, U!UC08_EXPLANATION_PROFILE_BY_LEVEL
<1>6. CASE a \in {"uc09_foreign", "uc09_larrycore"}
  BY <1>6 DEF U!Depth, U!UC03_NARIC_TO_DEPTH, U!UC09_PROFILE_BY_LEVEL
<1>7. CASE a = "uc10_foreign"
  BY <1>7 DEF U!Depth, U!UC03_NARIC_TO_DEPTH, U!UC10_PROFILE_BY_LEVEL
<1> QED BY <1>1, <1>2, <1>3, <1>4, <1>5, <1>6, <1>7 DEF U!Adapter

\* However many components read, whatever is on record of the learner, however
\* the upstream words it and whenever it fails or recovers: a level that passes
\* for retrieved is the learner's own, the same level is explained at the same
\* depth everywhere, a failure is not an absence, and no coach is left without a
\* level by a failure that its port names.
THEOREM EveryLevelIsHonest == CoachingSpec => []LevelsAreHonest
<1>1. ASSUME LevelsInv PROVE LevelsAreHonest
  <2>1. U!HasLevel \subseteq DOMAIN readings
        /\ \A a \in U!HasLevel : a \in U!Adapter /\ Leveled(U!Uses(a)) /\ HonestUse(a, U!Uses(a), readings[a].met)
    BY <1>1 DEF LevelsInv, U!HasLevel, U!Uses, Leveled
  <2>2. U!LevelsAreHonest
    BY <2>1 DEF U!LevelsAreHonest, HonestUse
  <2>3. U!OneDepthEverywhere
    <3>1. ASSUME NEW a \in U!HasLevel \ {"uc07_foreign"}, U!Uses(a).source = "retrieved"
          PROVE  U!Depth(a, U!Uses(a).level) = U!UC03_NARIC_TO_DEPTH[record.holds]
      <4>1. U!Uses(a).level = record.holds /\ record.holds \in U!NaricLevel /\ a \in U!Adapter
        BY <2>1, <3>1 DEF HonestUse, Leveled
      <4> QED BY <4>1, DepthsAgree
    <3> QED BY <3>1 DEF U!OneDepthEverywhere
  <2>4. U!OutageIsNotAbsence
    BY <2>1 DEF U!OutageIsNotAbsence, HonestUse
  <2>5. U!NeverWithoutALevel
    BY <1>1 DEF U!NeverWithoutALevel, LevelsInv, HonestUse, U!HasLevel, U!Uses, Leveled
  <2> QED BY <2>2, <2>3, <2>4, <2>5 DEF LevelsAreHonest
<1> QED BY <1>1, LevelsBegin, LevelsKeep, PTL DEF CoachingSpec

=============================================================================
