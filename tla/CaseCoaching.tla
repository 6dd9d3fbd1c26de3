------------------------------ MODULE CaseCoaching ------------------------------
(***************************************************************************)
(* UC-06: coaching on a case file (case_coaching_service.py) and the       *)
(* emitter that lets nothing out unlabelled (emitter.py, boundary.py).     *)
(* The handlers are coroutines that never await, so one request runs at a  *)
(* time; what changes meanwhile is upstream.  A step is one port call with *)
(* what follows it up to the next.  The stores are in the process and do   *)
(* not fail; providers and sinks do.                                       *)
(*                                                                         *)
(* A question is what its text makes of it: the class the guard gives it   *)
(* and whether it tries to suppress the disclaimer.  A generated text is   *)
(* the facts it marks and claims and whether it predicts.  A response's id *)
(* is the number of its request.  Levels, topics and prompts are left out. *)
(***************************************************************************)
EXTENDS Naturals, Sequences, FiniteSets

CONSTANTS CaseLearners, CaseSessions, CaseFacts, OtherFacts,
          MaxRequests,   \* bound
          None

ASSUME CaseAssumption ==
  /\ CaseFacts \cap OtherFacts = {} /\ MaxRequests \in Nat
  /\ None \notin CaseLearners \cup CaseSessions

VARIABLES granted,    \* the learners the case file system lets read
          halts,      \* SessionHaltRepository
          records,    \* InteractionLogRepository
          audit,      \* the audit records: the request of each
          incidents,  \* SecurityIncidentSink
          alerts,     \* AdminAlertSink
          trail,      \* what the service did that others see, in order
          served, pc, job

vars == <<granted, halts, records, audit, incidents, alerts, trail, served, pc, job>>

GuardClass == {"none", "outcome_prediction", "litigation_strategy"}
ResponseMode == {"case_linked", "general_fallback"}
SecurityIncidentKind == {"prompt_disclaimer_suppression", "request_field_suppression",
                         "internal_disclaimer_absent", "internal_disclaimer_altered",
                         "unauthorised_case_access"}

FactIds == CaseFacts \cup OtherFacts

\* The safe errors, by what brought them about.
ErrorCode == {"session_halted", "refused", "generation", "identity", "invalid_request",
              "internal_error", "response_withheld"}

InteractionRecord == [response : Nat, session : CaseSessions, user : CaseLearners,
                      mode : ResponseMode, facts : SUBSET FactIds]
SecurityIncident == [kind : SecurityIncidentKind, request : Nat]

\* A response as it leaves the service or is withheld, an access check, a read
\* of the case file, a halt that is cleared.
Event == [event : {"sent", "withheld", "check", "read", "cleared"},
          request : Nat, session : CaseSessions \cup {None}, user : CaseLearners \cup {None},
          code : ResponseMode \cup ErrorCode \cup {"status", "ok", "denied", "invalid"},
          facts : SUBSET FactIds, labelled : BOOLEAN, predicts : BOOLEAN]

\* A response object: every one has the disclaimer from its constructor.
Response == [code : ResponseMode \cup ErrorCode \cup {"status"},
             facts : SUBSET FactIds, predicts : BOOLEAN]

PC == {"idle", "context", "access", "load", "generate", "general", "emit", "alert", "incident"}

Failing(code) == [code |-> code, facts |-> {}, predicts |-> FALSE]
NoJob == [session |-> None, user |-> None, guard |-> "none", file |-> {}, response |-> Failing("refused"),
          absent |-> FALSE]

TypeOK ==
  /\ granted \subseteq CaseLearners /\ halts \subseteq CaseSessions
  /\ records \in Seq(InteractionRecord)
  /\ \A i, j \in DOMAIN records : records[i].response = records[j].response => i = j
  /\ audit \in Seq(Nat) /\ incidents \in Seq(SecurityIncident) /\ alerts \in Seq(Nat)
  /\ trail \in Seq(Event)
  /\ served \in Nat /\ pc \in PC
  /\ job.file \subseteq CaseFacts /\ job.response \in Response

Init ==
  /\ granted = {} /\ halts = {} /\ records = <<>> /\ audit = <<>> /\ incidents = <<>>
  /\ alerts = <<>> /\ trail = <<>>
  /\ served = 0 /\ pc = "idle" /\ job = NoJob

-----------------------------------------------------------------------------

ToldOf(event, code, facts, labelled, predicts) ==
  [event |-> event, request |-> served, session |-> job.session, user |-> job.user,
   code |-> code, facts |-> facts, labelled |-> labelled, predicts |-> predicts]

See(event, code, facts) == trail' = Append(trail, ToldOf(event, code, facts, TRUE, FALSE))

Goto(label, locals) == pc' = label /\ job' = locals

\* A payload leaves, and the request ends.
Send(response, labelled) ==
  /\ trail' = Append(trail, ToldOf("sent", response.code, response.facts, labelled, response.predicts))
  /\ Goto("idle", NoJob)

\* unhandled_handler: an exception that nothing caught.
Unhandled == Send(Failing("internal_error"), TRUE)

_audit_event == audit' = Append(audit, served)

Incident(kind) == incidents' = Append(incidents, [kind |-> kind, request |-> served])

\* _error: a refusal, on its way to the emitter.
_error(code) == Goto("emit", [job EXCEPT !.response = Failing(code)])

\* _record: what is recorded of a response that answers.
_record(response) ==
  [response |-> served, session |-> job.session, user |-> job.user,
   mode |-> response.code, facts |-> response.facts]

\* Mutant: the record is written before the audit and again with it.
AnswerTwice(response) ==
  /\ records' = records \o <<_record(response), _record(response)>>
  /\ _audit_event
  /\ Goto("emit", [job EXCEPT !.response = response])

\* _record and _audit_event, of a response that answers.
Answer(response) ==
  /\ records' = Append(records, _record(response))
  /\ _audit_event
  /\ Goto("emit", [job EXCEPT !.response = response])

\* _redirect: composed in-domain, from the first facts of the file.
_redirect ==
  \E cited \in {facts \in SUBSET job.file : facts = {} <=> job.file = {}} :
    Answer([code |-> "case_linked", facts |-> cited, predicts |-> FALSE])

General == [code |-> "general_fallback", facts |-> {}, predicts |-> FALSE]

\* _general_fallback, whose text is generated unless the guard was triggered.
_general_fallback ==
  IF job.guard # "none"
  THEN Answer(General)
  ELSE Goto("general", job) /\ UNCHANGED <<records, audit>>

-----------------------------------------------------------------------------
(* Upstream, and the operator. *)

SetAccess == /\ granted' \in SUBSET CaseLearners /\ granted' # granted
             /\ UNCHANGED <<halts, records, audit, incidents, alerts, trail, served, pc, job>>

\* clear: an operator in the process.
Clear == /\ pc = "idle"
         /\ \E s \in halts :
              /\ halts' = halts \ {s}
              /\ trail' = Append(trail, [ToldOf("cleared", "ok", {}, TRUE, FALSE) EXCEPT !.session = s])
         /\ UNCHANGED <<granted, records, audit, incidents, alerts, served, pc, job>>

-----------------------------------------------------------------------------
(* ask. *)

Request(s, u, guard) == [NoJob EXCEPT !.session = s, !.user = u, !.guard = guard]

\* The halt is looked at first, and the text scanned: what it says is logged,
\* never obeyed.  A guard classifier that fails is replaced by the rules.
Ask ==
  /\ pc = "idle" /\ served < MaxRequests
  /\ served' = served + 1
  /\ \E s \in CaseSessions, u \in CaseLearners, guard \in {"none", "outcome_prediction"}, injection \in BOOLEAN :
       \/ /\ s \in halts
          /\ audit' = Append(audit, served')
          /\ Goto("emit", [Request(s, u, guard) EXCEPT !.response = Failing("session_halted")])
          /\ UNCHANGED <<incidents, trail>>
       \/ /\ s \notin halts
          /\ incidents' = IF injection THEN Append(incidents, [kind |-> "prompt_disclaimer_suppression",
                                                               request |-> served'])
                          ELSE incidents
          /\ Goto("context", Request(s, u, guard))
          /\ UNCHANGED <<audit, trail>>
       \/ /\ s \notin halts /\ injection
          /\ trail' = Append(trail, [ToldOf("sent", "internal_error", {}, TRUE, FALSE) EXCEPT
                                       !.request = served', !.session = s, !.user = u])
          /\ UNCHANGED <<incidents, audit, pc, job>>
  /\ UNCHANGED <<granted, halts, records, alerts>>

\* _resolve_context: without it no case file is opened; with it the session
\* must be linked to the one asked about.
ResolveContext ==
  /\ pc = "context"
  /\ \/ _general_fallback
     \/ _audit_event /\ _error("refused") /\ UNCHANGED records
     \/ Goto("access", job) /\ UNCHANGED <<records, audit>>
  /\ UNCHANGED <<granted, halts, incidents, alerts, trail, served>>

\* Mutant: the access check of an outage is passed.
VerifyOrPass ==
  /\ pc = "access"
  /\ \/ See("check", "ok", {}) /\ Goto("load", job) /\ job.user \in granted
     \/ UNCHANGED trail /\ Goto("load", job)
  /\ UNCHANGED <<granted, halts, records, audit, incidents, alerts, served>>

\* verify_read_access: granted, refused, unreachable, or answering what cannot
\* be mapped, which nothing catches.
VerifyReadAccess ==
  /\ pc = "access"
  /\ \/ /\ job.user \in granted
        /\ See("check", "ok", {}) /\ Goto("load", job)
        /\ UNCHANGED <<records, audit, incidents>>
     \/ /\ job.user \notin granted
        /\ See("check", "denied", {})
        /\ Incident("unauthorised_case_access") /\ _audit_event /\ _error("refused")
        /\ UNCHANGED records
     \/ job.user \notin granted /\ Unhandled /\ UNCHANGED <<records, audit, incidents>>
     \/ _general_fallback /\ UNCHANGED <<incidents, trail>>
     \/ /\ trail' = trail \o <<ToldOf("check", "invalid", {}, TRUE, FALSE),
                             ToldOf("sent", "internal_error", {}, TRUE, FALSE)>>
        /\ Goto("idle", NoJob)
        /\ UNCHANGED <<records, audit, incidents>>
  /\ UNCHANGED <<granted, halts, alerts, served>>

\* get_case_file, and the origin of what it read.
LoadCaseFile ==
  /\ pc = "load"
  /\ \/ _general_fallback /\ UNCHANGED trail
     \/ \E file \in SUBSET CaseFacts :
          /\ See("read", "ok", file)
          /\ \/ _audit_event /\ _error("refused")
             \/ Goto("generate", [job EXCEPT !.file = file]) /\ UNCHANGED audit
          /\ UNCHANGED records
  /\ UNCHANGED <<granted, halts, incidents, alerts, served>>

\* verify_and_render: both channels a fact may be cited through.
verify_and_render(in_text, claimed, file) == in_text \cup claimed \subseteq file

\* Redirect, or generate: a failure, a fabricated reference, a prediction, or
\* the explanation.
Generate ==
  /\ pc = "generate"
  /\ IF job.guard # "none" THEN _redirect
     ELSE \/ _audit_event /\ _error("generation") /\ UNCHANGED records
          \/ \E in_text, claimed \in SUBSET FactIds, predicts \in BOOLEAN :
               \/ /\ ~ verify_and_render(in_text, claimed, job.file)
                  /\ _audit_event /\ _error("generation") /\ UNCHANGED records
               \/ verify_and_render(in_text, claimed, job.file) /\ predicts /\ _redirect
               \/ /\ verify_and_render(in_text, claimed, job.file) /\ ~ predicts
                  /\ Answer([code |-> "case_linked", facts |-> in_text \cup claimed, predicts |-> predicts])
  /\ UNCHANGED <<granted, halts, incidents, alerts, trail, served>>

\* _general_content: a generated text with a fact marked or a prediction in it,
\* or none at all, is replaced by the in-domain one.
GenerateGeneral ==
  /\ pc = "general"
  /\ Answer(General)
  /\ UNCHANGED <<granted, halts, incidents, alerts, trail, served>>

-----------------------------------------------------------------------------
(* emit. *)

\* session_status: to a learner with an interaction in the session, or while
\* there is none.
AskStatus ==
  /\ pc = "idle" /\ served < MaxRequests
  /\ served' = served + 1
  /\ \E s \in CaseSessions, u \in CaseLearners :
       LET users == {records[i].user : i \in {j \in DOMAIN records : records[j].session = s}}
       IN IF users # {} /\ u \notin users
          THEN /\ trail' = Append(trail, [ToldOf("sent", "refused", {}, TRUE, FALSE) EXCEPT
                                            !.request = served', !.session = s, !.user = u])
               /\ UNCHANGED <<pc, job>>
          ELSE /\ Goto("emit", [Request(s, u, "none") EXCEPT !.response = Failing("status")])
               /\ UNCHANGED trail
  /\ UNCHANGED <<granted, halts, records, audit, incidents, alerts>>

\* A request that is not attributed or not well formed; a field that would
\* suppress the disclaimer is an incident.
RejectRequest ==
  /\ pc = "idle" /\ served < MaxRequests
  /\ served' = served + 1
  /\ \E code \in {"identity", "invalid_request"}, suppression \in BOOLEAN :
       /\ trail' = Append(trail, [ToldOf("sent", code, {}, TRUE, FALSE) EXCEPT !.request = served'])
       /\ incidents' = IF code = "invalid_request" /\ suppression
                       THEN Append(incidents, [kind |-> "request_field_suppression", request |-> served'])
                       ELSE incidents
  /\ UNCHANGED <<granted, halts, records, audit, alerts, pc, job>>

\* Mutant: the administrator is told before the session is halted.
AlertThenHalt ==
  /\ pc = "emit"
  /\ \/ Send(job.response, TRUE)
     \/ trail' = Append(trail, ToldOf("withheld", job.response.code, {}, FALSE, FALSE)) /\ Goto("alert", job)
  /\ UNCHANGED <<granted, halts, records, audit, incidents, alerts, served>>

\* check_payload of what the serializer made of the response; _fail_closed
\* halts the session before all else.
Emit ==
  /\ pc = "emit"
  /\ \/ Send(job.response, TRUE) /\ UNCHANGED halts
     \/ \E absent \in BOOLEAN :
          /\ halts' = halts \cup {job.session}
          /\ trail' = Append(trail, ToldOf("withheld", job.response.code, {}, FALSE, FALSE))
          /\ Goto("alert", [job EXCEPT !.absent = absent])
  /\ UNCHANGED <<granted, records, audit, incidents, alerts, served>>

AlertAdmin ==
  /\ pc = "alert"
  /\ \/ alerts' = Append(alerts, served) /\ Goto("incident", job) /\ UNCHANGED trail
     \/ Unhandled /\ UNCHANGED alerts
  /\ UNCHANGED <<granted, halts, records, audit, incidents, served>>

\* The safe error is made without the serializer that failed.
RecordIncident ==
  /\ pc = "incident"
  /\ \/ /\ Incident(IF job.absent THEN "internal_disclaimer_absent" ELSE "internal_disclaimer_altered")
        /\ Send(Failing("response_withheld"), TRUE)
     \/ Unhandled /\ UNCHANGED incidents
  /\ UNCHANGED <<granted, halts, records, audit, alerts, served>>

Next ==
  \/ SetAccess \/ Clear
  \/ Ask \/ ResolveContext \/ VerifyReadAccess \/ LoadCaseFile \/ Generate \/ GenerateGeneral
  \/ AskStatus \/ RejectRequest \/ Emit \/ AlertAdmin \/ RecordIncident

Spec == Init /\ [][Next]_vars

-----------------------------------------------------------------------------

\* A halt holds until it is cleared: between a withheld response and the
\* clearing of its session, whichever sink failed, the session's case file is
\* not read and no answer leaves (Ask, _fail_closed).
HaltHolds ==
  \A k, l \in DOMAIN trail :
    /\ k < l /\ trail[k].event = "withheld" /\ trail[l].session = trail[k].session
    /\ \A c \in k..l : trail[c].session = trail[k].session => trail[c].event # "cleared"
    => trail[l].event # "read" /\ trail[l].code \notin ResponseMode

\* Case content has its reader: the case file is read right after an access
\* check that granted the learner of the request, never on an earlier one, and
\* the facts of an answer, which predicts nothing, are of the file just read
\* (verify_read_access, verify_and_render, detect_output_prediction).
ContentHasItsReader ==
  \A k \in DOMAIN trail :
    LET e == trail[k]
        before(event) == k > 1 /\ trail[k-1].event = event /\ trail[k-1].request = e.request
    IN /\ e.event = "read" => before("check") /\ trail[k-1].code = "ok" /\ trail[k-1].user = e.user
       /\ (e.event = "sent" /\ e.facts # {}) => before("read") /\ e.facts \subseteq trail[k-1].facts
       /\ e.event = "sent" => e.labelled /\ ~ e.predicts

\* "The learner is never left with nothing": an access check that answers what
\* cannot be mapped, as its port may, ends in general coaching like one that
\* cannot be reached (VerifyReadAccess).
NeverLeftWithNothing ==
  \A k \in DOMAIN trail :
    (trail[k].event = "sent" /\ k > 1 /\ trail[k-1].code = "invalid") =>
      trail[k].code = "general_fallback"

=============================================================================
