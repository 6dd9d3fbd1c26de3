------------------------------ MODULE HttpAnswers ------------------------------
(***************************************************************************)
(* What the ten applications tell a client that they do not serve: which   *)
(* checks a request passes and in which order, what the service raises for *)
(* each cause, and the status and code that the handlers make of it.       *)
(*                                                                         *)
(* A client sends one request, and does what the answers tell it: signs    *)
(* in, corrects what was refused, tries again later, or gives up.          *)
(* Endpoints that only report on the process, or that configuration turns  *)
(* off, are left out, and so is JSON that cannot be parsed at all, which   *)
(* every application refuses before anything else.                         *)
(***************************************************************************)
EXTENDS Naturals, Sequences, FiniteSets, TLC

CONSTANT MaxTries   \* bound

HttpConstants == MaxTries \in Nat

VARIABLES app, route,   \* what the client addresses
          flaws,        \* what is wrong with its request
          cause,        \* what stands against it in the service
          answer, client, tries

http_vars == <<app, route, flaws, cause, answer, client, tries>>

\* identity: no credential that resolves.  body: does not fit its schema.
\* force: asks for what a public path does not do.  session: names no session.
\* admin: no administrator's credential.
Flaw == {"identity", "body", "force", "session", "admin"}

\* The caller's doing, the platform's, and of these the ones that may pass.
CallersCause == {"selection", "missing", "foreign", "denied", "state"}
Passing == {"timeout", "down", "invalid", "store"}
PlatformCause == Passing \cup {"defect"}

Outage(one) == [timeout |-> one, down |-> one, invalid |-> one]
InBand == Outage({"OK"})

\* The three errors of a port, one for each kind of outage.
Port == [timeout |-> {"ProviderTimeout"}, down |-> {"ProviderUnavailable"},
         invalid |-> {"ProviderInvalidResponse"}]
PortOrOK == [c \in DOMAIN Port |-> {"OK"} \cup Port[c]]
PortBases == [c \in UNION {Port[k] : k \in DOMAIN Port} |-> "ProviderError"]

Flat == [c \in {} |-> "Exception"]

-----------------------------------------------------------------------------

UC01_Bases ==
  [c \in {"AuthenticationRequiredError", "SelectionRequiredError", "SelectionNotAllowedError",
          "SelectionNotAccessibleError", "SessionNotFoundError", "ModeUnavailableError",
          "DependencyDegradedError", "SessionInitializationError"} |-> "Uc01Error"]

UC01_Handlers ==
  [AuthenticationRequiredError |-> <<401, "authentication_required">>,
   SelectionRequiredError |-> <<400, "selection_required">>,
   SelectionNotAllowedError |-> <<400, "selection_not_allowed">>,
   SelectionNotAccessibleError |-> <<403, "selection_not_accessible">>,
   SessionNotFoundError |-> <<404, "session_not_found">>,
   ModeUnavailableError |-> <<409, "session_mode_unavailable">>,
   DependencyDegradedError |-> <<503, "dependency_unavailable">>,
   SessionInitializationError |-> <<500, "session_initialization_failed">>,
   Uc01Error |-> <<400, "uc01_error">>,
   identity |-> <<401, "authentication_required">>, body |-> <<422, "invalid_request">>]

UC01_Routes ==
  [open_session |->
     [checks |-> <<"identity", "body">>,
      raises |-> Outage({"OK", "ModeUnavailableError", "DependencyDegradedError"})
                 @@ [selection |-> {"SelectionRequiredError", "SelectionNotAllowedError"},
                     missing |-> {"SelectionNotAccessibleError"},
                     foreign |-> {"SelectionNotAccessibleError"},
                     state |-> {"ModeUnavailableError"},
                     store |-> {"SessionInitializationError"},
                     defect |-> {"SessionInitializationError"}]],
   get_session |->
     [checks |-> <<"identity">>,
      raises |-> [missing |-> {"SessionNotFoundError"}, foreign |-> {"SessionNotFoundError"},
                  store |-> {"Exception"}]]]

UC02_Handlers ==
  [SessionIdRequired |-> <<400, "session_id_required">>,
   ForceRefreshNotPermitted |-> <<403, "force_refresh_not_permitted">>,
   ContextNotFound |-> <<404, "context_not_found">>,
   ContextAccessDenied |-> <<404, "context_not_found">>,
   ProviderNotImplemented |-> <<503, "provider_not_implemented">>,
   identity |-> <<401, "unauthenticated">>, body |-> <<422, "detail">>,
   force |-> <<403, "force_refresh_not_permitted">>, session |-> <<400, "session_id_required">>]

UC02_Routes ==
  [initialize_context |->
     [checks |-> <<"body", "force", "identity", "session">>,
      raises |-> InBand @@ [foreign |-> {"ContextAccessDenied"}]],
   context_status |->
     [checks |-> <<"identity">>,
      raises |-> [missing |-> {"ContextNotFound"}, foreign |-> {"ContextAccessDenied"}]]]

UC03_Handlers ==
  [AuthorizationError |-> <<403, "detail">>, InteractionNotFoundError |-> <<404, "detail">>,
   InputValidationError |-> <<422, "detail">>,
   identity |-> <<401, "detail">>, body |-> <<422, "detail">>]

UC03_Routes ==
  [ask |->
     [checks |-> <<"identity", "body">>,
      raises |-> InBand @@ [selection |-> {"InputValidationError"}, foreign |-> {"AuthorizationError"},
                            missing |-> {"AuthorizationError"}, store |-> {"OK", "Exception"},
                            defect |-> {"OK", "Exception"}]],
   follow_up |->
     [checks |-> <<"identity", "body">>,
      raises |-> InBand @@ [missing |-> {"InteractionNotFoundError"},
                            foreign |-> {"InteractionNotFoundError"}, state |-> {"InputValidationError"},
                            store |-> {"OK", "Exception"}, defect |-> {"OK", "Exception"}]]]

UC04_Bases == PortBases @@ [NotFound |-> "ProviderError"]

UC04_Handlers ==
  [AccessDenied |-> <<403, "access_denied">>, NotEnrolled |-> <<403, "not_enrolled">>,
   SessionIdentityError |-> <<400, "session_required">>, NotFound |-> <<404, "not_found">>,
   ProviderTimeout |-> <<504, "upstream_timeout">>, ProviderUnavailable |-> <<503, "upstream_unavailable">>,
   ProviderInvalidResponse |-> <<502, "upstream_invalid">>,
   identity |-> <<403, "access_denied">>, body |-> <<422, "invalid_request">>,
   session |-> <<400, "session_required">>]

\* A course that its provider does not know is told, a lesson is done without.
UC04_Routes ==
  [ask |->
     [checks |-> <<"identity", "body", "session">>,
      raises |-> PortOrOK @@ [denied |-> {"NotEnrolled"}, missing |-> {"OK", "NotFound"},
                              store |-> {"OK"}, defect |-> {"Exception"}]],
   follow_up |->
     [checks |-> <<"identity", "body">>,
      raises |-> PortOrOK @@ [missing |-> {"NotFound"}, foreign |-> {"AccessDenied"},
                              denied |-> {"NotEnrolled"}, store |-> {"OK", "ProviderUnavailable"},
                              defect |-> {"Exception"}]]]

UC05_Bases == PortBases @@ [c \in {"InvalidTransition", "DialogueNotFound", "AccessDenied",
                                   "DevEndpointDisabled"} |-> "DomainError"]

UC05_Handlers ==
  [AccessDenied |-> <<403, "forbidden">>, DialogueNotFound |-> <<404, "not_found">>,
   DevEndpointDisabled |-> <<404, "not_found">>, InvalidTransition |-> <<409, "invalid_state">>,
   ProviderTimeout |-> <<504, "upstream_timeout">>, ProviderUnavailable |-> <<503, "upstream_unavailable">>,
   ProviderInvalidResponse |-> <<502, "upstream_invalid_response">>,
   identity |-> <<401, "unauthenticated">>, body |-> <<422, "validation_error">>]

UC05_Routes ==
  [set_mode |->
     [checks |-> <<"identity", "body">>,
      raises |-> [foreign |-> {"AccessDenied"}, store |-> {"ProviderUnavailable"}]],
   start_question |->
     [checks |-> <<"identity", "body">>,
      raises |-> PortOrOK @@ [foreign |-> {"AccessDenied"}, store |-> {"ProviderUnavailable"},
                              defect |-> {"Exception"}]],
   reply |->
     [checks |-> <<"identity", "body">>,
      raises |-> PortOrOK @@ [missing |-> {"DialogueNotFound"}, foreign |-> {"AccessDenied"},
                              state |-> {"InvalidTransition"}, store |-> {"ProviderUnavailable"},
                              defect |-> {"Exception"}]]]

\* UC-06 raises nothing: its service returns a code.
UC06_Handlers ==
  [session_halted |-> <<409, "session_halted">>,
   session_not_case_linked |-> <<409, "session_not_case_linked">>,
   case_file_not_linked_to_session |-> <<409, "case_file_not_linked_to_session">>,
   case_access_denied |-> <<403, "case_access_denied">>,
   case_origin_rejected |-> <<409, "case_origin_rejected">>,
   generation_timeout |-> <<504, "generation_timeout">>,
   generation_unavailable |-> <<503, "generation_unavailable">>,
   generation_invalid |-> <<502, "generation_invalid">>,
   withheld |-> <<503, "withheld">>, session_not_visible |-> <<403, "session_not_visible">>,
   identity |-> <<401, "identity_unavailable">>, body |-> <<422, "invalid_request">>,
   session |-> <<400, "session_id_required">>]

UC06_Routes ==
  [ask_question |->
     [checks |-> <<"body", "identity", "session">>,
      raises |-> [state |-> {"session_halted", "session_not_case_linked", "case_file_not_linked_to_session",
                             "case_origin_rejected"},
                  denied |-> {"case_access_denied"}, timeout |-> {"OK", "generation_timeout"},
                  down |-> {"OK", "generation_unavailable"}, invalid |-> {"OK", "generation_invalid"},
                  defect |-> {"Exception", "withheld"}]],
   session_status |->
     [checks |-> <<"identity">>,
      raises |-> [missing |-> {"OK"}, foreign |-> {"session_not_visible"}, defect |-> {"withheld"}]]]

UC07_Handlers ==
  [ReportOwnershipError |-> <<403, "forbidden">>,
   InteractionSourceUnusable |-> <<503, "interaction_source_unusable">>,
   EvidenceIntegrityError |-> <<500, "internal_error">>, ConfigurationError |-> <<500, "internal_error">>,
   identity |-> <<401, "identity_unresolved">>, body |-> <<400, "invalid_request">>]

\* Interactions it cannot do without; the three other sources it can.
UC07_Routes ==
  [get_gap_report |->
     [checks |-> <<"body", "identity">>,
      raises |-> Outage({"OK", "InteractionSourceUnusable"})
                 @@ [foreign |-> {"ReportOwnershipError"}, defect |-> {"EvidenceIntegrityError", "Exception"}]],
   get_progress |->
     [checks |-> <<"body", "identity">>, raises |-> Outage({"OK", "InteractionSourceUnusable"})]]

UC08_Bases == PortBases @@ [c \in {"RepositoryWriteFailed", "RepositoryReadFailed"} |-> "RepositoryError"]

UC08_Handlers ==
  [SessionIdRequired |-> <<400, "session_id_required">>, FreezeNotAvailable |-> <<409, "freeze_not_available">>,
   ProviderError |-> <<503, "upstream_unavailable">>, RepositoryError |-> <<503, "storage_unavailable">>,
   identity |-> <<401, "identity_not_resolved">>, body |-> <<422, "detail">>,
   session |-> <<400, "session_id_required">>]

\* A streak that cannot be written is answered with the one on record, one that
\* cannot be read is not; a freeze that cannot be recorded is refused.
UC08_Routes ==
  [record_activity |->
     [checks |-> <<"identity", "body", "session">>,
      raises |-> InBand @@ [store |-> {"OK", "RepositoryReadFailed"}]],
   accept_freeze |->
     [checks |-> <<"identity", "body">>,
      raises |-> [state |-> {"FreezeNotAvailable"}, store |-> {"FreezeNotAvailable", "RepositoryReadFailed"}]],
   get_badges |->
     [checks |-> <<"identity">>, raises |-> [store |-> {"RepositoryReadFailed"}]],
   list_weekly_summaries |->
     [checks |-> <<"identity">>, raises |-> [store |-> {"RepositoryReadFailed"}]]]

UC09_Bases == PortBases

UC09_Handlers ==
  [SummaryNotFound |-> <<404, "summary_not_found">>, AccessDenied |-> <<404, "summary_not_found">>,
   SessionNotFound |-> <<404, "session_not_found">>, ProviderError |-> <<503, "upstream_unavailable">>,
   identity |-> <<401, "identity_unresolved">>, body |-> <<422, "invalid_request">>]

\* Only the session itself must be read; the rest has a replacement.
UC09_Routes ==
  [generate_summary |->
     [checks |-> <<"identity", "body">>,
      raises |-> PortOrOK @@ [missing |-> {"SessionNotFound"}, foreign |-> {"AccessDenied"},
                              defect |-> {"Exception"}]],
   get_summary |->
     [checks |-> <<"identity">>,
      raises |-> [missing |-> {"SummaryNotFound"}, foreign |-> {"SummaryNotFound"}]],
   download_pdf |->
     [checks |-> <<"identity">>,
      raises |-> InBand @@ [missing |-> {"SummaryNotFound"}, foreign |-> {"SummaryNotFound"}]]]

\* A rating's RatingCaptureStatus, with its status.
UC10_Handlers ==
  [REJECTED_NOT_FOUND |-> <<404, "rejected_not_found">>,
   REJECTED_WINDOW_EXPIRED |-> <<409, "rejected_window_expired">>,
   FAILED_RETRYABLE |-> <<503, "failed_retryable">>, FAILED_PERMANENT |-> <<502, "failed_permanent">>,
   FlagNotFound |-> <<404, "flag_not_found">>,
   InvalidStatusTransition |-> <<409, "invalid_status_transition">>,
   identity |-> <<401, "rejected_anonymous">>, admin |-> <<403, "admin_required">>,
   body |-> <<422, "validation_error">>]

\* Any failure is told to be tried again, but for an interaction that could not
\* be read for what it is, and a store that says it is no use.
UC10_Routes ==
  [create_or_replace_rating |->
     [checks |-> <<"body", "identity">>,
      raises |-> [missing |-> {"REJECTED_NOT_FOUND"}, foreign |-> {"REJECTED_NOT_FOUND"},
                  state |-> {"REJECTED_WINDOW_EXPIRED"}, timeout |-> {"FAILED_RETRYABLE"},
                  down |-> {"FAILED_RETRYABLE"}, invalid |-> {"FAILED_RETRYABLE", "FAILED_PERMANENT"},
                  store |-> {"OK", "FAILED_RETRYABLE", "FAILED_PERMANENT"}, defect |-> {"FAILED_RETRYABLE"}]],
   read_own_rating |->
     [checks |-> <<"identity">>, raises |-> [store |-> {"OK"}, foreign |-> {"OK"}, missing |-> {"OK"}]],
   update_flag_status |->
     [checks |-> <<"admin", "body">>,
      raises |-> [missing |-> {"FlagNotFound"}, state |-> {"InvalidStatusTransition"}, store |-> {"Exception"}]]]

-----------------------------------------------------------------------------

App(bases, handlers, routes) == [bases |-> bases, handlers |-> handlers, routes |-> routes]

Apps == [uc01 |-> App(UC01_Bases, UC01_Handlers, UC01_Routes), uc02 |-> App(Flat, UC02_Handlers, UC02_Routes),
         uc03 |-> App(Flat, UC03_Handlers, UC03_Routes), uc04 |-> App(UC04_Bases, UC04_Handlers, UC04_Routes),
         uc05 |-> App(UC05_Bases, UC05_Handlers, UC05_Routes), uc06 |-> App(Flat, UC06_Handlers, UC06_Routes),
         uc07 |-> App(Flat, UC07_Handlers, UC07_Routes), uc08 |-> App(UC08_Bases, UC08_Handlers, UC08_Routes),
         uc09 |-> App(UC09_Bases, UC09_Handlers, UC09_Routes), uc10 |-> App(Flat, UC10_Handlers, UC10_Routes)]

Served == <<200, "served">>
NoAnswer == <<0, "none">>

\* The handler of the class, or of its base, or of everything.
Handled(a, class) ==
  LET base == IF class \in DOMAIN Apps[a].bases THEN Apps[a].bases[class] ELSE "Exception"
  IN CASE class = "OK" -> Served
       [] class \in DOMAIN Apps[a].handlers -> Apps[a].handlers[class]
       [] class \notin DOMAIN Apps[a].handlers /\ base \in DOMAIN Apps[a].handlers -> Apps[a].handlers[base]
       [] OTHER -> <<500, "internal_error">>

Endpoint(a, r) == Apps[a].routes[r]

\* What a request may be told: of its flaws the first that is checked, else
\* what the service makes of it.
Told(a, r, wrong, why) ==
  LET failed == SelectSeq(Endpoint(a, r).checks, LAMBDA f : f \in wrong)
  IN IF failed # <<>> THEN {Handled(a, Head(failed))}
     ELSE IF why = "none" THEN {Served}
     ELSE {Handled(a, class) : class \in Endpoint(a, r).raises[why]}

\* Told to try again: by a flag, or a text.  A response that was withheld is not.
Retryable(told) == told[1] \in {503, 504} /\ told[2] # "withheld"

Causes(a, r) == {"none"} \cup DOMAIN Endpoint(a, r).raises
Checked(a, r) == {Endpoint(a, r).checks[i] : i \in 1..Len(Endpoint(a, r).checks)}

HttpTypeOK ==
  /\ app \in DOMAIN Apps /\ route \in DOMAIN Apps[app].routes
  /\ flaws \subseteq Checked(app, route) /\ cause \in Causes(app, route)
  /\ client \in {"waits", "told", "served", "gave_up"} /\ tries \in 0..MaxTries
  /\ answer = NoAnswer \/ answer[1] \in {200, 400, 401, 403, 404, 409, 422, 500, 502, 503, 504}

HttpInit ==
  /\ app \in DOMAIN Apps
  /\ route \in DOMAIN Apps[app].routes
  /\ flaws \in SUBSET Checked(app, route)
  /\ cause \in Causes(app, route)
  /\ answer = NoAnswer /\ client = "waits" /\ tries = 0

-----------------------------------------------------------------------------

Answer ==
  /\ client = "waits"
  /\ answer' \in Told(app, route, flaws, cause)
  /\ client' = IF answer' = Served THEN "served" ELSE "told"
  /\ UNCHANGED <<app, route, flaws, cause, tries>>

Resend == client = "told" /\ tries < MaxTries /\ client' = "waits" /\ tries' = tries + 1

SignIn ==
  /\ answer[1] = 401 /\ Resend
  /\ flaws' = flaws \ {"identity"}
  /\ UNCHANGED <<app, route, cause, answer>>

\* The flaw that was told, or with no flaw left the selection.
Correct ==
  /\ answer[1] \in {400, 422} /\ Resend
  /\ flaws' = {f \in flaws : Handled(app, f) # answer}
  /\ cause' = IF flaws = {} /\ cause = "selection" THEN "none" ELSE cause
  /\ UNCHANGED <<app, route, answer>>

\* What stood against the request may have passed meanwhile.
TryAgain ==
  /\ Retryable(answer) /\ Resend
  /\ cause' \in {cause} \cup IF cause \in Passing THEN {"none"} ELSE {}
  /\ UNCHANGED <<app, route, flaws, answer>>

GiveUp ==
  /\ client = "told" /\ answer[1] \notin {400, 401, 422} /\ ~ Retryable(answer)
  /\ client' = "gave_up"
  /\ UNCHANGED <<app, route, flaws, cause, answer, tries>>

HttpNext == Answer \/ SignIn \/ Correct \/ TryAgain \/ GiveUp

HttpSpec == HttpInit /\ [][HttpNext]_http_vars

-----------------------------------------------------------------------------

\* Missing and somebody else's: of the endpoints that promise it (get_session,
\* _register_error_handlers of UC-02, follow_up of UC-03, get of UC-09's
\* summaries, capture of UC-10) none tells the two apart; and who is not signed
\* in is told the same whatever it asked for.
NothingIsBetrayed ==
  /\ route \in {"get_session", "open_session", "context_status", "get_summary", "download_pdf",
                "create_or_replace_rating", "read_own_rating"} \/ (app = "uc03" /\ route = "follow_up")
       => Told(app, route, {}, "missing") = Told(app, route, {}, "foreign")
  /\ "identity" \in flaws =>
       \A c \in Causes(app, route) : Told(app, route, flaws, c) = Told(app, route, flaws, "none")

\* The fault is put where it lies: the platform is not blamed for a request that
\* is wrong nor for what the caller may not have, the caller not for an outage
\* or a defect, and nothing is served that was to be refused.  Two refusals by
\* design are of an outage too: a mode that cannot be opened (another can), and
\* a freeze that could not be recorded.
TheFaultIsNamed ==
  /\ client = "told" /\ answer[1] >= 500 => flaws = {} /\ cause \in PlatformCause
  /\ client = "told" /\ answer[1] < 500 =>
       \/ flaws # {} \/ cause \in CallersCause
       \/ route \in {"open_session", "accept_freeze"}
  /\ client = "served" => flaws = {}

\* A client that does as it is told is not led astray: it gives up only on what
\* no correction and no patience would have got it, with the exception that
\* UC-04 and the administrator's routes do not say to sign in, and that a flag
\* asking for a forced refresh is forbidden; a dependency that is away for a
\* while makes nobody give up.
NobodyIsMisled ==
  /\ client = "gave_up" =>
       /\ cause # "none" \/ flaws # {}
       /\ flaws # {} => answer[1] = 403 /\ (app = "uc04" \/ flaws \cap {"admin", "force"} # {})
       /\ flaws = {} /\ cause \in {"timeout", "down"} => answer[1] = 409 /\ route = "open_session"
  /\ client = "told" /\ Retryable(answer) => cause \in PlatformCause

=============================================================================
