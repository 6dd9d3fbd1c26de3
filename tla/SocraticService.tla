--------------------------- MODULE SocraticService ---------------------------
(***************************************************************************)
(* UC-05's application service (application/socratic_service.py) as the    *)
(* event loop runs it: every request is a coroutine of its own, the three  *)
(* repositories are shared, there is no lock around a turn, and another    *)
(* request may run at each await.  A turn works on the private copy that   *)
(* dialogues.get returned and writes that copy back whole.                 *)
(*                                                                         *)
(* One session is modelled: sessions share no state.                       *)
(***************************************************************************)
EXTENDS DialogueStateMachine

CONSTANTS Users,          \* learners
          DialogueIds,    \* the uuids asks may draw
          Workers,        \* requests that can be in flight at once
          Intents,        \* what the intent classifier may answer
          MaxTurns,       \* bound: records in the log, and messages per dialogue
          StoreYields,    \* a repository call may suspend its caller
          StoreMayFail    \* a repository call may raise ProviderUnavailable

ASSUME IntentsAssumption == Intents \subseteq IntentKind
ASSUME BoundAssumption   == MaxTurns \in Nat
ASSUME FlagsAssumption   == StoreYields \in BOOLEAN /\ StoreMayFail \in BOOLEAN
ASSUME NoneAssumption    ==
  /\ None \notin Users /\ None \notin DialogueIds /\ None \notin Questions
  /\ None \notin Resolution /\ None \notin ResponseKind /\ None \notin IntentKind
  /\ None \notin DialogueState /\ None \notin Nat
  /\ None \notin DialogueType(Users)
  /\ None \notin [enabled : BOOLEAN, owner_user_id : Users]

VARIABLES dialogues,   \* DialogueRepository: id -> stored dialogue or None
          mode,        \* SessionModeRepository: None until a mode was set
          log,         \* InteractionLogRepository; an id is a position in it
          pc,          \* the await each request is at
          req          \* each request's local variables

vars == <<dialogues, mode, log, pc, req>>

ModeState == [enabled : BOOLEAN, owner_user_id : Users]

LogRecord == [dialogue_id : DialogueIds, exchange_number : Nat \ {0},
              response_kind : ResponseKind, resolution : Resolution \cup {None},
              follow_up_of : Nat \cup {None}]

PC == {"idle", "set_mode", "list", "close",            \* set_mode
       "standard", "open",                              \* ask
       "classify", "generate", "answer",                \* reply
       "save", "append", "link"}                        \* _finalise
StoreSteps == {"set_mode", "list", "close", "save", "append", "link"}
ProviderSteps == {"standard", "open", "classify", "generate", "answer"}

Request == [user : Users \cup {None}, enabled : BOOLEAN,
            id : DialogueIds \cup {None}, copy : DialogueType(Users) \cup {None},
            intent : IntentKind \cup {None}, kind : ResponseKind \cup {None},
            found : SUBSET (DialogueIds \X DialogueType(Users))]

NoRequest == [user |-> None, enabled |-> FALSE, id |-> None, copy |-> None,
              intent |-> None, kind |-> None, found |-> {}]

TypeOK ==
  /\ dialogues \in [DialogueIds -> DialogueType(Users) \cup {None}]
  /\ mode \in ModeState \cup {None}
  /\ log \in Seq(LogRecord)
  /\ pc \in [Workers -> PC]
  /\ req \in [Workers -> Request]

Init ==
  /\ dialogues = [d \in DialogueIds |-> None]
  /\ mode = None
  /\ log = <<>>
  /\ pc = [w \in Workers |-> "idle"]
  /\ req = [w \in Workers |-> NoRequest]

-----------------------------------------------------------------------------
(* The event loop.  An asyncio.Lock that nobody holds does not suspend, so *)
(* with the in-memory repositories (StoreYields = FALSE) no other request  *)
(* runs between two store steps of a request.                              *)

HasLoop(w) == StoreYields \/ \A v \in Workers \ {w} : pc[v] \notin StoreSteps

At(w, label) == pc[w] = label /\ HasLoop(w)
Goto(w, label) == pc' = [pc EXCEPT ![w] = label]
Return(w) == Goto(w, "idle") /\ req' = [req EXCEPT ![w] = NoRequest]

\* Mutants: anybody is let in; any stored mode counts as on.
AdmittedAnyone(user) == TRUE
ModeWasSet == mode # None

\* _mode_state: a stored mode belongs to the learner who first set one.
Admitted(user) == mode # None => mode.owner_user_id = user
ModeEnabled == mode # None /\ mode.enabled

InFlight == {w \in Workers : pc[w] # "idle"}
WithinBound == Len(log) + Cardinality(InFlight) < MaxTurns

-----------------------------------------------------------------------------
(* set_mode: ownership check, write, and when turning off, every dialogue  *)
(* of the caller that for_session showed open is saved as abandoned.       *)

BeginSetMode(w) ==
  /\ At(w, "idle")
  /\ \E user \in Users, enabled \in BOOLEAN :
       /\ Admitted(user)
       /\ req' = [req EXCEPT ![w] = [NoRequest EXCEPT !.user = user, !.enabled = enabled]]
  /\ Goto(w, "set_mode")
  /\ UNCHANGED <<dialogues, mode, log>>

\* InMemorySessionModeRepository.set_mode keeps the first owner.
WriteMode(w) ==
  /\ At(w, "set_mode")
  /\ mode' = [enabled |-> req[w].enabled,
              owner_user_id |-> IF mode = None THEN req[w].user ELSE mode.owner_user_id]
  /\ IF req[w].enabled THEN Return(w) ELSE Goto(w, "list") /\ UNCHANGED req
  /\ UNCHANGED <<dialogues, log>>

\* The open dialogues of the caller, copied out by one for_session call.
OpenCopies(user) ==
  {<<d, dialogues[d]>> : d \in {i \in DialogueIds :
      dialogues[i] # None /\ is_open(dialogues[i]) /\ dialogues[i].user = user}}

ListOpen(w) ==
  /\ At(w, "list")
  /\ LET found == OpenCopies(req[w].user)
     IN IF found = {} THEN Return(w)
        ELSE Goto(w, "close") /\ req' = [req EXCEPT ![w].found = found]
  /\ UNCHANGED <<dialogues, mode, log>>

CloseNext(w) ==
  /\ At(w, "close")
  /\ \E pair \in req[w].found :
       /\ dialogues' = [dialogues EXCEPT ![pair[1]] = Abandoned(pair[2])]
       /\ IF req[w].found = {pair} THEN Return(w)
          ELSE req' = [req EXCEPT ![w].found = @ \ {pair}] /\ UNCHANGED pc
  /\ UNCHANGED <<mode, log>>

-----------------------------------------------------------------------------
(* ask: the mode is read first; learner context always resolves, if need   *)
(* be to a default, and touches no shared state.                           *)

BeginAsk(w) ==
  /\ At(w, "idle")
  /\ WithinBound
  /\ \E user \in Users :
       /\ Admitted(user)
       /\ req' = [req EXCEPT ![w] = [NoRequest EXCEPT !.user = user]]
  /\ Goto(w, IF ModeEnabled THEN "open" ELSE "standard")
  /\ UNCHANGED <<dialogues, mode, log>>

\* Mode off: the four-part answer, no dialogue, no record.
StandardAnswer(w) ==
  /\ At(w, "standard")
  /\ Return(w)
  /\ UNCHANGED <<dialogues, mode, log>>

\* Mutant: an id that may already be in use.
AnyId(d) == TRUE

\* uuid4: no stored dialogue and no request has the id.
Fresh(d) == dialogues[d] = None /\ \A v \in Workers : req[v].id # d

OpenDialogue(w) ==
  /\ At(w, "open")
  /\ \E d \in DialogueIds, text \in LearnerQuestions, q \in Questions :
       /\ Fresh(d)
       /\ ~ Restates(q, text)
       /\ req' = [req EXCEPT ![w].id = d,
                             ![w].copy = NewDialogue(req[w].user, text, q),
                             ![w].kind = "guiding_question"]
  /\ Goto(w, "save")
  /\ UNCHANGED <<dialogues, mode, log>>

-----------------------------------------------------------------------------
(* reply.  A missing, foreign or terminal dialogue is refused before       *)
(* anything happens.  The mode is read for its owner only: whether it is   *)
(* on is not looked at.                                                    *)

BeginReply(w) ==
  /\ At(w, "idle")
  /\ WithinBound
  /\ \E user \in Users, d \in DialogueIds :
       /\ dialogues[d] # None
       /\ dialogues[d].user = user
       /\ dialogues[d].state \notin TERMINAL_STATES
       /\ Len(dialogues[d].messages) < MaxTurns
       /\ Admitted(user)
       /\ req' = [req EXCEPT ![w] = [NoRequest EXCEPT !.user = user, !.id = d,
                                                      !.copy = dialogues[d]]]
  /\ Goto(w, "classify")
  /\ UNCHANGED <<dialogues, mode, log>>

\* The turn the table decides, on the copy; an answer is generated before
\* anything is saved.
TakeTurn(w, intent, event, q) ==
  LET kind == lookup(req[w].copy.state, event).response_kind
  IN /\ req' = [req EXCEPT ![w].copy = ApplyTurn(req[w].copy, intent, event, q),
                           ![w].intent = None,
                           ![w].kind = kind]
     /\ Goto(w, IF kind \in ANSWER_BEARING_KINDS THEN "answer" ELSE "save")

Classify(w) ==
  /\ At(w, "classify")
  /\ \E intent \in Intents :
       LET event == EventAtCap(req[w].copy, intent)
       IN IF event = "substantive_response"
          THEN Goto(w, "generate") /\ req' = [req EXCEPT ![w].intent = intent]
          ELSE TakeTurn(w, intent, event, None)
  /\ UNCHANGED <<dialogues, mode, log>>

\* Mutant: every question generated is put to the learner.
GenerateUnchecked(w) ==
  /\ At(w, "generate")
  /\ \E q \in Questions :
       /\ ~ Restates(q, req[w].copy.question_text)
       /\ TakeTurn(w, req[w].intent, "substantive_response", q)
  /\ UNCHANGED <<dialogues, mode, log>>

\* A new guiding question, and the loop test before it is used.
GenerateNext(w) ==
  /\ At(w, "generate")
  /\ \E q \in Questions :
       /\ ~ Restates(q, req[w].copy.question_text)
       /\ TakeTurn(w, req[w].intent,
                   IF is_repeat(q, req[w].copy.questions)
                   THEN "loop_detected" ELSE "substantive_response", q)
  /\ UNCHANGED <<dialogues, mode, log>>

GenerateAnswer(w) ==
  /\ At(w, "answer")
  /\ Goto(w, "save")
  /\ UNCHANGED <<dialogues, mode, log, req>>

-----------------------------------------------------------------------------
(* _finalise: save the dialogue, append the record, save the dialogue      *)
(* again with the record's id.                                             *)

SaveTurn(w) ==
  /\ At(w, "save")
  /\ dialogues' = [dialogues EXCEPT ![req[w].id] = req[w].copy]
  /\ Goto(w, "append")
  /\ UNCHANGED <<mode, log, req>>

\* Mutants: the exchanges are numbered from zero; the link is set before the
\* record is built; the record's id is never saved with the dialogue.
AppendFromZero(w) ==
  /\ At(w, "append")
  /\ log' = Append(log, [dialogue_id |-> req[w].id,
                         exchange_number |-> exchanges_used(req[w].copy) - 1,
                         response_kind |-> req[w].kind,
                         resolution |-> req[w].copy.resolution,
                         follow_up_of |-> req[w].copy.last_interaction])
  /\ req' = [req EXCEPT ![w].copy.last_interaction = Len(log) + 1]
  /\ Goto(w, "link")
  /\ UNCHANGED <<dialogues, mode>>

AppendLinkedFirst(w) ==
  /\ At(w, "append")
  /\ log' = Append(log, [dialogue_id |-> req[w].id,
                         exchange_number |-> exchanges_used(req[w].copy),
                         response_kind |-> req[w].kind,
                         resolution |-> req[w].copy.resolution,
                         follow_up_of |-> Len(log) + 1])
  /\ req' = [req EXCEPT ![w].copy.last_interaction = Len(log) + 1]
  /\ Goto(w, "link")
  /\ UNCHANGED <<dialogues, mode>>

LinkForgotten(w) ==
  /\ At(w, "link")
  /\ Return(w)
  /\ UNCHANGED <<dialogues, mode, log>>

AppendRecord(w) ==
  /\ At(w, "append")
  /\ LET d == req[w].copy
     IN log' = Append(log,
          [dialogue_id |-> req[w].id,
           exchange_number |-> IF exchanges_used(d) > 1 THEN exchanges_used(d) ELSE 1,
           response_kind |-> req[w].kind, resolution |-> d.resolution,
           follow_up_of |-> d.last_interaction])
  /\ req' = [req EXCEPT ![w].copy.last_interaction = Len(log) + 1]
  /\ Goto(w, "link")
  /\ UNCHANGED <<dialogues, mode>>

SaveLink(w) ==
  /\ At(w, "link")
  /\ dialogues' = [dialogues EXCEPT ![req[w].id] = req[w].copy]
  /\ Return(w)
  /\ UNCHANGED <<mode, log>>

-----------------------------------------------------------------------------
(* Failures.  A provider that times out, is down or is refused by a guard  *)
(* ends the request; so does a repository that raises.  Neither is caught, *)
(* and neither undoes what the request has already stored.                 *)

ProviderFails(w) ==
  /\ \E label \in ProviderSteps : At(w, label)
  /\ Return(w)
  /\ UNCHANGED <<dialogues, mode, log>>

StoreFails(w) ==
  /\ StoreMayFail
  /\ \E label \in StoreSteps : At(w, label)
  /\ Return(w)
  /\ UNCHANGED <<dialogues, mode, log>>

-----------------------------------------------------------------------------

Begin(w) == BeginSetMode(w) \/ BeginAsk(w) \/ BeginReply(w)

Continue(w) ==
  \/ WriteMode(w) \/ ListOpen(w) \/ CloseNext(w)
  \/ StandardAnswer(w) \/ OpenDialogue(w)
  \/ Classify(w) \/ GenerateNext(w) \/ GenerateAnswer(w)
  \/ SaveTurn(w) \/ AppendRecord(w) \/ SaveLink(w)
  \/ ProviderFails(w) \/ StoreFails(w)

Next == \E w \in Workers : Begin(w) \/ Continue(w)

Spec == Init /\ [][Next]_vars

-----------------------------------------------------------------------------
(* What holds however requests interleave and whatever store call fails.   *)

Started == {d \in DialogueIds : dialogues[d] # None}

\* Every copy of a dialogue there is: stored, being worked on, or about to be
\* abandoned.
Copies == {dialogues[d] : d \in Started}
          \cup {req[w].copy : w \in {v \in Workers : req[v].copy # None}}
          \cup {pair[2] : pair \in UNION {req[w].found : w \in Workers}}

\* The cap of 5.6 and what it means for the record: no dialogue, on disk or in
\* hand, ever holds more guiding questions than the cap, and one is closed as
\* capped only when it holds exactly that many (reply steps 3 and 5).
CapRespected ==
  \A d \in Copies : /\ exchanges_used(d) \in 1..ExchangeCap
                    /\ d.resolution = "capped" => exchanges_used(d) = ExchangeCap

\* Loop protection of 5.7: no two guiding questions of a dialogue are repeats
\* of each other, and a dialogue closed as looping names the question matched
\* (is_repeat, reply step 4).
NoRepeatedQuestion ==
  \A d \in Copies :
    /\ \A n \in DOMAIN d.questions : ~ is_repeat(d.questions[n], SubSeq(d.questions, 1, n - 1))
    /\ d.resolution = "loop_detected" <=> d.loop_matched_exchange # None
    /\ d.loop_matched_exchange # None => d.loop_matched_exchange \in DOMAIN d.questions

\* "It must reflect what was actually asked": in a reasoning chain every step
\* but an unanswered last one quotes a learner message, namely the one that
\* made the dialogue move on (build_reasoning_chain, learner_response).
ChainQuotesTheMove ==
  \A d \in Copies : \A n \in DOMAIN d.questions :
    LET said == {i \in DOMAIN d.messages : d.messages[i].exchange = n}
        quoted == build_reasoning_chain(d)[n].learner_response
    IN IF n < Len(d.questions) \/ d.resolution \in {"capped", "loop_detected"}
       THEN quoted \in said /\ \A i \in said : i <= quoted
       ELSE quoted = None <=> said = {}

\* The log on its own: a record follows up an earlier record of its own
\* dialogue, and a direct answer is only ever recorded with one of the four
\* permitted resolutions, the cap's at exactly the cap (_finalise).
LogIsSound ==
  \A i \in DOMAIN log :
    LET r == log[i]
    IN /\ r.follow_up_of # None =>
            r.follow_up_of \in 1..(i - 1) /\ log[r.follow_up_of].dialogue_id = r.dialogue_id
       /\ r.exchange_number <= ExchangeCap
       /\ (r.response_kind \in ANSWER_BEARING_KINDS)
            <=> (r.resolution \in DIRECT_ANSWER_RESOLUTIONS)
       /\ r.resolution = "capped" => r.exchange_number = ExchangeCap

-----------------------------------------------------------------------------
(* What holds when one request runs at a time and the stores work: the     *)
(* guarantees the service's docstrings give.                               *)

Quiet == \A w \in Workers : pc[w] = "idle"

RecordsOf(d) == SelectSeq(log, LAMBDA r : r.dialogue_id = d)

\* "There is no reopen": a dialogue that is stored closed stays as it closed
\* (lookup's docstring; the save of a later turn may not overwrite it).
NoReopen ==
  [][\A d \in Started : ~ is_open(dialogues[d]) =>
       /\ dialogues'[d].state = dialogues[d].state
       /\ dialogues'[d].resolution = dialogues[d].resolution]_vars

\* The records of a dialogue are one chain in the order of the turns, ending
\* at last_interaction, and the last of them tells how the dialogue stands
\* (_finalise; an abandoned dialogue has no closing record).
LogTellsTheDialogue ==
  Quiet => \A d \in Started :
    LET own == {i \in DOMAIN log : log[i].dialogue_id = d}
        last == dialogues[d].last_interaction
    IN /\ own # {} /\ last \in own /\ \A i \in own : i <= last
       /\ \A i \in own : LET before == {j \in own : j < i}
                         IN IF before = {} THEN log[i].follow_up_of = None
                            ELSE /\ log[i].follow_up_of \in before
                                 /\ \A j \in before : j <= log[i].follow_up_of
       /\ log[last].exchange_number = exchanges_used(dialogues[d])
       /\ dialogues[d].state # "abandoned" =>
            log[last].resolution = dialogues[d].resolution

\* "The rule that matters - never exit on the first request": whoever is given
\* the answer on request was given the offer before (A-REASSERT; T05, T06, T08).
ExitWasOffered ==
  \A i \in DOMAIN log : log[i].resolution = "exited_on_request" =>
    \E j \in 1..(i - 1) : /\ log[j].dialogue_id = log[i].dialogue_id
                          /\ log[j].response_kind = "exit_offer"

\* UC-05 "records the first learner to set a mode on a session and refuses
\* another user thereafter": no request of another learner is about to write
\* the mode or works on a dialogue of the session (_mode_state).
OnlyTheOwnerActs ==
  mode # None => \A w \in Workers :
    pc[w] \in PC \ {"idle", "standard"} => req[w].user = mode.owner_user_id

\* A dialogue's turns, seen without the log: what SocraticTurns allows. The
\* first save of a turn is the point where the turn happens.
StoredTurn(d) == IF d = None THEN None ELSE [d EXCEPT !.last_interaction = None]
Turns == INSTANCE SocraticTurns WITH
           dialogues <- [d \in DialogueIds |-> StoredTurn(dialogues[d])]
ImplementsTurns == Turns!TurnsSpec

-----------------------------------------------------------------------------
(* Liveness. *)

\* Every request comes to an end, however the others fare (wait_for's budget
\* in _call; no lock is ever held across a call).
RequestsEnd == \A w \in Workers : pc[w] # "idle" ~> pc[w] = "idle"

=============================================================================
