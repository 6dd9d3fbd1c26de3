------------------------ MODULE SocraticServiceProofs ------------------------
(***************************************************************************)
(* What TLAPS proves of UC-05, for any number of learners, dialogues and   *)
(* requests in flight, any cap, any threshold, and stores that may yield   *)
(* and fail.                                                               *)
(***************************************************************************)
EXTENDS SocraticService, TLAPS, SequenceTheorems

-----------------------------------------------------------------------------
(* The table. *)

DialogueEvent == {"dialogue_started", "substantive_response",
                  "learner_reasoned_conclusion", "direct_answer_requested",
                  "exit_confirmed", "exit_declined", "explicit_frustration",
                  "off_topic", "cap_reached", "loop_detected", "mode_toggled_off"}

RowOK(t) ==
  /\ t.source \in OPEN_STATES \cup {None}
  /\ t.event \in DialogueEvent
  /\ t.target \in DialogueState
  /\ t.resolution \in Resolution \cup {None}
  /\ t.response_kind \in ResponseKind \cup {None}
  /\ t.opens_exchange \in BOOLEAN
  /\ t.target \in OPEN_STATES <=> t.resolution = None
  /\ t.response_kind = None <=> t.event = "mode_toggled_off"
  /\ t.resolution = "capped" <=> t.event = "cap_reached"
  /\ t.resolution = "loop_detected" <=> t.event = "loop_detected"
  /\ t.opens_exchange <=> t.event \in {"dialogue_started", "substantive_response"}
  /\ t.response_kind \in ANSWER_BEARING_KINDS
       <=> t.resolution \in DIRECT_ANSWER_RESOLUTIONS

\* Each row keeps the table's bookkeeping: it closes the dialogue exactly when
\* it resolves it, and answers exactly under the four permitted resolutions.
LEMMA TableSound == \A t \in TRANSITIONS : RowOK(t)
<1>1. /\ None \notin Resolution /\ None \notin ResponseKind
      /\ None \notin DialogueState
  BY NoneAssumption
<1> USE <1>1 DEF RowOK, Row, OPEN_STATES, TERMINAL_STATES, DialogueState, DialogueEvent,
                Resolution, ResponseKind, DIRECT_ANSWER_RESOLUTIONS,
                ANSWER_BEARING_KINDS, AWAITING, CONFIRMING
<1>2. ASSUME NEW s \in OPEN_STATES
      PROVE  \A t \in ClosingRows(s) : RowOK(t)
  <2>1. RowOK(Closes(s, "learner_reasoned_conclusion", "resolved",
                     "closing_acknowledgement", "learner_reasoned"))
    BY DEF Closes
  <2>2. RowOK(Closes(s, "explicit_frustration", "exited_for_question",
                     "direct_answer", "exited_on_frustration"))
    BY DEF Closes
  <2>3. RowOK(Closes(s, "cap_reached", "capped", "capped_answer", "capped"))
    BY DEF Closes
  <2>4. RowOK(Closes(s, "loop_detected", "capped", "capped_answer", "loop_detected"))
    BY DEF Closes
  <2>5. RowOK(Closes(s, "mode_toggled_off", "abandoned", None, "abandoned"))
    BY DEF Closes
  <2> HIDE DEF RowOK
  <2> QED BY <2>1, <2>2, <2>3, <2>4, <2>5 DEF ClosingRows
<1>6. ASSUME NEW e \in {"exit_confirmed", "direct_answer_requested"}
      PROVE  RowOK(Closes(CONFIRMING, e, "exited_for_question", "direct_answer",
                          "exited_on_request"))
  BY DEF Closes
<1>3. ASSUME NEW s \in OPEN_STATES \cup {None}, NEW k \in QUESTION_KINDS,
             NEW e \in {"dialogue_started", "substantive_response"}
      PROVE  RowOK(Asks(s, e, k))
  BY DEF Asks, QUESTION_KINDS
<1>4. ASSUME NEW s \in OPEN_STATES, NEW t \in OPEN_STATES,
             NEW k \in QUESTION_KINDS \cup {"exit_offer"},
             NEW e \in {"off_topic", "direct_answer_requested", "exit_declined"}
      PROVE  RowOK(Stays(s, e, t, k))
  BY DEF Stays, QUESTION_KINDS
<1>5. \A t \in TRANSITIONS \ (ClosingRows(AWAITING) \cup ClosingRows(CONFIRMING) \cup ExitRows) :
        \/ \E s \in OPEN_STATES \cup {None}, k \in QUESTION_KINDS,
              e \in {"dialogue_started", "substantive_response"} : t = Asks(s, e, k)
        \/ \E s \in OPEN_STATES, u \in OPEN_STATES, k \in QUESTION_KINDS \cup {"exit_offer"},
              e \in {"off_topic", "direct_answer_requested", "exit_declined"} :
                t = Stays(s, e, u, k)
  <2> SUFFICES ASSUME NEW t \in TRANSITIONS,
                      t \notin ClosingRows(AWAITING) \cup ClosingRows(CONFIRMING) \cup ExitRows
               PROVE  \/ \E s \in OPEN_STATES \cup {None}, k \in QUESTION_KINDS,
                            e \in {"dialogue_started", "substantive_response"} : t = Asks(s, e, k)
                      \/ \E s \in OPEN_STATES, u \in OPEN_STATES,
                            k \in QUESTION_KINDS \cup {"exit_offer"},
                            e \in {"off_topic", "direct_answer_requested", "exit_declined"} :
                              t = Stays(s, e, u, k)
    OBVIOUS
  <2> HIDE DEF Row, RowOK
  <2> QED BY DEF TRANSITIONS, QUESTION_KINDS
<1>7. AWAITING \in OPEN_STATES /\ CONFIRMING \in OPEN_STATES
  OBVIOUS
<1> HIDE DEF RowOK
<1>8. \A t \in ExitRows : RowOK(t)
  BY <1>6 DEF ExitRows
<1> QED BY <1>2, <1>3, <1>4, <1>5, <1>7, <1>8

\* No reply meets a missing row: whatever the classifier says in an open state,
\* whatever the cap or the loop test makes of it, and when the mode goes off,
\* lookup finds a transition (state_machine.lookup never raises there).
THEOREM EveryEventHasARow ==
  \A s \in OPEN_STATES :
    /\ \A i \in IntentKind : is_legal(s, event_for_intent(s, i))
    /\ \A e \in {"substantive_response", "cap_reached", "loop_detected",
                 "mode_toggled_off"} : is_legal(s, e)
<1> SUFFICES ASSUME NEW s \in OPEN_STATES
             PROVE  /\ \A i \in IntentKind : is_legal(s, event_for_intent(s, i))
                    /\ \A e \in {"substantive_response", "cap_reached", "loop_detected",
                                 "mode_toggled_off"} : is_legal(s, e)
  OBVIOUS
<1>1. \A t \in TRANSITIONS : is_legal(t.source, t.event)
  BY DEF is_legal
<1>2. /\ Asks(s, "substantive_response", "acknowledgement_and_guiding_question") \in TRANSITIONS
      /\ \E t, k : Stays(s, "off_topic", t, k) \in TRANSITIONS
      /\ ClosingRows(s) \subseteq TRANSITIONS
  BY DEF TRANSITIONS, OPEN_STATES
<1>3. /\ Stays(CONFIRMING, "exit_declined", AWAITING,
               "acknowledgement_and_guiding_question") \in TRANSITIONS
      /\ \A e \in {"exit_confirmed", "direct_answer_requested"} :
           Closes(CONFIRMING, e, "exited_for_question", "direct_answer",
                  "exited_on_request") \in TRANSITIONS
      /\ Stays(AWAITING, "direct_answer_requested", CONFIRMING, "exit_offer") \in TRANSITIONS
  BY DEF TRANSITIONS, ExitRows
<1>4. is_legal(s, "substantive_response") /\ is_legal(s, "off_topic")
  BY <1>1, <1>2 DEF Asks, Stays, Row
<1>5. \A e \in {"learner_reasoned_conclusion", "explicit_frustration", "cap_reached",
                "loop_detected", "mode_toggled_off"} :
        \E t \in ClosingRows(s) : t.source = s /\ t.event = e
  BY DEF ClosingRows, Closes, Row
<1>6. \A e \in {"learner_reasoned_conclusion", "explicit_frustration", "cap_reached",
                "loop_detected", "mode_toggled_off"} : is_legal(s, e)
  BY <1>1, <1>2, <1>5
<1>7. s = CONFIRMING => /\ is_legal(s, "exit_confirmed")
                        /\ is_legal(s, "exit_declined")
                        /\ is_legal(s, "direct_answer_requested")
  BY <1>1, <1>3 DEF Closes, Stays, Row
<1>8. s = AWAITING => is_legal(s, "direct_answer_requested")
  BY <1>1, <1>3 DEF Stays, Row
<1>9. \A i \in IntentKind : is_legal(s, event_for_intent(s, i))
  BY <1>4, <1>6, <1>7, <1>8 DEF event_for_intent, IntentKind, OPEN_STATES
<1> QED BY <1>4, <1>6, <1>9

\* lookup returns a row of the table for its arguments.
LEMMA LookupRow ==
  ASSUME NEW s, NEW e, is_legal(s, e)
  PROVE  /\ lookup(s, e) \in TRANSITIONS
         /\ lookup(s, e).source = s
         /\ lookup(s, e).event = e
  BY DEF is_legal, lookup

-----------------------------------------------------------------------------
(* A turn on one copy. *)

Copy == DialogueType(Users)

\* A copy that is what the table and the cap allow, whoever holds it.
GoodCopy(d) ==
  /\ exchanges_used(d) \in 1..ExchangeCap
  /\ is_open(d) <=> d.resolution = None
  /\ d.resolution = "capped" => exchanges_used(d) = ExchangeCap

\* When a turn may take the row of an event (reply, steps 3 and 4).
MayTake(d, event, q) ==
  /\ is_legal(d.state, event)
  /\ event = "substantive_response" => q \in Questions /\ exchanges_used(d) < ExchangeCap
  /\ event = "cap_reached" => exchanges_used(d) >= ExchangeCap

LEMMA BestIndexType ==
  ASSUME NEW q, NEW previous \in Seq(Questions)
  PROVE  best_index(q, previous) \in Nat \cup {None}
  BY DEF best_index

LEMMA LegalRow ==
  ASSUME NEW s \in OPEN_STATES, NEW e, is_legal(s, e)
  PROVE  RowOK(lookup(s, e)) /\ lookup(s, e).event = e /\ e # "dialogue_started"
<1>1. lookup(s, e) \in TRANSITIONS /\ lookup(s, e).source = s /\ lookup(s, e).event = e
  BY LookupRow
<1>2. RowOK(lookup(s, e))
  BY <1>1, TableSound
<1>3. None \notin OPEN_STATES
  BY NoneAssumption DEF DialogueState
<1>4. \A t \in TRANSITIONS : t.event = "dialogue_started" => t.source = None
  BY DEF TRANSITIONS, ExitRows, ClosingRows, Asks, Stays, Closes, Row
<1> QED BY <1>1, <1>2, <1>3, <1>4

\* A turn leaves a good copy good, and gives it the resolution of its row.
LEMMA TurnKeepsCopy ==
  ASSUME NEW d \in Copy, GoodCopy(d), is_open(d),
         NEW intent \in IntentKind, NEW event, NEW q, MayTake(d, event, q)
  PROVE  /\ ApplyTurn(d, intent, event, q) \in Copy
         /\ GoodCopy(ApplyTurn(d, intent, event, q))
         /\ ApplyTurn(d, intent, event, q).resolution = lookup(d.state, event).resolution
         /\ exchanges_used(ApplyTurn(d, intent, event, q)) >= exchanges_used(d)
<1> DEFINE row == lookup(d.state, event)
           new == ApplyTurn(d, intent, event, q)
           asked == IF row.opens_exchange THEN Append(d.questions, q) ELSE d.questions
           said == Append(d.messages, [exchange |-> Len(d.questions), intent |-> intent])
           matched == IF event = "loop_detected" THEN best_index(q, d.questions)
                      ELSE d.loop_matched_exchange
<1>1. RowOK(row) /\ row.event = event /\ event # "dialogue_started"
  BY LegalRow DEF MayTake, is_open
<1>2. d.questions \in Seq(Questions) /\ d.messages \in Seq(Message)
  BY DEF Copy, DialogueType
<1>3. /\ asked \in Seq(Questions)
      /\ Len(asked) \in 1..ExchangeCap
      /\ Len(asked) >= Len(d.questions)
      /\ event # "substantive_response" => Len(asked) = Len(d.questions)
  <2>1. CASE row.opens_exchange
    <3>1. event = "substantive_response"
      BY <1>1, <2>1 DEF RowOK
    <3>2. q \in Questions /\ Len(d.questions) < ExchangeCap
      BY <3>1 DEF MayTake, exchanges_used
    <3> QED BY <1>2, <2>1, <3>1, <3>2, CapAssumption DEF GoodCopy, exchanges_used
  <2>2. CASE ~ row.opens_exchange
    BY <1>2, <2>2 DEF GoodCopy, exchanges_used
  <2> QED BY <2>1, <2>2
<1>4. said \in Seq(Message)
  BY <1>2 DEF Message
<1>5. matched \in Nat \cup {None}
  BY <1>2, BestIndexType DEF Copy, DialogueType
<1>6. new = [d EXCEPT !.messages = said, !.questions = asked,
                      !.loop_matched_exchange = matched, !.state = row.target,
                      !.resolution = row.resolution]
  BY DEF ApplyTurn, Copy, DialogueType
<1>7. /\ new \in Copy
      /\ new.questions = asked /\ new.state = row.target
      /\ new.resolution = row.resolution
  <2>1. row.target \in DialogueState /\ row.resolution \in Resolution \cup {None}
    BY <1>1 DEF RowOK
  <2> HIDE DEF row, new, asked, said, matched
  <2>2. /\ new \in Copy
        /\ new.questions = asked /\ new.state = row.target
        /\ new.resolution = row.resolution
    BY <2>1, <1>3, <1>4, <1>5, <1>6 DEF Copy, DialogueType
  <2> QED BY <2>2
<1>8. GoodCopy(new)
  <2>1. is_open(new) <=> new.resolution = None
    BY <1>1, <1>7 DEF is_open, RowOK
  <2>2. new.resolution = "capped" => exchanges_used(new) = ExchangeCap
    BY <1>1, <1>2, <1>3, <1>7, CapAssumption
       DEF RowOK, MayTake, exchanges_used, GoodCopy
  <2> QED BY <1>3, <1>7, <2>1, <2>2 DEF GoodCopy, exchanges_used
<1> QED BY <1>3, <1>7, <1>8 DEF exchanges_used

-----------------------------------------------------------------------------
(* The inductive invariant: every copy of a dialogue, stored or in hand,   *)
(* is good and linked into the log, and each request holds what the await  *)
(* it is at relies on.                                                     *)

\* last_interaction names a record of the same dialogue.
Linked(id, d) ==
  d.last_interaction # None =>
    /\ d.last_interaction \in DOMAIN log
    /\ log[d.last_interaction].dialogue_id = id

CopyOK(id, d) == GoodCopy(d) /\ Linked(id, d)

RequestOK(r, label) ==
  /\ r.copy # None => r.id # None /\ CopyOK(r.id, r.copy)
  /\ \A pair \in r.found : CopyOK(pair[1], pair[2]) /\ is_open(pair[2])
  /\ label \in {"set_mode", "open"} => r.user # None
  /\ label \in {"classify", "generate"} => r.copy # None /\ is_open(r.copy)
  /\ label = "generate" => r.intent # None /\ exchanges_used(r.copy) < ExchangeCap
  /\ label \in {"answer", "save", "append", "link"} =>
       /\ r.copy # None /\ r.kind # None
       /\ r.kind \in ANSWER_BEARING_KINDS <=> r.copy.resolution \in DIRECT_ANSWER_RESOLUTIONS

StoredOK == \A i \in DialogueIds : dialogues[i] # None => CopyOK(i, dialogues[i])

IInv == TypeOK /\ StoredOK /\ LogIsSound /\ \A w \in Workers : RequestOK(req[w], pc[w])

LEMMA IdleOK == NoRequest \in Request /\ RequestOK(NoRequest, "idle")
  BY DEF NoRequest, Request, RequestOK

LEMMA InitOK == Init => IInv
<1> SUFFICES ASSUME Init PROVE IInv
  OBVIOUS
<1>1. TypeOK
  BY IdleOK DEF Init, TypeOK, PC
<1>2. StoredOK /\ LogIsSound
  BY DEF Init, StoredOK, LogIsSound
<1>3. \A w \in Workers : RequestOK(req[w], pc[w])
  BY IdleOK DEF Init
<1> QED BY <1>1, <1>2, <1>3 DEF IInv

\* A step that does not touch the log: it suffices that what it stores and
\* what it leaves its request with are in order.
LEMMA QuietStep ==
  ASSUME IInv, NEW w \in Workers, NEW r \in Request, NEW label \in PC,
         req' = [req EXCEPT ![w] = r], pc' = [pc EXCEPT ![w] = label],
         RequestOK(r, label),
         mode' \in ModeState \cup {None}, log' = log,
         dialogues' \in [DialogueIds -> Copy \cup {None}],
         \A i \in DialogueIds : dialogues'[i] # None => CopyOK(i, dialogues'[i])
  PROVE  IInv'
<1>1. TypeOK'
  BY DEF IInv, TypeOK, Copy
<1>3. StoredOK'
  BY DEF StoredOK, CopyOK, Linked
<1>4. LogIsSound'
  BY DEF IInv, LogIsSound
<1>6. ASSUME NEW v \in Workers
      PROVE  RequestOK(req[v], pc[v])'
  <2>1. CASE v = w
    <3>1. req'[v] = r /\ pc'[v] = label
      BY <2>1 DEF IInv, TypeOK
    <3> QED BY <3>1 DEF RequestOK, CopyOK, Linked
  <2>2. CASE v # w
    <3>1. req'[v] = req[v] /\ pc'[v] = pc[v] /\ RequestOK(req[v], pc[v])
      BY <2>2 DEF IInv, TypeOK
    <3> QED BY <3>1 DEF RequestOK, CopyOK, Linked
  <2> QED BY <2>1, <2>2
<1> QED BY <1>1, <1>3, <1>4, <1>6 DEF IInv

\* A step that changes nothing but its own request.
LEMMA LocalStep ==
  ASSUME IInv, NEW w \in Workers, NEW r \in Request, NEW label \in PC,
         req' = [req EXCEPT ![w] = r], pc' = [pc EXCEPT ![w] = label],
         RequestOK(r, label), UNCHANGED <<dialogues, mode, log>>
  PROVE  IInv'
<1>1. dialogues' \in [DialogueIds -> Copy \cup {None}] /\ mode' \in ModeState \cup {None}
  BY DEF IInv, TypeOK, Copy
<1>2. \A i \in DialogueIds : dialogues'[i] # None => CopyOK(i, dialogues'[i])
  BY DEF IInv, StoredOK
<1>3. log' = log
  OBVIOUS
<1> QED BY <1>1, <1>2, <1>3, QuietStep

\* A request that ends leaves nothing behind.
LEMMA ReturnStep ==
  ASSUME IInv, NEW w \in Workers, Return(w), UNCHANGED <<dialogues, mode, log>>
  PROVE  IInv'
  BY IdleOK, LocalStep DEF Return, Goto, PC

-----------------------------------------------------------------------------
(* set_mode *)

LEMMA BeginSetModeOK ==
  ASSUME IInv, NEW w \in Workers, BeginSetMode(w)
  PROVE  IInv'
<1>1. PICK user \in Users, enabled \in BOOLEAN :
        req' = [req EXCEPT ![w] = [NoRequest EXCEPT !.user = user, !.enabled = enabled]]
  BY DEF BeginSetMode
<1> DEFINE r == [NoRequest EXCEPT !.user = user, !.enabled = enabled]
<1>2. r \in Request /\ RequestOK(r, "set_mode")
  BY NoneAssumption DEF NoRequest, Request, RequestOK
<1> QED BY <1>1, <1>2, LocalStep DEF BeginSetMode, Goto, PC

LEMMA WriteModeOK ==
  ASSUME IInv, NEW w \in Workers, WriteMode(w)
  PROVE  IInv'
<1>1. req[w] \in Request /\ RequestOK(req[w], "set_mode") /\ mode \in ModeState \cup {None}
  BY DEF IInv, TypeOK, WriteMode, At
<1>2. req[w].user \in Users /\ req[w].enabled \in BOOLEAN
  BY <1>1 DEF Request, RequestOK
<1>3. mode' \in ModeState \cup {None}
  BY <1>1, <1>2 DEF WriteMode, ModeState
<1>4. /\ dialogues' \in [DialogueIds -> Copy \cup {None}] /\ log' = log
      /\ \A i \in DialogueIds : dialogues'[i] # None => CopyOK(i, dialogues'[i])
  BY DEF WriteMode, IInv, TypeOK, StoredOK, Copy
<1>5. CASE req[w].enabled
  BY <1>3, <1>4, <1>5, IdleOK, QuietStep DEF WriteMode, Return, Goto, PC
<1>6. CASE ~ req[w].enabled
  <2>1. req' = [req EXCEPT ![w] = req[w]] /\ pc' = [pc EXCEPT ![w] = "list"]
    BY <1>6 DEF WriteMode, Goto, IInv, TypeOK
  <2>2. RequestOK(req[w], "list")
    BY <1>1 DEF RequestOK
  <2> QED BY <1>1, <1>3, <1>4, <2>1, <2>2, QuietStep DEF PC
<1> QED BY <1>5, <1>6

LEMMA ListOpenOK ==
  ASSUME IInv, NEW w \in Workers, ListOpen(w)
  PROVE  IInv'
<1> DEFINE found == OpenCopies(req[w].user)
           r == [req[w] EXCEPT !.found = found]
<1>1. req[w] \in Request /\ RequestOK(req[w], "list")
  BY DEF IInv, TypeOK, ListOpen, At
<1>2. \A pair \in found : CopyOK(pair[1], pair[2]) /\ is_open(pair[2])
  BY DEF OpenCopies, IInv, StoredOK
<1>3. found \in SUBSET (DialogueIds \X Copy)
  BY DEF OpenCopies, IInv, TypeOK, Copy
<1>4. CASE found = {}
  BY <1>4, ReturnStep DEF ListOpen
<1>5. CASE found # {}
  <2>1. req' = [req EXCEPT ![w] = r] /\ pc' = [pc EXCEPT ![w] = "close"]
    BY <1>5 DEF ListOpen, Goto
  <2>2. r \in Request
    BY <1>1, <1>3 DEF Request, Copy
  <2>3. RequestOK(r, "close")
    BY <1>1, <1>2 DEF Request, RequestOK
  <2> HIDE DEF r, found
  <2> QED BY <2>1, <2>2, <2>3, LocalStep DEF ListOpen, PC
<1> QED BY <1>4, <1>5

\* Turning the mode off leaves a good copy good.
LEMMA AbandonKeepsCopy ==
  ASSUME NEW d \in Copy, GoodCopy(d), is_open(d)
  PROVE  /\ Abandoned(d) \in Copy /\ GoodCopy(Abandoned(d))
         /\ Abandoned(d).last_interaction = d.last_interaction
<1> DEFINE row == lookup(d.state, "mode_toggled_off")
<1>1. RowOK(row) /\ row.event = "mode_toggled_off"
  BY EveryEventHasARow, LegalRow DEF is_open
<1>2. row.target \in DialogueState /\ row.resolution \in Resolution \cup {None}
  BY <1>1 DEF RowOK
<1>3. Abandoned(d) = [d EXCEPT !.state = row.target, !.resolution = row.resolution]
  BY DEF Abandoned
<1> HIDE DEF row
<1>4. /\ Abandoned(d) \in Copy
      /\ Abandoned(d).state = row.target /\ Abandoned(d).resolution = row.resolution
      /\ Abandoned(d).questions = d.questions
      /\ Abandoned(d).last_interaction = d.last_interaction
  BY <1>2, <1>3 DEF Copy, DialogueType
<1>5. GoodCopy(Abandoned(d))
  BY <1>1, <1>4 DEF GoodCopy, RowOK, is_open, exchanges_used
<1> QED BY <1>4, <1>5

LEMMA CloseNextOK ==
  ASSUME IInv, NEW w \in Workers, CloseNext(w)
  PROVE  IInv'
<1>1. /\ req[w] \in Request /\ RequestOK(req[w], "close")
      /\ dialogues \in [DialogueIds -> Copy \cup {None}]
      /\ mode' \in ModeState \cup {None} /\ log' = log
  BY DEF IInv, TypeOK, CloseNext, At, Copy
<1>2. PICK pair \in req[w].found :
        /\ dialogues' = [dialogues EXCEPT ![pair[1]] = Abandoned(pair[2])]
        /\ IF req[w].found = {pair} THEN Return(w)
           ELSE req' = [req EXCEPT ![w].found = @ \ {pair}] /\ UNCHANGED pc
  BY DEF CloseNext
<1>3. pair[1] \in DialogueIds /\ pair[2] \in Copy /\ CopyOK(pair[1], pair[2]) /\ is_open(pair[2])
  BY <1>1 DEF Request, RequestOK, Copy
<1>4. Abandoned(pair[2]) \in Copy /\ CopyOK(pair[1], Abandoned(pair[2]))
  BY <1>3, AbandonKeepsCopy DEF CopyOK, Linked
<1>5. /\ dialogues' \in [DialogueIds -> Copy \cup {None}]
      /\ \A i \in DialogueIds : dialogues'[i] # None => CopyOK(i, dialogues'[i])
  BY <1>1, <1>2, <1>3, <1>4 DEF IInv, StoredOK
<1>6. CASE req[w].found = {pair}
  BY <1>1, <1>2, <1>5, <1>6, IdleOK, QuietStep DEF Return, Goto, PC
<1>7. CASE req[w].found # {pair}
  <2> DEFINE r == [req[w] EXCEPT !.found = @ \ {pair}]
  <2>1. req' = [req EXCEPT ![w] = r]
    BY <1>2, <1>7
  <2>2. pc' = [pc EXCEPT ![w] = "close"]
    BY <1>2, <1>7 DEF CloseNext, At, IInv, TypeOK
  <2>3. r \in Request /\ RequestOK(r, "close")
    BY <1>1 DEF Request, RequestOK
  <2> HIDE DEF r
  <2> QED BY <1>1, <1>5, <2>1, <2>2, <2>3, QuietStep DEF PC
<1> QED BY <1>6, <1>7

-----------------------------------------------------------------------------
(* ask *)

LEMMA BeginAskOK ==
  ASSUME IInv, NEW w \in Workers, BeginAsk(w)
  PROVE  IInv'
<1>1. PICK user \in Users : req' = [req EXCEPT ![w] = [NoRequest EXCEPT !.user = user]]
  BY DEF BeginAsk
<1> DEFINE r == [NoRequest EXCEPT !.user = user]
           label == IF ModeEnabled THEN "open" ELSE "standard"
<1>2. r \in Request /\ RequestOK(r, label) /\ label \in PC
  BY NoneAssumption DEF NoRequest, Request, RequestOK, PC
<1>3. pc' = [pc EXCEPT ![w] = label]
  BY DEF BeginAsk, Goto
<1> HIDE DEF r, label
<1>4. req' = [req EXCEPT ![w] = r]
  BY <1>1 DEF r
<1> QED BY <1>2, <1>3, <1>4, LocalStep DEF BeginAsk

\* A dialogue starts good: one question of at least one, not yet in the log.
LEMMA NewDialogueOK ==
  ASSUME NEW user \in Users, NEW text \in LearnerQuestions, NEW q \in Questions, NEW d
  PROVE  /\ NewDialogue(user, text, q) \in Copy
         /\ CopyOK(d, NewDialogue(user, text, q))
         /\ NewDialogue(user, text, q).resolution = None
<1> DEFINE new == NewDialogue(user, text, q)
<1>1. new \in Copy
  BY DEF NewDialogue, Copy, DialogueType, DialogueState, OPEN_STATES
<1>2. exchanges_used(new) = 1 /\ new.resolution = None /\ is_open(new)
  BY DEF NewDialogue, exchanges_used, is_open, OPEN_STATES
<1>3. GoodCopy(new)
  BY <1>2, CapAssumption, NoneAssumption DEF GoodCopy, Resolution
<1>4. Linked(d, new)
  BY DEF Linked, NewDialogue
<1> QED BY <1>1, <1>2, <1>3, <1>4 DEF CopyOK

LEMMA OpenDialogueOK ==
  ASSUME IInv, NEW w \in Workers, OpenDialogue(w)
  PROVE  IInv'
<1>1. PICK d \in DialogueIds, text \in LearnerQuestions, q \in Questions :
        req' = [req EXCEPT ![w].id = d,
                           ![w].copy = NewDialogue(req[w].user, text, q),
                           ![w].kind = "guiding_question"]
  BY DEF OpenDialogue
<1> DEFINE new == NewDialogue(req[w].user, text, q)
           r == [req[w] EXCEPT !.id = d, !.copy = new, !.kind = "guiding_question"]
<1>2. req[w] \in Request /\ RequestOK(req[w], "open") /\ req \in [Workers -> Request]
  BY DEF IInv, TypeOK, OpenDialogue, At
<1>3. req[w].user \in Users
  BY <1>2 DEF Request, RequestOK
<1>4. new \in Copy /\ CopyOK(d, new) /\ new.resolution = None
  BY <1>3, NewDialogueOK
<1> HIDE DEF new
<1>5. r \in Request
  BY <1>2, <1>4 DEF Request, ResponseKind, Copy
<1>6. RequestOK(r, "save")
  <2>1. r.copy = new /\ r.id = d /\ r.kind = "guiding_question" /\ r.found = req[w].found
    BY <1>2 DEF Request
  <2>2. None \notin Copy /\ None \notin DialogueIds /\ None # "guiding_question"
        /\ None \notin Resolution
    BY NoneAssumption DEF Copy, ResponseKind
  <2> QED BY <1>2, <1>4, <2>1, <2>2
             DEF RequestOK, ANSWER_BEARING_KINDS, DIRECT_ANSWER_RESOLUTIONS, Resolution
<1>7. req' = [req EXCEPT ![w] = r]
  BY <1>1, <1>2 DEF new
<1>8. pc' = [pc EXCEPT ![w] = "save"]
  BY DEF OpenDialogue, Goto
<1> HIDE DEF r
<1> QED BY <1>5, <1>6, <1>7, <1>8, LocalStep DEF OpenDialogue, PC

-----------------------------------------------------------------------------
(* reply *)

LEMMA BeginReplyOK ==
  ASSUME IInv, NEW w \in Workers, BeginReply(w)
  PROVE  IInv'
<1>1. PICK user \in Users, d \in DialogueIds :
        /\ dialogues[d] # None
        /\ dialogues[d].state \notin TERMINAL_STATES
        /\ req' = [req EXCEPT ![w] = [NoRequest EXCEPT !.user = user, !.id = d,
                                                       !.copy = dialogues[d]]]
  BY DEF BeginReply
<1> DEFINE r == [NoRequest EXCEPT !.user = user, !.id = d, !.copy = dialogues[d]]
<1>2. dialogues[d] \in Copy /\ CopyOK(d, dialogues[d])
  BY <1>1 DEF IInv, TypeOK, StoredOK, Copy
<1>3. is_open(dialogues[d])
  BY <1>1, <1>2 DEF is_open, Copy, DialogueType, DialogueState
<1>4. r \in Request
  BY <1>2 DEF NoRequest, Request, Copy
<1>5. RequestOK(r, "classify")
  BY <1>2, <1>3, NoneAssumption DEF NoRequest, RequestOK, Copy
<1>6. req' = [req EXCEPT ![w] = r] /\ pc' = [pc EXCEPT ![w] = "classify"]
  BY <1>1 DEF BeginReply, Goto
<1> HIDE DEF r
<1> QED BY <1>4, <1>5, <1>6, LocalStep DEF BeginReply, PC

\* Whatever row a turn takes, the request goes on with a good copy of which
\* the record to be written will speak the truth.
LEMMA TakeTurnOK ==
  ASSUME IInv, NEW w \in Workers, UNCHANGED <<dialogues, mode, log>>,
         req[w].copy # None, is_open(req[w].copy),
         NEW intent \in IntentKind, NEW event, NEW q,
         MayTake(req[w].copy, event, q), event # "mode_toggled_off",
         TakeTurn(w, intent, event, q)
  PROVE  IInv'
<1> DEFINE d == req[w].copy
           row == lookup(d.state, event)
           new == ApplyTurn(d, intent, event, q)
           r == [req[w] EXCEPT !.copy = new, !.intent = None, !.kind = row.response_kind]
           label == IF row.response_kind \in ANSWER_BEARING_KINDS THEN "answer" ELSE "save"
<1>1. req[w] \in Request /\ RequestOK(req[w], pc[w]) /\ req \in [Workers -> Request]
  BY DEF IInv, TypeOK
<1>2. d \in Copy /\ CopyOK(req[w].id, d) /\ req[w].id # None
  BY <1>1 DEF Request, RequestOK, Copy
<1>3. /\ new \in Copy /\ GoodCopy(new) /\ new.resolution = row.resolution
      /\ RowOK(row) /\ row.event = event
  BY <1>2, TurnKeepsCopy, LegalRow DEF CopyOK, MayTake, is_open
<1>4. new.last_interaction = d.last_interaction
  BY <1>2 DEF ApplyTurn, Copy, DialogueType
<1>5. CopyOK(req[w].id, new)
  BY <1>2, <1>3, <1>4 DEF CopyOK, Linked
<1>6. row.response_kind \in ResponseKind
  BY <1>3 DEF RowOK
<1>7. row.response_kind \in ANSWER_BEARING_KINDS <=> new.resolution \in DIRECT_ANSWER_RESOLUTIONS
  BY <1>3 DEF RowOK
<1>8. req' = [req EXCEPT ![w] = r] /\ pc' = [pc EXCEPT ![w] = label]
  BY <1>1 DEF TakeTurn, Goto
<1> HIDE DEF new, row, d
<1>9. r \in Request /\ label \in PC
  BY <1>1, <1>3, <1>6 DEF Request, Copy, PC
<1>10. RequestOK(r, label)
  <2>1. r.copy = new /\ r.id = req[w].id /\ r.kind = row.response_kind /\ r.found = req[w].found
    BY <1>1 DEF Request
  <2>2. None \notin Copy /\ None \notin ResponseKind
    BY NoneAssumption DEF Copy
  <2> QED BY <1>1, <1>2, <1>3, <1>5, <1>6, <1>7, <2>1, <2>2 DEF RequestOK
<1> HIDE DEF r, label
<1> QED BY <1>8, <1>9, <1>10, LocalStep

LEMMA ClassifyOK ==
  ASSUME IInv, NEW w \in Workers, Classify(w)
  PROVE  IInv'
<1> DEFINE d == req[w].copy
<1>1. req[w] \in Request /\ RequestOK(req[w], "classify") /\ req \in [Workers -> Request]
  BY DEF IInv, TypeOK, Classify, At
<1>2. d # None /\ is_open(d) /\ d \in Copy /\ GoodCopy(d)
  BY <1>1 DEF RequestOK, Request, Copy, CopyOK
<1>3. PICK intent \in Intents :
        LET event == EventAtCap(d, intent)
        IN IF event = "substantive_response"
           THEN Goto(w, "generate") /\ req' = [req EXCEPT ![w].intent = intent]
           ELSE TakeTurn(w, intent, event, None)
  BY DEF Classify
<1>4. intent \in IntentKind
  BY IntentsAssumption
<1>5. is_legal(d.state, event_for_intent(d.state, intent)) /\ is_legal(d.state, "cap_reached")
  BY <1>2, <1>4, EveryEventHasARow DEF is_open
<1>6. CASE EventAtCap(d, intent) = "substantive_response"
  <2> DEFINE r == [req[w] EXCEPT !.intent = intent]
  <2>1. exchanges_used(d) < ExchangeCap
    BY <1>2, <1>6, CapAssumption DEF EventAtCap, GoodCopy
  <2>2. r \in Request /\ req' = [req EXCEPT ![w] = r] /\ pc' = [pc EXCEPT ![w] = "generate"]
    BY <1>1, <1>3, <1>4, <1>6 DEF Request, Goto
  <2>3. RequestOK(r, "generate")
    BY <1>1, <1>2, <1>4, <2>1, NoneAssumption DEF Request, RequestOK
  <2> HIDE DEF r
  <2> QED BY <2>2, <2>3, LocalStep DEF Classify, PC
<1>7. CASE EventAtCap(d, intent) # "substantive_response"
  <2>1. MayTake(d, EventAtCap(d, intent), None)
    <3>1. event_for_intent(d.state, intent) # "cap_reached"
      BY <1>4 DEF event_for_intent, IntentKind
    <3> HIDE DEF d
    <3> QED BY <1>5, <1>7, <3>1 DEF MayTake, EventAtCap
  <2>2. EventAtCap(d, intent) # "mode_toggled_off"
    BY <1>4 DEF EventAtCap, event_for_intent, IntentKind
  <2> QED BY <1>2, <1>3, <1>4, <1>7, <2>1, <2>2, TakeTurnOK DEF Classify
<1> QED BY <1>6, <1>7

LEMMA GenerateNextOK ==
  ASSUME IInv, NEW w \in Workers, GenerateNext(w)
  PROVE  IInv'
<1> DEFINE d == req[w].copy
<1>1. req[w] \in Request /\ RequestOK(req[w], "generate")
  BY DEF IInv, TypeOK, GenerateNext, At
<1>2. /\ d # None /\ is_open(d) /\ exchanges_used(d) < ExchangeCap
      /\ req[w].intent \in IntentKind
  BY <1>1 DEF RequestOK, Request
<1>3. PICK q \in Questions :
        TakeTurn(w, req[w].intent,
                 IF is_repeat(q, d.questions) THEN "loop_detected" ELSE "substantive_response", q)
  BY DEF GenerateNext
<1>4. \A e \in {"loop_detected", "substantive_response"} : MayTake(d, e, q)
  BY <1>2, EveryEventHasARow DEF MayTake, is_open
<1>5. CASE is_repeat(q, d.questions)
  BY <1>2, <1>3, <1>4, <1>5, TakeTurnOK DEF GenerateNext
<1>6. CASE ~ is_repeat(q, d.questions)
  BY <1>2, <1>3, <1>4, <1>6, TakeTurnOK DEF GenerateNext
<1> QED BY <1>5, <1>6

LEMMA GenerateAnswerOK ==
  ASSUME IInv, NEW w \in Workers, GenerateAnswer(w)
  PROVE  IInv'
<1>1. req[w] \in Request /\ RequestOK(req[w], "answer") /\ req \in [Workers -> Request]
  BY DEF IInv, TypeOK, GenerateAnswer, At
<1>2. RequestOK(req[w], "save")
  BY <1>1 DEF RequestOK
<1>3. req' = [req EXCEPT ![w] = req[w]] /\ pc' = [pc EXCEPT ![w] = "save"]
  BY <1>1 DEF GenerateAnswer, Goto
<1> QED BY <1>1, <1>2, <1>3, LocalStep DEF GenerateAnswer, PC

-----------------------------------------------------------------------------
(* _finalise *)

\* Saving the copy a request holds.
LEMMA SaveOK ==
  ASSUME IInv, NEW w \in Workers, pc[w] \in {"save", "link"},
         dialogues' = [dialogues EXCEPT ![req[w].id] = req[w].copy]
  PROVE  /\ dialogues' \in [DialogueIds -> Copy \cup {None}]
         /\ \A i \in DialogueIds : dialogues'[i] # None => CopyOK(i, dialogues'[i])
<1>1. req[w] \in Request /\ RequestOK(req[w], pc[w])
  BY DEF IInv, TypeOK
<1>2. req[w].copy \in Copy /\ req[w].id \in DialogueIds /\ CopyOK(req[w].id, req[w].copy)
  BY <1>1 DEF Request, RequestOK, Copy
<1> QED BY <1>2 DEF IInv, TypeOK, StoredOK, Copy

LEMMA SaveTurnOK ==
  ASSUME IInv, NEW w \in Workers, SaveTurn(w)
  PROVE  IInv'
<1>1. req[w] \in Request /\ RequestOK(req[w], "save") /\ req \in [Workers -> Request]
      /\ mode' \in ModeState \cup {None}
  BY DEF IInv, TypeOK, SaveTurn, At
<1>2. RequestOK(req[w], "append")
  BY <1>1 DEF RequestOK
<1>3. req' = [req EXCEPT ![w] = req[w]] /\ pc' = [pc EXCEPT ![w] = "append"] /\ log' = log
  BY <1>1 DEF SaveTurn, Goto
<1>4. /\ dialogues' \in [DialogueIds -> Copy \cup {None}]
      /\ \A i \in DialogueIds : dialogues'[i] # None => CopyOK(i, dialogues'[i])
  BY SaveOK DEF SaveTurn, At
<1> QED BY <1>1, <1>2, <1>3, <1>4, QuietStep DEF PC

LEMMA SaveLinkOK ==
  ASSUME IInv, NEW w \in Workers, SaveLink(w)
  PROVE  IInv'
<1>1. /\ dialogues' \in [DialogueIds -> Copy \cup {None}]
      /\ \A i \in DialogueIds : dialogues'[i] # None => CopyOK(i, dialogues'[i])
  BY SaveOK DEF SaveLink, At
<1>2. mode' \in ModeState \cup {None} /\ log' = log
  BY DEF SaveLink, IInv, TypeOK
<1> QED BY <1>1, <1>2, IdleOK, QuietStep DEF SaveLink, Return, Goto, PC

\* The same for a step that appends a record to which its request's copy is
\* then linked: the log only grows, so whatever was linked stays linked.
LEMMA LogStep ==
  ASSUME IInv, NEW w \in Workers, NEW r \in Request, NEW rec \in LogRecord,
         req' = [req EXCEPT ![w] = r], pc' = [pc EXCEPT ![w] = "link"],
         log' = Append(log, rec), UNCHANGED <<dialogues, mode>>,
         r.copy # None, r.id # None, r.kind # None,
         r.kind \in ANSWER_BEARING_KINDS <=> r.copy.resolution \in DIRECT_ANSWER_RESOLUTIONS,
         GoodCopy(r.copy), r.copy.last_interaction = Len(log) + 1, rec.dialogue_id = r.id,
         \A pair \in r.found : CopyOK(pair[1], pair[2]) /\ is_open(pair[2]),
         rec.follow_up_of # None =>
           /\ rec.follow_up_of \in DOMAIN log
           /\ log[rec.follow_up_of].dialogue_id = rec.dialogue_id,
         rec.exchange_number <= ExchangeCap,
         rec.response_kind \in ANSWER_BEARING_KINDS
           <=> rec.resolution \in DIRECT_ANSWER_RESOLUTIONS,
         rec.resolution = "capped" => rec.exchange_number = ExchangeCap
  PROVE  IInv'
<1> DEFINE n == Len(log) + 1
<1>1. log \in Seq(LogRecord) /\ LogIsSound
  BY DEF IInv, TypeOK
<1>2. /\ log' \in Seq(LogRecord) /\ DOMAIN log' = 1..n /\ DOMAIN log = 1..Len(log)
      /\ Len(log) \in Nat /\ log'[n] = rec
      /\ \A i \in DOMAIN log : log'[i] = log[i]
  BY <1>1
<1>3. ASSUME NEW i, NEW e, Linked(i, e)
      PROVE  Linked(i, e)'
  BY <1>2, <1>3 DEF Linked
<1>4. ASSUME NEW i, NEW e, CopyOK(i, e)
      PROVE  CopyOK(i, e)'
  BY <1>3, <1>4 DEF CopyOK
<1>5. LogIsSound'
  <2> SUFFICES ASSUME NEW i \in DOMAIN log'
               PROVE  LET x == log'[i]
                      IN /\ x.follow_up_of # None =>
                              x.follow_up_of \in 1..(i - 1)
                              /\ log'[x.follow_up_of].dialogue_id = x.dialogue_id
                         /\ x.exchange_number <= ExchangeCap
                         /\ (x.response_kind \in ANSWER_BEARING_KINDS)
                              <=> (x.resolution \in DIRECT_ANSWER_RESOLUTIONS)
                         /\ x.resolution = "capped" => x.exchange_number = ExchangeCap
    BY DEF LogIsSound
  <2>1. CASE i = n
    BY <1>2, <2>1
  <2>2. CASE i # n
    <3>1. i \in DOMAIN log /\ log'[i] = log[i]
      BY <1>2, <2>2
    <3>2. log[i].follow_up_of # None => log[i].follow_up_of \in DOMAIN log
      BY <1>1, <1>2, <3>1 DEF LogIsSound
    <3> QED BY <1>1, <1>2, <3>1, <3>2 DEF LogIsSound
  <2> QED BY <2>1, <2>2
<1>6. CopyOK(r.id, r.copy)'
  BY <1>2 DEF CopyOK, Linked
<1>7. RequestOK(r, "link")'
  BY <1>4, <1>6 DEF RequestOK
<1>8. TypeOK'
  BY <1>2 DEF IInv, TypeOK, PC
<1>9. StoredOK'
  BY <1>4 DEF IInv, StoredOK
<1>10. ASSUME NEW v \in Workers
       PROVE  RequestOK(req[v], pc[v])'
  <2>1. CASE v = w
    <3>1. req'[v] = r /\ pc'[v] = "link"
      BY <2>1 DEF IInv, TypeOK
    <3> QED BY <1>7, <3>1 DEF RequestOK, CopyOK, Linked
  <2>2. CASE v # w
    <3>1. req'[v] = req[v] /\ pc'[v] = pc[v] /\ RequestOK(req[v], pc[v])
      BY <2>2 DEF IInv, TypeOK
    <3>2. ASSUME NEW x, NEW l, RequestOK(x, l)
          PROVE  RequestOK(x, l)'
      BY <1>4, <3>2 DEF RequestOK
    <3> QED BY <3>1, <3>2 DEF RequestOK, CopyOK, Linked
  <2> QED BY <2>1, <2>2
<1> QED BY <1>5, <1>8, <1>9, <1>10 DEF IInv

LEMMA AppendRecordOK ==
  ASSUME IInv, NEW w \in Workers, AppendRecord(w)
  PROVE  IInv'
<1> DEFINE d == req[w].copy
           rec == [dialogue_id |-> req[w].id,
                   exchange_number |-> IF exchanges_used(d) > 1 THEN exchanges_used(d) ELSE 1,
                   response_kind |-> req[w].kind, resolution |-> d.resolution,
                   follow_up_of |-> d.last_interaction]
           linked == [d EXCEPT !.last_interaction = Len(log) + 1]
           r == [req[w] EXCEPT !.copy = linked]
<1>1. /\ req[w] \in Request /\ RequestOK(req[w], "append") /\ req \in [Workers -> Request]
      /\ log \in Seq(LogRecord)
  BY DEF IInv, TypeOK, AppendRecord, At
<1>2. /\ d \in Copy /\ CopyOK(req[w].id, d) /\ req[w].id \in DialogueIds
      /\ req[w].kind \in ResponseKind
      /\ req[w].kind \in ANSWER_BEARING_KINDS <=> d.resolution \in DIRECT_ANSWER_RESOLUTIONS
  BY <1>1 DEF Request, RequestOK, Copy
<1>3. exchanges_used(d) \in 1..ExchangeCap /\ rec.exchange_number = exchanges_used(d)
  BY <1>2, CapAssumption DEF CopyOK, GoodCopy
<1>4. rec \in LogRecord
  BY <1>2, <1>3, CapAssumption DEF LogRecord, Copy, DialogueType
<1>5. rec.follow_up_of # None => /\ rec.follow_up_of \in DOMAIN log
                                 /\ log[rec.follow_up_of].dialogue_id = rec.dialogue_id
  BY <1>2 DEF CopyOK, Linked
<1>6. rec.resolution = "capped" => rec.exchange_number = ExchangeCap
  BY <1>2, <1>3 DEF CopyOK, GoodCopy
<1>7. /\ linked \in Copy /\ GoodCopy(linked) /\ linked.last_interaction = Len(log) + 1
      /\ linked.resolution = d.resolution
  BY <1>1, <1>2 DEF Copy, DialogueType, CopyOK, GoodCopy, exchanges_used, is_open
<1>8. /\ req' = [req EXCEPT ![w] = r] /\ pc' = [pc EXCEPT ![w] = "link"]
      /\ log' = Append(log, rec) /\ UNCHANGED <<dialogues, mode>>
  BY <1>1 DEF AppendRecord, Goto
<1>9. /\ rec.exchange_number <= ExchangeCap /\ rec.dialogue_id = req[w].id
      /\ rec.response_kind = req[w].kind /\ rec.resolution = d.resolution
  BY <1>3
<1> HIDE DEF linked, rec
<1>10. /\ r \in Request /\ r.copy = linked /\ r.id = req[w].id /\ r.kind = req[w].kind
       /\ r.found = req[w].found
  BY <1>1, <1>7 DEF Request, Copy
<1>11. r.copy # None /\ r.id # None /\ r.kind # None
  BY <1>2, <1>7, <1>10, NoneAssumption DEF Copy
<1>12. \A pair \in r.found : CopyOK(pair[1], pair[2]) /\ is_open(pair[2])
  BY <1>1, <1>10 DEF RequestOK
<1> HIDE DEF r, d
<1> QED BY <1>2, <1>3, <1>4, <1>5, <1>6, <1>7, <1>8, <1>9, <1>10, <1>11, <1>12, LogStep

-----------------------------------------------------------------------------
(* The whole next-state relation, and what it establishes. *)

LEMMA NextOK == IInv /\ [Next]_vars => IInv'
<1> SUFFICES ASSUME IInv, [Next]_vars PROVE IInv'
  OBVIOUS
<1>1. CASE UNCHANGED vars
  BY <1>1 DEF vars, IInv, TypeOK, StoredOK, LogIsSound, RequestOK, CopyOK, Linked
<1>2. ASSUME NEW w \in Workers, Begin(w) PROVE IInv'
  BY <1>2, BeginSetModeOK, BeginAskOK, BeginReplyOK DEF Begin
<1>3. ASSUME NEW w \in Workers, StandardAnswer(w) \/ ProviderFails(w) \/ StoreFails(w)
      PROVE  IInv'
  BY <1>3, ReturnStep DEF StandardAnswer, ProviderFails, StoreFails
<1>4. ASSUME NEW w \in Workers, Continue(w) PROVE IInv'
  BY <1>3, <1>4, WriteModeOK, ListOpenOK, CloseNextOK, OpenDialogueOK, ClassifyOK,
     GenerateNextOK, GenerateAnswerOK, SaveTurnOK, AppendRecordOK, SaveLinkOK
     DEF Continue
<1> QED BY <1>1, <1>2, <1>4 DEF Next

LEMMA Invariance == Spec => []IInv
<1> QED BY InitOK, NextOK, PTL DEF Spec

\* Every variable keeps to its type: in particular every stored dialogue, and
\* every copy a request works on, is a whole Dialogue aggregate.
THEOREM TypeCorrect == Spec => []TypeOK
<1>1. IInv => TypeOK
  BY DEF IInv
<1> QED BY <1>1, Invariance, PTL

\* For every cap: no copy of a dialogue, stored or in hand, ever holds more
\* guiding questions than the cap, and "capped" is said at the cap only.
THEOREM CapHolds == Spec => []CapRespected
<1>1. IInv => CapRespected
  <2> SUFFICES ASSUME IInv, NEW d \in Copies
               PROVE  GoodCopy(d)
    BY DEF CapRespected, GoodCopy
  <2>1. CASE \E i \in DialogueIds : dialogues[i] # None /\ d = dialogues[i]
    BY <2>1 DEF IInv, StoredOK, CopyOK
  <2>2. CASE \E w \in Workers : req[w].copy # None /\ d = req[w].copy
    BY <2>2 DEF IInv, RequestOK, CopyOK
  <2>3. CASE \E w \in Workers : \E pair \in req[w].found : d = pair[2]
    BY <2>3 DEF IInv, RequestOK, CopyOK
  <2> QED BY <2>1, <2>2, <2>3 DEF Copies, Started
<1> QED BY <1>1, Invariance, PTL

\* The log is sound whatever interleaves and whatever store call fails: every
\* record follows up an earlier record of its own dialogue, and a direct answer
\* carries one of the four permitted resolutions, the cap's at the cap only.
THEOREM LogSound == Spec => []LogIsSound
<1>1. IInv => LogIsSound
  BY DEF IInv
<1> QED BY <1>1, Invariance, PTL

=============================================================================
