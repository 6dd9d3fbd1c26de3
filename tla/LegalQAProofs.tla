---------------------------- MODULE LegalQAProofs ----------------------------
(***************************************************************************)
(* What TLAPS proves of UC-03, for any number of requests, any concepts,   *)
(* framings and prose, and a registry and a logger that may fail at will.  *)
(***************************************************************************)
EXTENDS LegalQA, TLAPS

-----------------------------------------------------------------------------
(* The inductive invariant: beside the properties, what a request knows at *)
(* each of its awaits about the answers its learner has already seen.      *)

\* What the follow-up of log entry o has to avoid.
Seen(i, r) == Remembered(log[i]) /\ log[i].concept = r.concept

\* What holds of an entry e at position j of the log.
EntryOK(e, j) ==
  /\ e.status = "answered" => e.concept \in Concepts /\ e.framing \in Pool
  /\ Remembered(e) => Kept(e)
  /\ e.follow_up_of # None =>
       /\ e.follow_up_of \in 1..(j - 1)
       /\ log[e.follow_up_of].status = "answered"
       /\ e.concept \in {None, log[e.follow_up_of].concept}
       /\ e.status = "answered" => Renews(e)

LogOK == \A j \in DOMAIN log : EntryOK(log[j], j)

OriginOK(q) ==
  /\ q.record.follow_up_of = q.origin
  /\ q.origin # None =>
       /\ q.origin \in DOMAIN log
       /\ log[q.origin].status = "answered"
       /\ q.record.concept \in {None, log[q.origin].concept}

\* By the place of the request: what it has chosen, and what it knows.
ReqOK(w) ==
  LET q == req[w]
      r == req[w].record
      seen == {i \in 1..q.origin : Seen(i, r)}
  IN /\ OriginOK(q)
     /\ pc[w] # "log" => r.status # "answered"
     /\ pc[w] \in {"used", "previous", "generate", "record"} => r.concept \in Concepts
     /\ pc[w] \in {"generate", "record"} => r.framing \in Pool
     /\ (pc[w] = "previous" /\ q.origin # None) => \A i \in seen : log[i].framing \in q.used
     /\ (pc[w] = "generate" /\ q.origin # None) =>
          \A i \in seen : /\ log[i].framing # r.framing
                          /\ \E k \in DOMAIN q.previous : q.previous[k] = log[i].text
     /\ (pc[w] = "record" /\ q.origin # None) => Renews(r)
     /\ (pc[w] = "log" /\ r.status = "answered") =>
          /\ r.concept \in Concepts /\ r.framing \in Pool
          /\ ~ r.degraded => Kept(r)
          /\ q.origin # None => Renews(r)

IInv == TypeOK /\ LogOK /\ \A w \in Workers : ReqOK(w)

-----------------------------------------------------------------------------
(* The registry and the log only grow. *)

Grows ==
  /\ \A c \in Concepts :
       /\ framings[c] \subseteq framings'[c]
       /\ \A k \in DOMAIN explanations[c] :
            k \in DOMAIN explanations'[c] /\ explanations'[c][k] = explanations[c][k]
  /\ \A i \in DOMAIN log : i \in DOMAIN log' /\ log'[i] = log[i]

LEMMA KeptGrows ==
  ASSUME Grows, NEW r, r.concept \in Concepts, Kept(r)
  PROVE  Kept(r)'
BY DEF Grows, Kept

\* A follow-up looks back only at entries that are there already.
LEMMA RenewsGrows ==
  ASSUME TypeOK, Grows, NEW r, r.follow_up_of \in DOMAIN log, Renews(r)
  PROVE  Renews(r)'
<1>1. \A i \in 1..r.follow_up_of : i \in DOMAIN log
  BY DEF TypeOK
<1> QED BY <1>1 DEF Grows, Renews, Remembered

LEMMA SeenGrows ==
  ASSUME TypeOK, Grows, NEW r, NEW n \in DOMAIN log
  PROVE  \A i \in 1..n : i \in DOMAIN log /\ log'[i] = log[i] /\ (Seen(i, r)' <=> Seen(i, r))
<1>1. \A i \in 1..n : i \in DOMAIN log
  BY DEF TypeOK
<1> QED BY <1>1 DEF Grows, Seen, Remembered

\* A request that does not move keeps what it knows.
LEMMA OthersOK ==
  ASSUME TypeOK, Grows, NEW v \in Workers, ReqOK(v), pc'[v] = pc[v], req'[v] = req[v]
  PROVE  ReqOK(v)'
<1> DEFINE q == req[v]
           r == req[v].record
<1>0. r.follow_up_of = q.origin
  BY DEF ReqOK, OriginOK
<1>1. OriginOK(q)'
  BY DEF ReqOK, OriginOK, Grows
<1>2. q.origin # None => \A i \in 1..q.origin : log'[i] = log[i] /\ (Seen(i, r)' <=> Seen(i, r))
  BY SeenGrows DEF ReqOK, OriginOK
<1>3. (pc[v] = "log" /\ r.status = "answered" /\ ~ r.degraded) => Kept(r)'
  BY KeptGrows DEF ReqOK
<1>4. (q.origin # None /\ Renews(r)) => Renews(r)'
  BY RenewsGrows, <1>0 DEF ReqOK, OriginOK
<1> QED BY <1>1, <1>2, <1>3, <1>4 DEF ReqOK

LEMMA EntryGrows ==
  ASSUME TypeOK, Grows, NEW j \in 1..(Len(log) + 1), NEW e, EntryOK(e, j)
  PROVE  EntryOK(e, j)'
<1>1. e.follow_up_of # None =>
        e.follow_up_of \in DOMAIN log /\ log'[e.follow_up_of] = log[e.follow_up_of]
  BY DEF TypeOK, Grows, EntryOK
<1>2. Remembered(e) => Kept(e)'
  BY KeptGrows DEF EntryOK, Remembered
<1>3. (e.follow_up_of # None /\ e.status = "answered") => Renews(e)'
  BY <1>1, RenewsGrows DEF EntryOK
<1> QED BY <1>1, <1>2, <1>3 DEF EntryOK, Remembered

LEMMA LogKeeps ==
  ASSUME TypeOK, Grows, LogOK, log' = log
  PROVE  LogOK'
<1> SUFFICES ASSUME NEW j \in DOMAIN log, NEW e, e = log[j]
             PROVE  EntryOK(e, j)'
  BY DEF LogOK, EntryOK, Remembered, Kept, Renews
<1>1. j \in 1..(Len(log) + 1)
  BY DEF TypeOK
<1> QED BY <1>1, EntryGrows DEF LogOK

-----------------------------------------------------------------------------
(* One lemma per step of a request: types, growth, and what the request    *)
(* knows at the place it reaches. *)

LEMMA NoRequestTyped == NoRecord \in LogRecord /\ NoRequest \in Request
BY DEF NoRecord, NoRequest, LogRecord, Request, ResponseStatus

\* A request that starts afresh, or is over, knows nothing.
LEMMA FreshOK ==
  ASSUME NEW w \in Workers, req'[w] = NoRequest,
         pc'[w] \in {"idle", "classify", "log"}
  PROVE  ReqOK(w)'
BY DEF ReqOK, OriginOK, NoRequest, NoRecord

LEMMA SameRegistry ==
  ASSUME UNCHANGED <<framings, explanations, log>>
  PROVE  Grows
BY DEF Grows

LEMMA BeginAskOK ==
  ASSUME IInv, NEW w \in Workers, BeginAsk(w)
  PROVE  TypeOK' /\ Grows /\ ReqOK(w)'
<1>1. TypeOK'
  BY NoRequestTyped DEF IInv, TypeOK, BeginAsk, Goto, PC
<1>2. ReqOK(w)'
  BY FreshOK DEF IInv, TypeOK, BeginAsk, Goto
<1> QED BY <1>1, <1>2, SameRegistry DEF BeginAsk

LEMMA RefuseAskOK ==
  ASSUME IInv, NEW w \in Workers, RefuseAsk(w)
  PROVE  TypeOK' /\ Grows /\ ReqOK(w)'
<1>1. TypeOK'
  BY NoRequestTyped DEF IInv, TypeOK, RefuseAsk, Goto, PC
<1>2. ReqOK(w)'
  BY FreshOK DEF IInv, TypeOK, RefuseAsk, Goto
<1> QED BY <1>1, <1>2, SameRegistry DEF RefuseAsk

LEMMA BeginFollowUpOK ==
  ASSUME IInv, NEW w \in Workers, BeginFollowUp(w)
  PROVE  TypeOK' /\ Grows /\ ReqOK(w)'
<1>1. PICK o \in DOMAIN log, action \in Actions :
        /\ log[o].status = "answered"
        /\ req' = [req EXCEPT ![w] = [NoRequest EXCEPT
                     !.action = action, !.origin = o,
                     !.record = [NoRecord EXCEPT !.follow_up_of = o]]]
  BY DEF BeginFollowUp
<1> DEFINE q == [NoRequest EXCEPT !.action = action, !.origin = o,
                                  !.record = [NoRecord EXCEPT !.follow_up_of = o]]
<1>2. o \in Nat
  BY DEF IInv, TypeOK
<1>3. q \in Request
  <2>1. [NoRecord EXCEPT !.follow_up_of = o] \in LogRecord
    BY <1>2, NoRequestTyped DEF NoRecord, LogRecord, ResponseStatus
  <2> DEFINE record == [NoRecord EXCEPT !.follow_up_of = o]
  <2>2. action \in FollowUpAction
    BY ActionsAssumption
  <2> HIDE DEF record
  <2>3. [NoRequest EXCEPT !.action = action] \in Request
    BY <2>2, NoRequestTyped DEF Request
  <2>4. [NoRequest EXCEPT !.action = action, !.origin = o] \in Request
    BY <1>2, <2>3 DEF Request
  <2>5. record \in LogRecord
    BY <2>1 DEF record
  <2>6. [NoRequest EXCEPT !.action = action, !.origin = o, !.record = record] \in Request
    BY <2>4, <2>5 DEF Request
  <2> QED BY <2>6 DEF record
<1>4. TypeOK'
  BY <1>1, <1>3 DEF IInv, TypeOK, BeginFollowUp, Goto, PC
<1>5. req'[w] = q /\ pc'[w] = "classify" /\ log' = log
  BY <1>1 DEF IInv, TypeOK, BeginFollowUp, Goto
<1>6. /\ q.origin = o /\ q.record.follow_up_of = o /\ q.record.concept = None
      /\ q.record.status = "error"
  BY DEF NoRequest, NoRecord
<1>7. ReqOK(w)'
  BY <1>1, <1>5, <1>6 DEF ReqOK, OriginOK
<1> QED BY <1>4, <1>7, SameRegistry DEF BeginFollowUp

\* The outcome of a pipeline on its way to the log.
LEMMA FinishOK ==
  ASSUME IInv, NEW w \in Workers, NEW record \in LogRecord, Finish(w, record),
         Grows, log' = log,
         record.follow_up_of = req[w].record.follow_up_of,
         record.concept = req[w].record.concept,
         record.status = "answered" =>
           /\ record.concept \in Concepts /\ record.framing \in Pool
           /\ ~ record.degraded => Kept(record)'
           /\ req[w].origin # None => Renews(record)'
  PROVE  /\ pc' \in [Workers -> PC] /\ req' \in [Workers -> Request]
         /\ ReqOK(w)'
<1>1. CASE req[w].detached
  <2>1. pc' = [pc EXCEPT ![w] = "idle"] /\ req' = [req EXCEPT ![w] = NoRequest]
    BY <1>1 DEF Finish, Goto
  <2>2. ReqOK(w)'
    BY <2>1, FreshOK DEF IInv, TypeOK
  <2> QED BY <2>1, <2>2, NoRequestTyped DEF IInv, TypeOK, PC
<1>2. CASE ~ req[w].detached
  <2>1. pc' = [pc EXCEPT ![w] = "log"] /\ req' = [req EXCEPT ![w].record = record]
    BY <1>2 DEF Finish, Goto
  <2>2. req[w] \in Request
    BY DEF IInv, TypeOK
  <2>3. [req[w] EXCEPT !.record = record] \in Request
    BY <2>2 DEF Request
  <2>4. /\ pc'[w] = "log" /\ req'[w].record = record /\ req'[w].origin = req[w].origin
    BY <2>1, <2>2 DEF IInv, TypeOK, Request
  <2>5. ReqOK(w)
    BY DEF IInv
  <2>6. OriginOK(req[w])'
    BY <2>4, <2>5 DEF ReqOK, OriginOK
  <2>7. ReqOK(w)'
    BY <2>4, <2>6 DEF ReqOK
  <2> QED BY <2>1, <2>3, <2>7 DEF IInv, TypeOK, PC
<1> QED BY <1>1, <1>2

LEMMA RecordTyped ==
  ASSUME TypeOK, NEW w \in Workers
  PROVE  req[w] \in Request /\ req[w].record \in LogRecord
BY DEF TypeOK, Request

LEMMA ClassifyOK ==
  ASSUME IInv, NEW w \in Workers, Classify(w)
  PROVE  TypeOK' /\ Grows /\ ReqOK(w)'
<1> DEFINE r == req[w].record
<1>0. req[w] \in Request /\ r \in LogRecord /\ Grows /\ log' = log
  BY RecordTyped, SameRegistry DEF IInv, Classify
<1>1. CASE Finish(w, [r EXCEPT !.status = "not_answerable"])
  <2>1. [r EXCEPT !.status = "not_answerable"] \in LogRecord
    BY <1>0 DEF LogRecord, ResponseStatus
  <2>2. /\ [r EXCEPT !.status = "not_answerable"].follow_up_of = r.follow_up_of
        /\ [r EXCEPT !.status = "not_answerable"].concept = r.concept
        /\ [r EXCEPT !.status = "not_answerable"].status # "answered"
    BY <1>0 DEF LogRecord
  <2> QED BY <1>0, <1>1, <2>1, <2>2, FinishOK DEF IInv, TypeOK, Classify
<1>2. CASE \E concept \in IF req[w].origin # None
                          THEN {log[req[w].origin].concept} ELSE Concepts :
             /\ req' = [req EXCEPT ![w].record.concept = concept]
             /\ Goto(w, "used")
  <2>1. PICK concept \in IF req[w].origin # None
                         THEN {log[req[w].origin].concept} ELSE Concepts :
             /\ req' = [req EXCEPT ![w].record.concept = concept]
             /\ Goto(w, "used")
    BY <1>2
  <2>2. ReqOK(w)
    BY DEF IInv
  <2>3. concept \in Concepts
    BY <2>1, <2>2 DEF IInv, LogOK, EntryOK, ReqOK, OriginOK
  <2>4. [r EXCEPT !.concept = concept] \in LogRecord
    BY <1>0, <2>3 DEF LogRecord
  <2>5. [req[w] EXCEPT !.record = [r EXCEPT !.concept = concept]] \in Request
    BY <1>0, <2>4 DEF Request
  <2>6. TypeOK'
    BY <1>0, <2>1, <2>5 DEF IInv, TypeOK, Classify, Goto, PC
  <2>7. /\ pc'[w] = "used" /\ req'[w].origin = req[w].origin
        /\ req'[w].record = [r EXCEPT !.concept = concept]
    BY <1>0, <2>1 DEF IInv, TypeOK, Goto, Request
  <2>8. /\ req'[w].record.concept = concept /\ req'[w].record.status = r.status
        /\ req'[w].record.follow_up_of = r.follow_up_of
    BY <1>0, <2>7 DEF LogRecord
  <2>9. pc[w] # "log"
    BY DEF Classify, At
  <2>10. ReqOK(w)'
    BY <1>0, <2>1, <2>2, <2>3, <2>7, <2>8, <2>9 DEF ReqOK, OriginOK
  <2> QED BY <1>0, <2>6, <2>10
<1> QED BY <1>1, <1>2 DEF Classify

LEMMA UsedFramingsOK ==
  ASSUME IInv, NEW w \in Workers, UsedFramings(w)
  PROVE  TypeOK' /\ Grows /\ ReqOK(w)'
<1> DEFINE r == req[w].record
           used == framings[r.concept]
<1>0. /\ req[w] \in Request /\ r \in LogRecord /\ Grows /\ log' = log
      /\ pc[w] = "used" /\ ReqOK(w)
  BY RecordTyped, SameRegistry DEF IInv, UsedFramings, At
<1>1. r.concept \in Concepts
  BY <1>0 DEF ReqOK
<1>2. [req[w] EXCEPT !.used = used] \in Request
  BY <1>0, <1>1, PoolAssumption DEF IInv, TypeOK, Request
<1>3. TypeOK'
  BY <1>2 DEF IInv, TypeOK, UsedFramings, Goto, PC
<1>4. /\ pc'[w] = "previous" /\ req'[w].origin = req[w].origin
      /\ req'[w].record = r /\ req'[w].used = used
  BY <1>0 DEF IInv, TypeOK, UsedFramings, Goto, Request
<1>5. req[w].origin # None => \A i \in 1..req[w].origin : i \in DOMAIN log
  BY <1>0 DEF IInv, TypeOK, ReqOK, OriginOK
<1>6. req[w].origin # None => \A i \in 1..req[w].origin : Seen(i, r) => log[i].framing \in used
  BY <1>5 DEF IInv, LogOK, EntryOK, Kept, Seen
<1>7. OriginOK(req[w])'
  BY <1>0, <1>4 DEF ReqOK, OriginOK
<1>8. \A i : Seen(i, r)' <=> Seen(i, r)
  BY <1>0, <1>4 DEF Seen, Remembered
<1>9. ReqOK(w)'
  BY <1>0, <1>1, <1>4, <1>6, <1>7, <1>8 DEF ReqOK
<1> QED BY <1>0, <1>3, <1>9

\* The framing chosen is in the pool and unused.
LEMMA SelectsUnused ==
  ASSUME NEW action, NEW used, select_framing(action, used) # None
  PROVE  select_framing(action, used) \in Pool \ used
<1> DEFINE order == Preference(action)
           unused == {i \in DOMAIN order : order[i] \in Pool \ used}
           first == CHOOSE i \in unused : \A j \in unused : i <= j
<1>1. unused # {} /\ select_framing(action, used) = order[first]
  BY DEF select_framing
<1>2. \E n \in Nat : DOMAIN order = 1..n
  BY DEF Preference
<1>3. unused \subseteq Nat
  BY <1>2
<1>4. \E i \in unused : \A j \in unused : i <= j
  <2>1. unused \subseteq 1..6
    BY DEF Preference
  <2> DEFINE least == IF 1 \in unused THEN 1 ELSE IF 2 \in unused THEN 2
                      ELSE IF 3 \in unused THEN 3 ELSE IF 4 \in unused THEN 4
                      ELSE IF 5 \in unused THEN 5 ELSE 6
  <2>2. unused # {}
    BY <1>1
  <2> HIDE DEF unused
  <2>3. \A j \in unused : j \in {1, 2, 3, 4, 5, 6}
    BY <2>1
  <2>4. least \in unused
    BY <2>2, <2>3
  <2>5. \A j \in unused : least <= j
    BY <2>3
  <2> QED BY <2>4, <2>5
<1>5. first \in unused
  BY <1>4
<1> QED BY <1>1, <1>5

LEMMA PreviousExplanationsOK ==
  ASSUME IInv, NEW w \in Workers, PreviousExplanations(w)
  PROVE  TypeOK' /\ Grows /\ ReqOK(w)'
<1> DEFINE r == req[w].record
           chosen == select_framing(req[w].action, req[w].used)
           previous == explanations[r.concept]
<1>0. /\ req[w] \in Request /\ r \in LogRecord /\ Grows /\ log' = log
      /\ pc[w] = "previous" /\ ReqOK(w)
  BY RecordTyped, SameRegistry DEF IInv, PreviousExplanations, At
<1>1. r.concept \in Concepts
  BY <1>0 DEF ReqOK
<1>2. CASE chosen = None
  <2>1. Finish(w, [r EXCEPT !.status = "framings_exhausted"])
    BY <1>2 DEF PreviousExplanations
  <2>2. [r EXCEPT !.status = "framings_exhausted"] \in LogRecord
    BY <1>0 DEF LogRecord, ResponseStatus
  <2>3. /\ [r EXCEPT !.status = "framings_exhausted"].follow_up_of = r.follow_up_of
        /\ [r EXCEPT !.status = "framings_exhausted"].concept = r.concept
        /\ [r EXCEPT !.status = "framings_exhausted"].status # "answered"
    BY <1>0 DEF LogRecord
  <2> QED BY <1>0, <2>1, <2>2, <2>3, FinishOK DEF IInv, TypeOK, PreviousExplanations
<1>3. CASE chosen # None
  <2>1. /\ req' = [req EXCEPT ![w].action = None, ![w].used = {},
                              ![w].previous = previous, ![w].record.framing = chosen]
        /\ pc' = [pc EXCEPT ![w] = "generate"]
    BY <1>3 DEF PreviousExplanations, Goto
  <2>2. chosen \in Pool /\ chosen \notin req[w].used /\ chosen \in FramingStrategy
    BY <1>3, SelectsUnused, PoolAssumption
  <2>3. previous \in Seq(SUBSET Words)
    BY <1>1 DEF IInv, TypeOK
  <2> HIDE DEF chosen, previous
  <2>4. [r EXCEPT !.framing = chosen] \in LogRecord
    BY <1>0, <2>2 DEF LogRecord
  <2>5. req'[w] \in Request
    <3>1. req'[w] = [req[w] EXCEPT !.action = None, !.used = {}, !.previous = previous,
                                   !.record = [r EXCEPT !.framing = chosen]]
      BY <2>1 DEF IInv, TypeOK
    <3>2. [req[w] EXCEPT !.action = None, !.used = {}] \in Request
      BY <1>0 DEF Request
    <3>3. [req[w] EXCEPT !.action = None, !.used = {}, !.previous = previous] \in Request
      BY <3>2, <2>3 DEF Request
    <3> QED BY <3>1, <3>3, <2>4 DEF Request
  <2>6. TypeOK'
    BY <2>1, <2>5 DEF IInv, TypeOK, PreviousExplanations, PC
  <2>7. /\ pc'[w] = "generate" /\ req'[w].origin = req[w].origin
        /\ req'[w].record = [r EXCEPT !.framing = chosen] /\ req'[w].previous = previous
    BY <1>0, <2>1 DEF IInv, TypeOK, Request
  <2>8. /\ req'[w].record.concept = r.concept /\ req'[w].record.status = r.status
        /\ req'[w].record.follow_up_of = r.follow_up_of
        /\ req'[w].record.framing = chosen
    BY <1>0, <2>7 DEF LogRecord
  <2>9. OriginOK(req[w])'
    BY <1>0, <2>7, <2>8 DEF ReqOK, OriginOK
  <2>10. \A i : Seen(i, req[w].record)' <=> Seen(i, r)
    BY <1>0, <2>8 DEF Seen, Remembered
  <2>11. req[w].origin # None => \A i \in 1..req[w].origin : i \in DOMAIN log
    BY <1>0 DEF IInv, TypeOK, ReqOK, OriginOK
  <2>12. req[w].origin # None => \A i \in 1..req[w].origin : Seen(i, r) =>
           /\ log[i].framing # chosen
           /\ \E k \in DOMAIN previous : previous[k] = log[i].text
    <3> SUFFICES ASSUME req[w].origin # None, NEW i \in 1..req[w].origin, Seen(i, r)
                 PROVE  /\ log[i].framing # chosen
                        /\ \E k \in DOMAIN previous : previous[k] = log[i].text
      OBVIOUS
    <3>1. log[i].framing \in req[w].used
      BY <1>0 DEF ReqOK
    <3>2. Kept(log[i]) /\ log[i].concept = r.concept
      BY <2>11 DEF IInv, LogOK, EntryOK, Seen
    <3> QED BY <2>2, <3>1, <3>2 DEF Kept, previous
  <2>13. ReqOK(w)'
    BY <1>0, <1>1, <2>2, <2>7, <2>8, <2>9, <2>10, <2>12 DEF ReqOK
  <2> QED BY <1>0, <2>6, <2>13
<1> QED BY <1>2, <1>3

LEMMA RegistryUnreadableOK ==
  ASSUME IInv, NEW w \in Workers, RegistryUnreadable(w)
  PROVE  TypeOK' /\ Grows /\ ReqOK(w)'
<1> DEFINE r == [req[w].record EXCEPT !.degraded = TRUE]
<1>0. /\ req[w] \in Request /\ req[w].record \in LogRecord /\ Grows /\ log' = log
      /\ pc[w] \in {"used", "previous"} /\ ReqOK(w)
  BY RecordTyped, SameRegistry DEF IInv, RegistryUnreadable
<1>1. /\ r \in LogRecord /\ r.follow_up_of = req[w].record.follow_up_of
      /\ r.concept = req[w].record.concept /\ r.status = req[w].record.status
  BY <1>0 DEF LogRecord
<1>2. r.status # "answered" /\ r.concept \in Concepts
  BY <1>0, <1>1 DEF ReqOK
<1>3. CASE req[w].origin # None
  <2>1. Finish(w, r)
    BY <1>3 DEF RegistryUnreadable
  <2> HIDE DEF r
  <2> QED BY <1>0, <1>1, <1>2, <2>1, FinishOK DEF IInv, TypeOK, RegistryUnreadable
<1>4. CASE req[w].origin = None
  <2> DEFINE s == [r EXCEPT !.framing = INITIAL_FRAMING]
  <2>1. /\ req' = [req EXCEPT ![w].used = {}, ![w].record = s]
        /\ pc' = [pc EXCEPT ![w] = "generate"]
    BY <1>4 DEF RegistryUnreadable, Goto
  <2>2. INITIAL_FRAMING \in Pool /\ INITIAL_FRAMING \in FramingStrategy
    BY PoolAssumption
  <2>3. /\ s \in LogRecord /\ s.follow_up_of = r.follow_up_of /\ s.concept = r.concept
        /\ s.status = r.status /\ s.framing = INITIAL_FRAMING
    BY <1>1, <2>2 DEF LogRecord
  <2> HIDE DEF r, s
  <2>4. [req[w] EXCEPT !.used = {}, !.record = s] \in Request
    BY <1>0, <2>3 DEF Request
  <2>5. TypeOK'
    BY <2>1, <2>4 DEF IInv, TypeOK, RegistryUnreadable, PC
  <2>6. /\ pc'[w] = "generate" /\ req'[w].origin = req[w].origin /\ req'[w].record = s
    BY <1>0, <2>1 DEF IInv, TypeOK, Request
  <2>7. ReqOK(w)'
    BY <1>0, <1>1, <1>2, <1>4, <2>2, <2>3, <2>6 DEF ReqOK, OriginOK
  <2> QED BY <1>0, <2>5, <2>7
<1> QED BY <1>3, <1>4

\* A text that repeats none of the earlier ones does not repeat one of them.
LEMMA ParaphraseOfOne ==
  ASSUME NEW text, NEW previous, NEW k \in DOMAIN previous,
         ~ is_paraphrase(text, previous)
  PROVE  ~ is_paraphrase(text, <<previous[k]>>)
<1>1. DOMAIN <<previous[k]>> = {1} /\ <<previous[k]>>[1] = previous[k]
  OBVIOUS
<1>2. \A i \in DOMAIN <<previous[k]>> : <<previous[k]>>[i] = previous[k]
  BY <1>1
<1> QED BY <1>2 DEF is_paraphrase

LEMMA ScrubTyped ==
  ASSUME NEW prose \in Prose, NEW allowed
  PROVE  scrub(prose, allowed) \in SUBSET Words
<1>1. prose \subseteq Words /\ REDACTION \subseteq Words
  <2>1. \A word \in prose : word \in UNION (Prose \cup Citations)
    OBVIOUS
  <2> QED BY <2>1 DEF Words
<1>2. \A bad : (prose \ bad) \cup REDACTION \subseteq Words
  BY <1>1
<1> QED BY <1>1, <1>2 DEF scrub

LEMMA GenerateOK ==
  ASSUME IInv, NEW w \in Workers, Generate(w)
  PROVE  TypeOK' /\ Grows /\ ReqOK(w)'
<1> DEFINE r == req[w].record
<1>0. /\ req[w] \in Request /\ r \in LogRecord /\ Grows /\ log' = log
      /\ pc[w] = "generate" /\ ReqOK(w)
  BY RecordTyped, SameRegistry DEF IInv, Generate, At
<1>1. r.status # "answered" /\ r.concept \in Concepts /\ r.framing \in Pool
  BY <1>0 DEF ReqOK
<1>2. PICK prose \in Prose, allowed \in {{}} \cup {{c} : c \in Citations} :
        IF is_paraphrase(prose, req[w].previous)
        THEN Finish(w, r)
        ELSE /\ req' = [req EXCEPT ![w].previous = <<>>,
                         ![w].record.text = scrub(prose, allowed),
                         ![w].record.redacted = (scrub(prose, allowed) # prose)]
             /\ Goto(w, "record")
  BY DEF Generate
<1> DEFINE text == scrub(prose, allowed)
<1>3. CASE is_paraphrase(prose, req[w].previous)
  <2>1. Finish(w, r)
    BY <1>2, <1>3
  <2> QED BY <1>0, <1>1, <2>1, FinishOK DEF IInv, TypeOK, Generate
<1>4. CASE ~ is_paraphrase(prose, req[w].previous)
  <2> DEFINE s == [r EXCEPT !.text = text, !.redacted = (text # prose)]
  <2>1. /\ req' = [req EXCEPT ![w].previous = <<>>, ![w].record.text = text,
                              ![w].record.redacted = (text # prose)]
        /\ pc' = [pc EXCEPT ![w] = "record"]
    BY <1>2, <1>4 DEF Goto
  <2>2. text \in SUBSET Words
    BY ScrubTyped
  <2> HIDE DEF text
  <2>3. (text # prose) \in BOOLEAN
    OBVIOUS
  <2>4. s \in LogRecord
    BY <1>0, <2>2, <2>3 DEF LogRecord
  <2>5. /\ s.text = text /\ s.redacted = (text # prose) /\ s.concept = r.concept
        /\ s.status = r.status /\ s.framing = r.framing /\ s.follow_up_of = r.follow_up_of
    BY <1>0 DEF LogRecord
  <2>6. req'[w] = [req[w] EXCEPT !.previous = <<>>, !.record = s]
    BY <2>1 DEF IInv, TypeOK
  <2> HIDE DEF s
  <2>7. req'[w] \in Request
    <3>1. <<>> \in Seq(SUBSET Words)
      OBVIOUS
    <3>2. [req[w] EXCEPT !.previous = <<>>] \in Request
      BY <1>0, <3>1 DEF Request
    <3> QED BY <2>4, <2>6, <3>2 DEF Request
  <2>8. TypeOK'
    BY <2>1, <2>7 DEF IInv, TypeOK, Generate, PC
  <2>9. pc'[w] = "record" /\ req'[w].origin = req[w].origin /\ req'[w].record = s
    BY <1>0, <2>1, <2>6 DEF IInv, TypeOK, Request
  <2>10. ASSUME req[w].origin # None
         PROVE  Renews(s)
    <3>1. s.follow_up_of = req[w].origin
      BY <1>0, <2>5 DEF ReqOK, OriginOK
    <3>2. SUFFICES ASSUME NEW i \in 1..req[w].origin, Seen(i, r)
                   PROVE  /\ log[i].framing # s.framing
                          /\ s.redacted \/ ~ is_paraphrase(s.text, <<log[i].text>>)
      BY <1>0, <2>5, <3>1 DEF Renews, Seen, Remembered
    <3>3. /\ log[i].framing # r.framing
          /\ \E k \in DOMAIN req[w].previous : req[w].previous[k] = log[i].text
      BY <1>0, <2>10, <3>2 DEF ReqOK
    <3>4. ~ is_paraphrase(prose, <<log[i].text>>)
      BY <1>4, <3>3, ParaphraseOfOne
    <3> QED BY <2>5, <3>3, <3>4
  <2>11. ReqOK(w)'
    <3>1. OriginOK(req[w])'
      BY <1>0, <2>5, <2>9 DEF ReqOK, OriginOK
    <3>2. req[w].origin # None => Renews(req[w].record)'
      BY <1>0, <2>9, <2>10 DEF Renews, Remembered
    <3> QED BY <1>1, <2>5, <2>9, <3>1, <3>2 DEF ReqOK
  <2> QED BY <1>0, <2>8, <2>11
<1> QED BY <1>3, <1>4

\* A record_framing that reaches the registry.
LEMMA RegistryWrite ==
  ASSUME TypeOK, NEW c \in Concepts, NEW f \in Pool, NEW text \in SUBSET Words,
         framings' = [framings EXCEPT ![c] = @ \cup {f}],
         explanations' = [explanations EXCEPT ![c] = Append(@, text)],
         log' = log
  PROVE  /\ framings' \in [Concepts -> SUBSET Pool]
         /\ explanations' \in [Concepts -> Seq(SUBSET Words)]
         /\ Grows
         /\ f \in framings'[c]
         /\ \E k \in DOMAIN explanations'[c] : explanations'[c][k] = text
<1>1. framings' \in [Concepts -> SUBSET Pool] /\ f \in framings'[c]
  BY DEF TypeOK
<1>2. explanations[c] \in Seq(SUBSET Words)
  BY DEF TypeOK
<1>3. /\ Append(explanations[c], text) \in Seq(SUBSET Words)
      /\ Len(Append(explanations[c], text)) = Len(explanations[c]) + 1
      /\ Append(explanations[c], text)[Len(explanations[c]) + 1] = text
      /\ \A k \in DOMAIN explanations[c] :
           /\ k \in DOMAIN Append(explanations[c], text)
           /\ Append(explanations[c], text)[k] = explanations[c][k]
  BY <1>2
<1>4. explanations'[c] = Append(explanations[c], text)
  BY DEF TypeOK
<1>5. explanations' \in [Concepts -> Seq(SUBSET Words)]
  BY <1>3 DEF TypeOK
<1>6. \E k \in DOMAIN explanations'[c] : explanations'[c][k] = text
  BY <1>2, <1>3, <1>4, Len(explanations[c]) + 1 \in DOMAIN Append(explanations[c], text)
<1>7. \A d \in Concepts :
        /\ framings[d] \subseteq framings'[d]
        /\ d # c => explanations'[d] = explanations[d]
  BY DEF TypeOK
<1>8. Grows
  BY <1>3, <1>4, <1>7 DEF Grows
<1> QED BY <1>1, <1>5, <1>6, <1>8

LEMMA RenewsLike ==
  ASSUME NEW r, NEW s, Renews(s), log' = log,
         r.concept = s.concept, r.framing = s.framing, r.text = s.text,
         r.redacted = s.redacted, r.follow_up_of = s.follow_up_of
  PROVE  Renews(r)'
BY DEF Renews, Remembered

LEMMA RecordFramingOK ==
  ASSUME IInv, NEW w \in Workers, RecordFraming(w)
  PROVE  TypeOK' /\ Grows /\ ReqOK(w)'
<1> DEFINE s == req[w].record
<1>0. /\ req[w] \in Request /\ s \in LogRecord /\ log' = log
      /\ pc[w] = "record" /\ ReqOK(w)
  BY RecordTyped DEF IInv, RecordFraming, At
<1>1. PICK r : r = [s EXCEPT !.status = "answered"]
  OBVIOUS
<1>2. PICK q : q = [r EXCEPT !.degraded = TRUE]
  OBVIOUS
<1>3. /\ r \in LogRecord /\ r.follow_up_of = s.follow_up_of /\ r.concept = s.concept
      /\ r.framing = s.framing /\ r.text = s.text /\ r.redacted = s.redacted
      /\ r.text \in SUBSET Words
  BY <1>0, <1>1 DEF LogRecord, ResponseStatus
<1>4. /\ q \in LogRecord /\ q.follow_up_of = s.follow_up_of /\ q.concept = s.concept
      /\ q.framing = s.framing /\ q.text = s.text /\ q.redacted = s.redacted
      /\ q.degraded
  BY <1>2, <1>3 DEF LogRecord
<1>5. s.concept \in Concepts /\ s.framing \in Pool
  BY <1>0 DEF ReqOK
<1>6. PICK t : t = s
  OBVIOUS
<1>7. req[w].origin # None => Renews(t)
  BY <1>0, <1>6 DEF ReqOK
<1>8. req[w].origin # None => Renews(r)' /\ Renews(q)'
  BY <1>0, <1>3, <1>4, <1>6, <1>7, RenewsLike
<1>9. CASE /\ framings' = [framings EXCEPT ![r.concept] = @ \cup {r.framing}]
           /\ explanations' = [explanations EXCEPT ![r.concept] = Append(@, r.text)]
           /\ Finish(w, r)
  <2>1. r.concept \in Concepts /\ r.framing \in Pool
    BY <1>3, <1>5
  <2>2. /\ framings' \in [Concepts -> SUBSET Pool]
        /\ explanations' \in [Concepts -> Seq(SUBSET Words)]
        /\ Grows /\ Kept(r)'
    <3>1. /\ TypeOK /\ r.text \in SUBSET Words /\ log' = log
          /\ framings' = [framings EXCEPT ![r.concept] = @ \cup {r.framing}]
          /\ explanations' = [explanations EXCEPT ![r.concept] = Append(@, r.text)]
      BY <1>0, <1>3, <1>9 DEF IInv
    <3>2. PICK c \in Concepts, f \in Pool, text \in SUBSET Words :
            c = r.concept /\ f = r.framing /\ text = r.text
      BY <2>1, <3>1
    <3>3. /\ framings' = [framings EXCEPT ![c] = @ \cup {f}]
          /\ explanations' = [explanations EXCEPT ![c] = Append(@, text)]
      BY <3>1, <3>2
    <3>4. /\ framings' \in [Concepts -> SUBSET Pool]
          /\ explanations' \in [Concepts -> Seq(SUBSET Words)]
          /\ Grows
          /\ f \in framings'[c]
          /\ \E k \in DOMAIN explanations'[c] : explanations'[c][k] = text
      <4>1. TypeOK /\ log' = log
        BY <3>1
      <4> QED BY <3>3, <4>1, RegistryWrite
    <3> QED BY <3>2, <3>4 DEF Kept
  <2> QED BY <1>0, <1>3, <1>8, <1>9, <2>1, <2>2, FinishOK DEF IInv, TypeOK
<1>10. CASE Finish(w, q) /\ UNCHANGED <<framings, explanations>>
  <2>1. Grows
    BY <1>0, <1>10, SameRegistry
  <2> QED BY <1>0, <1>4, <1>5, <1>8, <1>10, <2>1, FinishOK DEF IInv, TypeOK
<1>11. \/ /\ framings' = [framings EXCEPT ![r.concept] = @ \cup {r.framing}]
          /\ explanations' = [explanations EXCEPT ![r.concept] = Append(@, r.text)]
          /\ Finish(w, r)
       \/ Finish(w, q) /\ UNCHANGED <<framings, explanations>>
  BY <1>1, <1>2 DEF RecordFraming
<1> QED BY <1>9, <1>10, <1>11

LEMMA PipelineFailsOK ==
  ASSUME IInv, NEW w \in Workers, PipelineFails(w)
  PROVE  TypeOK' /\ Grows /\ ReqOK(w)'
<1> DEFINE r == [req[w].record EXCEPT !.status = "error"]
<1>0. req[w].record \in LogRecord /\ Grows /\ log' = log /\ Finish(w, r)
  BY RecordTyped, SameRegistry DEF IInv, PipelineFails
<1>1. /\ r \in LogRecord /\ r.follow_up_of = req[w].record.follow_up_of
      /\ r.concept = req[w].record.concept /\ r.status # "answered"
  BY <1>0 DEF LogRecord, ResponseStatus
<1> HIDE DEF r
<1> QED BY <1>0, <1>1, FinishOK DEF IInv, TypeOK, PipelineFails

LEMMA DeadlineOK ==
  ASSUME IInv, NEW w \in Workers, Deadline(w)
  PROVE  TypeOK' /\ Grows /\ ReqOK(w)'
<1> DEFINE r == req[w].record
           s == [r EXCEPT !.status = "timeout", !.text = {}]
<1>0. /\ req[w] \in Request /\ r \in LogRecord /\ log' = log /\ ReqOK(w)
      /\ r.text \in SUBSET Words
  BY RecordTyped DEF IInv, Deadline, LogRecord
<1>1. /\ Grows /\ framings' \in [Concepts -> SUBSET Pool]
      /\ explanations' \in [Concepts -> Seq(SUBSET Words)]
  <2>1. CASE UNCHANGED <<framings, explanations>>
    BY <1>0, <2>1, SameRegistry DEF IInv, TypeOK
  <2>2. CASE /\ At(w, "record")
             /\ framings' = [framings EXCEPT ![r.concept] = @ \cup {r.framing}]
             /\ explanations' = [explanations EXCEPT ![r.concept] = Append(@, r.text)]
    <3>1. r.concept \in Concepts /\ r.framing \in Pool
      BY <1>0, <2>2 DEF ReqOK, At
    <3> QED BY <1>0, <2>2, <3>1, RegistryWrite DEF IInv
  <2> QED BY <2>1, <2>2 DEF Deadline
<1>2. /\ s \in LogRecord /\ s.follow_up_of = r.follow_up_of /\ s.concept = r.concept
      /\ s.status = "timeout"
  BY <1>0 DEF LogRecord, ResponseStatus
<1>3. /\ pc' = [pc EXCEPT ![w] = "log"]
      /\ req' = [req EXCEPT ![w].record.status = "timeout", ![w].record.text = {}]
  BY DEF Deadline, Goto
<1>4. req'[w] = [req[w] EXCEPT !.record = s]
  BY <1>0, <1>3 DEF IInv, TypeOK, Request
<1> HIDE DEF s
<1>5. req'[w] \in Request
  BY <1>0, <1>2, <1>4 DEF Request
<1>6. TypeOK'
  BY <1>0, <1>1, <1>3, <1>5 DEF IInv, TypeOK, PC
<1>7. pc'[w] = "log" /\ req'[w].record = s /\ req'[w].origin = req[w].origin
  BY <1>0, <1>3, <1>4 DEF IInv, TypeOK, Request
<1>8. ReqOK(w)'
  BY <1>0, <1>2, <1>7 DEF ReqOK, OriginOK
<1> QED BY <1>1, <1>6, <1>8

LEMMA DisconnectOK ==
  ASSUME IInv, NEW w \in Workers, Disconnect(w)
  PROVE  TypeOK' /\ Grows /\ ReqOK(w)'
<1>0. /\ req[w] \in Request /\ Grows /\ log' = log /\ ReqOK(w)
      /\ req[w].origin = None
  BY RecordTyped, SameRegistry DEF IInv, Disconnect
<1>1. CASE /\ pc[w] \in PipelineSteps
           /\ req' = [req EXCEPT ![w].detached = TRUE]
           /\ UNCHANGED pc
  <2>1. [req[w] EXCEPT !.detached = TRUE] \in Request
    BY <1>0 DEF Request
  <2>2. TypeOK'
    BY <1>1, <2>1 DEF IInv, TypeOK, Disconnect
  <2>3. /\ pc'[w] = pc[w] /\ pc[w] # "log" /\ req'[w].record = req[w].record
        /\ req'[w].origin = None
    BY <1>0, <1>1 DEF IInv, TypeOK, PipelineSteps, Request
  <2>4. ReqOK(w)'
    BY <1>0, <2>3 DEF ReqOK, OriginOK
  <2> QED BY <1>0, <2>2, <2>4
<1>2. CASE Goto(w, "idle") /\ req' = [req EXCEPT ![w] = NoRequest]
  <2>1. TypeOK'
    BY <1>2, NoRequestTyped DEF IInv, TypeOK, Disconnect, Goto, PC
  <2>2. ReqOK(w)'
    BY <1>2, FreshOK DEF IInv, TypeOK, Goto
  <2> QED BY <1>0, <2>1, <2>2
<1> QED BY <1>1, <1>2 DEF Disconnect

LEMMA WriteLogOK ==
  ASSUME IInv, NEW w \in Workers, WriteLog(w)
  PROVE  TypeOK' /\ Grows /\ LogOK' /\ ReqOK(w)'
<1>0. /\ req[w].record \in LogRecord /\ log \in Seq(LogRecord) /\ pc[w] = "log"
      /\ ReqOK(w) /\ TypeOK /\ LogOK
  BY RecordTyped DEF IInv, TypeOK, WriteLog, At
<1>1. UNCHANGED <<framings, explanations>> /\ pc' = [pc EXCEPT ![w] = "idle"]
      /\ req' = [req EXCEPT ![w] = NoRequest]
  BY DEF WriteLog, Goto
<1>2. ReqOK(w)'
  BY <1>0, <1>1, FreshOK DEF TypeOK
<1>3. CASE UNCHANGED log
  <2>1. Grows
    BY <1>1, <1>3, SameRegistry
  <2>2. TypeOK'
    BY <1>0, <1>1, <1>3, NoRequestTyped DEF TypeOK, PC
  <2> QED BY <1>0, <1>2, <1>3, <2>1, <2>2, LogKeeps
<1>4. CASE log' = Append(log, req[w].record)
  <2>1. PICK r \in LogRecord : r = req[w].record
    BY <1>0
  <2>2. PICK n \in Nat : n = Len(log) + 1
    BY <1>0
  <2>3. /\ log' \in Seq(LogRecord) /\ DOMAIN log' = 1..n /\ log'[n] = r
        /\ DOMAIN log = 1..(n - 1)
        /\ \A j \in DOMAIN log : log'[j] = log[j]
    BY <1>0, <1>4, <2>1, <2>2
  <2>4. Grows
    BY <1>1, <2>2, <2>3 DEF Grows
  <2>5. TypeOK'
    BY <1>0, <1>1, <2>3, NoRequestTyped DEF TypeOK, PC
  <2>6. LogOK'
    <3> SUFFICES ASSUME NEW j \in 1..n, NEW e, e = log'[j]
                 PROVE  EntryOK(e, j)'
      BY <2>3 DEF LogOK, EntryOK, Remembered, Kept, Renews
    <3>1. j \in 1..(Len(log) + 1)
      BY <2>2
    <3>2. CASE j \in DOMAIN log
      BY <1>0, <2>3, <2>4, <3>1, <3>2, EntryGrows DEF LogOK
    <3>3. CASE j = n
      <4>1. e = r
        BY <2>3, <3>3
      <4>2. EntryOK(r, n)
        BY <1>0, <2>1, <2>3 DEF EntryOK, ReqOK, OriginOK, Remembered
      <4> QED BY <1>0, <2>4, <3>1, <3>3, <4>1, <4>2, EntryGrows
    <3> QED BY <2>3, <3>2, <3>3
  <2> QED BY <1>2, <2>4, <2>5, <2>6
<1> QED BY <1>3, <1>4 DEF WriteLog

-----------------------------------------------------------------------------
(* The invariant is inductive. *)

LEMMA InitOK == Init => IInv
<1> SUFFICES ASSUME Init PROVE IInv
  OBVIOUS
<1>1. <<>> \in Seq(SUBSET Words) /\ <<>> \in Seq(LogRecord)
  OBVIOUS
<1>2. TypeOK
  BY <1>1, NoRequestTyped DEF Init, TypeOK, PC
<1>3. LogOK
  BY DEF Init, LogOK
<1>4. ASSUME NEW w \in Workers PROVE ReqOK(w)
  BY DEF Init, ReqOK, OriginOK, NoRequest, NoRecord
<1> QED BY <1>2, <1>3, <1>4 DEF IInv

\* A step of one request leaves every other request where it is.
LEMMA OnlyOneMoves ==
  ASSUME IInv, NEW w \in Workers, Driver(w) \/ Pipeline(w),
         NEW v \in Workers, v # w
  PROVE  pc'[v] = pc[v] /\ req'[v] = req[v]
BY DEF IInv, TypeOK, Driver, Pipeline, BeginAsk, RefuseAsk, BeginFollowUp, Deadline,
       Disconnect, WriteLog, Classify, UsedFramings, PreviousExplanations,
       RegistryUnreadable, Generate, RecordFraming, PipelineFails, Finish, Goto

LEMMA StepOK ==
  ASSUME IInv, NEW w \in Workers, Driver(w) \/ Pipeline(w)
  PROVE  TypeOK' /\ Grows /\ LogOK' /\ ReqOK(w)'
<1>0. TypeOK /\ LogOK
  BY DEF IInv
<1>1. CASE BeginAsk(w)
  BY <1>0, <1>1, BeginAskOK, LogKeeps DEF BeginAsk
<1>2. CASE RefuseAsk(w)
  BY <1>0, <1>2, RefuseAskOK, LogKeeps DEF RefuseAsk
<1>3. CASE BeginFollowUp(w)
  BY <1>0, <1>3, BeginFollowUpOK, LogKeeps DEF BeginFollowUp
<1>4. CASE Deadline(w)
  BY <1>0, <1>4, DeadlineOK, LogKeeps DEF Deadline
<1>5. CASE Disconnect(w)
  BY <1>0, <1>5, DisconnectOK, LogKeeps DEF Disconnect
<1>6. CASE WriteLog(w)
  BY <1>6, WriteLogOK
<1>7. CASE Classify(w)
  BY <1>0, <1>7, ClassifyOK, LogKeeps DEF Classify
<1>8. CASE UsedFramings(w)
  BY <1>0, <1>8, UsedFramingsOK, LogKeeps DEF UsedFramings
<1>9. CASE PreviousExplanations(w)
  BY <1>0, <1>9, PreviousExplanationsOK, LogKeeps DEF PreviousExplanations
<1>10. CASE RegistryUnreadable(w)
  BY <1>0, <1>10, RegistryUnreadableOK, LogKeeps DEF RegistryUnreadable
<1>11. CASE Generate(w)
  BY <1>0, <1>11, GenerateOK, LogKeeps DEF Generate
<1>12. CASE RecordFraming(w)
  BY <1>0, <1>12, RecordFramingOK, LogKeeps DEF RecordFraming
<1>13. CASE PipelineFails(w)
  BY <1>0, <1>13, PipelineFailsOK, LogKeeps DEF PipelineFails
<1> QED BY <1>1, <1>2, <1>3, <1>4, <1>5, <1>6, <1>7, <1>8, <1>9, <1>10, <1>11,
           <1>12, <1>13 DEF Driver, Pipeline

LEMMA NextOK == IInv /\ [Next]_vars => IInv'
<1>1. ASSUME IInv, UNCHANGED vars PROVE IInv'
  <2>1. TypeOK'
    BY <1>1 DEF vars, IInv, TypeOK
  <2>2. LogOK'
    <3>1. log' = log /\ framings' = framings /\ explanations' = explanations /\ LogOK
      BY <1>1 DEF vars, IInv
    <3>2. ASSUME NEW e PROVE Renews(e)' <=> Renews(e)
      BY <3>1 DEF Renews, Seen, Remembered
    <3>3. ASSUME NEW e PROVE Kept(e)' <=> Kept(e)
      BY <3>1 DEF Kept
    <3>4. ASSUME NEW j \in DOMAIN log PROVE EntryOK(log[j], j)'
      <4>1. EntryOK(log[j], j)
        BY <3>1 DEF LogOK
      <4>2. PICK e : e = log[j] /\ e = log'[j]
        BY <3>1
      <4>3. EntryOK(e, j)'
        BY <3>1, <3>2, <3>3, <4>1, <4>2 DEF EntryOK, Remembered
      <4> QED BY <4>2, <4>3
    <3> QED BY <3>1, <3>4 DEF LogOK
  <2>3. ASSUME NEW w \in Workers PROVE ReqOK(w)'
    <3>1. UNCHANGED <<log, framings, explanations, pc, req>> /\ ReqOK(w)
      BY <1>1 DEF vars, IInv
    <3>2. ASSUME NEW e PROVE Renews(e)' <=> Renews(e)
      BY <3>1 DEF Renews, Seen, Remembered
    <3>3. ASSUME NEW e PROVE Kept(e)' <=> Kept(e)
      BY <3>1 DEF Kept
    <3>4. ASSUME NEW e, NEW i PROVE Seen(i, e)' <=> Seen(i, e)
      BY <3>1 DEF Seen, Remembered
    <3>5. OriginOK(req[w])'
      BY <3>1 DEF ReqOK, OriginOK
    <3> QED BY <3>1, <3>2, <3>3, <3>4, <3>5 DEF ReqOK
  <2> QED BY <1>1, <2>1, <2>2, <2>3 DEF IInv
<1>2. ASSUME IInv, NEW w \in Workers, Driver(w) \/ Pipeline(w)
      PROVE  IInv'
  <2>1. TypeOK /\ TypeOK' /\ Grows /\ LogOK' /\ ReqOK(w)'
    BY <1>2, StepOK DEF IInv
  <2>2. ASSUME NEW v \in Workers, v # w PROVE ReqOK(v)'
    <3>1. pc'[v] = pc[v] /\ req'[v] = req[v]
      BY <1>2, <2>2, OnlyOneMoves
    <3> QED BY <1>2, <2>1, <3>1, OthersOK DEF IInv
  <2> QED BY <2>1, <2>2 DEF IInv
<1> QED BY <1>1, <1>2 DEF Next

LEMMA Invariance == Spec => []IInv
BY InitOK, NextOK, PTL DEF Spec

-----------------------------------------------------------------------------

\* Every variable keeps its type: above all, a request that may be recorded has
\* a concept of the registry and a framing of the pool, so _record_framing
\* never meets the None a record starts with.
THEOREM TypeCorrect == Spec => []TypeOK
<1>1. IInv => TypeOK
  BY DEF IInv
<1> QED BY <1>1, Invariance, PTL

\* What a logged answer says it explained, and how, is in the registry, unless
\* the answer notes the registry's failure: for any interleaving of any number
\* of requests with deadlines, disconnects and failures.
THEOREM FramingsKept == Spec => []FramingRemembered
<1>1. IInv => FramingRemembered
  BY DEF IInv, LogOK, EntryOK, FramingRemembered, Remembered
<1> QED BY <1>1, Invariance, PTL

\* A follow-up never explains in the way an answer up to the one it follows
\* did, nor shows a paraphrase of it unless a citation was taken out: the
\* registry is read before the prose is made, and it never forgets.
THEOREM FollowUpsRenew == Spec => []FollowUpIsNew
<1>1. IInv => FollowUpIsNew
  BY DEF IInv, LogOK, EntryOK, FollowUpIsNew
<1> QED BY <1>1, Invariance, PTL

\* A follow-up's origin is an earlier answer of the log, and whatever becomes
\* of the follow-up is logged under that answer's concept or under none.
THEOREM FollowUpsStay == Spec => []FollowUpStaysOnConcept
<1>1. IInv => FollowUpStaysOnConcept
  BY DEF IInv, LogOK, EntryOK, FollowUpStaysOnConcept
<1> QED BY <1>1, Invariance, PTL

=============================================================================
