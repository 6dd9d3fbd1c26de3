----------------------------- MODULE ReportsProofs -----------------------------
(***************************************************************************)
(* What is proved of the composed reports: that each keeps its types, that *)
(* the weekly summary (UC-08) is of its week, that the day streak counts   *)
(* what was earned, and that inactivity alone resets it.                   *)
(***************************************************************************)
EXTENDS MCReports, SessionSummaryProofs, FiniteSetTheorems, TLAPS

-----------------------------------------------------------------------------
(* Days. *)

LEMMA DivMonotone ==
  ASSUME NEW n \in Nat \ {0}, NEW s \in Nat, NEW t \in Nat, s <= t
  PROVE  s \div n \in Nat /\ t \div n \in Nat /\ s \div n <= t \div n
<1> DEFINE a == s \div n
           b == t \div n
<1>1. a \in Int /\ b \in Int /\ s % n \in 0..(n - 1) /\ t % n \in 0..(n - 1)
  OBVIOUS
<1>2. s = n * a + (s % n) /\ t = n * b + (t % n)
  OBVIOUS
<1> QED OBVIOUS

LEMMA DayMonotone ==
  ASSUME S!StreakConstants, NEW s \in Nat, NEW t \in Nat, s <= t
  PROVE  /\ S!utc_day(s) \in Nat /\ S!utc_day(t) \in Nat
         /\ S!utc_day(s) <= S!utc_day(t)
BY DivMonotone DEF S!StreakConstants, S!utc_day

-----------------------------------------------------------------------------
(* The day streak: types, for any number of requests. *)

Counted(record) ==
  /\ record \in S!StreakRecord
  /\ record.current >= 1 /\ record.longest >= record.current

\* What a request's locals are worth at each of its calls.
StreakJobOK(activities, label, j) ==
  /\ j \in S!Job
  /\ j.existing # None => Counted(j.existing)
  /\ label \in {"processed", "continuity", "save", "mark"} => j.interaction \in DOMAIN activities
  /\ label \in {"save", "restore"} => Counted(j.intended)
  /\ label \in {"offer", "accept", "decline", "restore", "answer"} => j.offer \in S!FreezeOffer

StreakTypeInv == S!TypeOK /\ \A w \in Workers : StreakJobOK(ledger, pc[w], job[w])

LEMMA NoStreakJob == \A activities : StreakJobOK(activities, "idle", S!NoJob)
BY DEF StreakJobOK, S!NoJob, S!Job

LEMMA StreakStepTypes ==
  ASSUME StreakTypeInv, NEW w \in Workers, NEW label \in S!PC, NEW j,
         S!Step(w, label, j), StreakJobOK(ledger, label, j), UNCHANGED ledger
  PROVE  /\ pc' \in [Workers -> S!PC] /\ job' \in [Workers -> S!Job]
         /\ \A v \in Workers : StreakJobOK(ledger, pc'[v], job'[v])
         /\ \A v \in Workers : StreakJobOK(ledger', pc'[v], job'[v])
<1>1. /\ pc \in [Workers -> S!PC] /\ job \in [Workers -> S!Job]
      /\ \A v \in Workers : StreakJobOK(ledger, pc[v], job[v])
  BY DEF StreakTypeInv, S!TypeOK
<1>2. pc' = [pc EXCEPT ![w] = label] /\ job' = [job EXCEPT ![w] = j] /\ j \in S!Job
  BY DEF S!Step, StreakJobOK
<1>3. \A v \in Workers : pc'[v] = (IF v = w THEN label ELSE pc[v]) /\ job'[v] = (IF v = w THEN j ELSE job[v])
  BY <1>1, <1>2
<1> QED BY <1>1, <1>2, <1>3

LEMMA LaterIs ==
  ASSUME NEW m \in Nat, NEW n \in Nat
  PROVE  S!Later(m, n) \in Nat /\ S!Later(m, n) >= m /\ S!Later(m, n) >= n
BY DEF S!Later

\* The records the rules build, field by field.
LEMMA Fields ==
  ASSUME NEW record \in S!StreakRecord
  PROVE  /\ record.current \in Nat /\ record.longest \in Nat /\ record.last_activity_at \in Nat
         /\ record.streak_started_at \in Nat /\ record.freeze_used_at \in Nat \cup {None}
BY DEF S!StreakRecord

Is(r, count, most, last, started, used) ==
  /\ r \in S!StreakRecord
  /\ r.current = count /\ r.longest = most /\ r.last_activity_at = last
  /\ r.streak_started_at = started /\ r.freeze_used_at = used

LEMMA Starts ==
  ASSUME NEW t \in Nat
  PROVE  Is(S!apply_start(t), 1, 1, t, t, None)
BY DEF Is, S!StreakRecord, S!apply_start

LEMMA Touches ==
  ASSUME NEW record \in S!StreakRecord, NEW t \in Nat
  PROVE  Is(S!_touch(record, t), record.current, record.longest, t,
            record.streak_started_at, record.freeze_used_at)
BY DEF Is, S!StreakRecord, S!_touch

LEMMA Increments ==
  ASSUME NEW record \in S!StreakRecord, NEW t \in Nat
  PROVE  Is(S!apply_increment(record, t), record.current + 1,
            S!Later(record.longest, record.current + 1), t,
            record.streak_started_at, record.freeze_used_at)
<1> DEFINE c == record.current + 1
           m == S!Later(record.longest, c)
<1>1. /\ record.longest \in Nat /\ c \in Nat
      /\ record.streak_started_at \in Nat /\ record.freeze_used_at \in Nat \cup {None}
  BY Fields
<1>2. S!apply_increment(record, t) =
        [record EXCEPT !.current = c, !.longest = m, !.last_activity_at = t]
  BY DEF S!apply_increment
<1> HIDE DEF c
<1>3. m \in Nat
  BY <1>1, LaterIs
<1> HIDE DEF m
<1>4. Is([record EXCEPT !.current = c, !.longest = m, !.last_activity_at = t],
         c, m, t, record.streak_started_at, record.freeze_used_at)
  BY <1>1, <1>3 DEF Is, S!StreakRecord
<1> QED BY <1>2, <1>4 DEF c, m

LEMMA Resets ==
  ASSUME NEW record \in S!StreakRecord, NEW t \in Nat
  PROVE  Is(S!apply_reset(record, t), 1, S!Later(record.longest, record.current), t,
            t, record.freeze_used_at)
<1> DEFINE m == S!Later(record.longest, record.current)
<1>1. record.longest \in Nat /\ record.current \in Nat /\ record.freeze_used_at \in Nat \cup {None}
  BY Fields
<1>2. S!apply_reset(record, t) =
        [record EXCEPT !.current = 1, !.longest = m, !.last_activity_at = t, !.streak_started_at = t]
  BY DEF S!apply_reset
<1>3. m \in Nat
  BY <1>1, LaterIs
<1> HIDE DEF m
<1>4. Is([record EXCEPT !.current = 1, !.longest = m, !.last_activity_at = t, !.streak_started_at = t],
         1, m, t, t, record.freeze_used_at)
  BY <1>1, <1>3 DEF Is, S!StreakRecord
<1> QED BY <1>2, <1>4 DEF m

LEMMA Restores ==
  ASSUME NEW record \in S!StreakRecord, NEW offer \in S!FreezeOffer, NEW t \in Nat
  PROVE  Is(S!apply_freeze_acceptance(record, offer, t), offer.preserved + record.current,
            S!Later(record.longest, offer.preserved + record.current), record.last_activity_at,
            offer.preserved_started_at, t)
<1> DEFINE c == offer.preserved + record.current
           m == S!Later(record.longest, c)
<1>1. /\ record.longest \in Nat /\ record.current \in Nat /\ record.last_activity_at \in Nat
      /\ offer.preserved \in Nat /\ offer.preserved_started_at \in Nat
  BY Fields DEF S!FreezeOffer
<1>2. c \in Nat
  BY <1>1
<1>3. S!apply_freeze_acceptance(record, offer, t) =
        [record EXCEPT !.current = c, !.longest = m,
                       !.streak_started_at = offer.preserved_started_at, !.freeze_used_at = t]
  BY DEF S!apply_freeze_acceptance
<1> HIDE DEF c
<1>4. m \in Nat
  BY <1>1, <1>2, LaterIs
<1> HIDE DEF m
<1>5. Is([record EXCEPT !.current = c, !.longest = m,
                       !.streak_started_at = offer.preserved_started_at, !.freeze_used_at = t],
         c, m, record.last_activity_at, offer.preserved_started_at, t)
  BY <1>1, <1>2, <1>4 DEF Is, S!StreakRecord
<1> QED BY <1>3, <1>5 DEF c, m

LEMMA RulesCount ==
  ASSUME NEW record, NEW t \in Nat
  PROVE  /\ Counted(S!apply_start(t))
         /\ Counted(record) => /\ Counted(S!_touch(record, t))
                               /\ Counted(S!apply_increment(record, t))
                               /\ Counted(S!apply_reset(record, t))
<1>1. Counted(S!apply_start(t))
  BY Starts DEF Counted, Is
<1>2. ASSUME Counted(record)
      PROVE  /\ Counted(S!_touch(record, t))
             /\ Counted(S!apply_increment(record, t))
             /\ Counted(S!apply_reset(record, t))
  <2> DEFINE n == record.current
  <2>1. /\ record \in S!StreakRecord /\ n \in Nat /\ n >= 1 /\ record.longest >= n
        /\ record.longest \in Nat
    BY <1>2, Fields DEF Counted
  <2>2. Counted(S!_touch(record, t))
    BY <2>1, Touches DEF Counted, Is
  <2>3. n + 1 \in Nat /\ n + 1 >= 1
    BY <2>1
  <2>4. /\ S!Later(record.longest, n + 1) >= n + 1
        /\ S!Later(record.longest, n) >= n /\ S!Later(record.longest, n) \in Nat
    BY <2>1, <2>3, LaterIs
  <2>5. Counted(S!apply_increment(record, t))
    BY <2>1, <2>3, <2>4, Increments DEF Counted, Is
  <2>6. Counted(S!apply_reset(record, t))
    <3>1. Is(S!apply_reset(record, t), 1, S!Later(record.longest, n), t, t, record.freeze_used_at)
      BY <2>1, Resets
    <3>2. S!Later(record.longest, n) >= 1
      BY <2>1, <2>4
    <3> QED BY <3>1, <3>2 DEF Counted, Is
  <2> QED BY <2>2, <2>5, <2>6
<1> QED BY <1>1, <1>2

LEMMA FreezeCounts ==
  ASSUME NEW record, Counted(record), NEW offer \in S!FreezeOffer, NEW t \in Nat
  PROVE  Counted(S!apply_freeze_acceptance(record, offer, t))
<1> DEFINE c == offer.preserved + record.current
<1>1. /\ record \in S!StreakRecord /\ record.longest \in Nat
      /\ c \in Nat /\ c >= 1
  BY Fields DEF Counted, S!FreezeOffer
<1>2. Is(S!apply_freeze_acceptance(record, offer, t), c, S!Later(record.longest, c),
         record.last_activity_at, offer.preserved_started_at, t)
  BY <1>1, Restores
<1> HIDE DEF c
<1>3. S!Later(record.longest, c) >= c
  BY <1>1, LaterIs
<1> QED BY <1>1, <1>2, <1>3 DEF Counted, Is

LEMMA Outcomes ==
  ASSUME NEW record, NEW t, NEW prior
  PROVE  /\ S!decide(record, t, prior) \in {"started", "unchanged_same_day", "incremented", "reset"}
         /\ S!decide(record, t, prior) = "started" <=> record = None
         /\ S!decide(record, t, prior) = "unchanged_same_day" =>
              S!same_utc_day(record.last_activity_at, t)
         /\ S!decide(record, t, prior) \in {"incremented", "reset"} =>
              ~ S!same_utc_day(record.last_activity_at, t)
         /\ S!decide(record, t, prior) = "incremented" => prior
         /\ S!decide(record, t, prior) = "reset" => ~ prior
BY DEF S!decide

LEMMA NextRecordIs ==
  ASSUME NEW record, NEW t, NEW prior, NEW degraded \in BOOLEAN,
         NEW outcome, outcome = S!decide(record, t, prior)
  PROVE  /\ outcome = "started" => S!_next_record(record, t, prior, degraded) = S!apply_start(t)
         /\ outcome = "unchanged_same_day" =>
              S!_next_record(record, t, prior, degraded) = S!_touch(record, t)
         /\ outcome = "incremented" =>
              S!_next_record(record, t, prior, degraded) = S!apply_increment(record, t)
         /\ outcome = "reset" => S!_next_record(record, t, prior, degraded) =
              IF degraded THEN S!_touch(record, t) ELSE S!apply_reset(record, t)
BY DEF S!_next_record

LEMMA NextRecordCounts ==
  ASSUME S!StreakConstants, NEW record, record # None => Counted(record),
         NEW t \in Nat, NEW prior, NEW degraded \in BOOLEAN
  PROVE  Counted(S!_next_record(record, t, prior, degraded))
<1> DEFINE outcome == S!decide(record, t, prior)
<1>1. outcome \in {"started", "unchanged_same_day", "incremented", "reset"}
  BY Outcomes
<1>2. outcome # "started" => Counted(record)
  BY Outcomes
<1> HIDE DEF outcome
<1>3. CASE outcome = "started"
  BY <1>3, RulesCount, NextRecordIs DEF outcome
<1>4. CASE outcome = "unchanged_same_day"
  BY <1>2, <1>4, RulesCount, NextRecordIs DEF outcome
<1>5. CASE outcome = "incremented"
  BY <1>2, <1>5, RulesCount, NextRecordIs DEF outcome
<1>6. CASE outcome = "reset"
  BY <1>2, <1>6, RulesCount, NextRecordIs DEF outcome
<1> QED BY <1>1, <1>3, <1>4, <1>5, <1>6

LEMMA LatestOffer ==
  ASSUME offers \in Seq(S!FreezeOffer), S!get_latest # None
  PROVE  S!get_latest \in S!FreezeOffer /\ \E k \in DOMAIN offers : S!get_latest = offers[k]
<1>1. offers # <<>> /\ S!get_latest = offers[Len(offers)]
  BY DEF S!get_latest
<1>2. Len(offers) \in DOMAIN offers
  BY <1>1
<1> QED BY <1>1, <1>2

LEMMA UpsertTypes ==
  ASSUME offers \in Seq(S!FreezeOffer), NEW offer \in S!FreezeOffer
  PROVE  S!Upsert(offer) \in Seq(S!FreezeOffer)
<1>1. CASE \E k \in DOMAIN offers : offers[k].offered_at = offer.offered_at
  <2> DEFINE put == [k \in DOMAIN offers |->
                       IF offers[k].offered_at = offer.offered_at THEN offer ELSE offers[k]]
  <2>1. S!Upsert(offer) = put
    BY <1>1 DEF S!Upsert
  <2>2. DOMAIN offers = 1..Len(offers) /\ Len(offers) \in Nat
        /\ \A k \in DOMAIN offers : offers[k] \in S!FreezeOffer
    OBVIOUS
  <2>3. put \in [1..Len(offers) -> S!FreezeOffer]
    BY <2>2
  <2> HIDE DEF put
  <2>4. put \in Seq(S!FreezeOffer)
    BY <2>2, <2>3
  <2> QED BY <2>1, <2>4
<1>2. CASE ~ \E k \in DOMAIN offers : offers[k].offered_at = offer.offered_at
  <2>1. S!Upsert(offer) = Append(offers, offer)
    BY <1>2 DEF S!Upsert
  <2> QED BY <2>1
<1> QED BY <1>1, <1>2

LEMMA SavingTypes ==
  ASSUME offers \in Seq(S!FreezeOffer), NEW offer \in S!FreezeOffer, S!_save_offer(offer)
  PROVE  offers' \in Seq(S!FreezeOffer)
BY UpsertTypes DEF S!_save_offer

LEMMA OpenOfferTypes ==
  ASSUME offers \in Seq(S!FreezeOffer), NEW t, NEW found, S!_open_offer(t, found)
  PROVE  /\ offers' \in Seq(S!FreezeOffer)
         /\ found # None => found \in S!FreezeOffer
<1> DEFINE expired == [S!get_latest EXCEPT !.status = "expired"]
<1>1. CASE S!get_latest # None /\ found = S!get_latest /\ UNCHANGED offers
  BY <1>1, LatestOffer
<1>2. CASE S!get_latest # None /\ found = None /\ S!_save_offer(expired)
  <2>1. expired \in S!FreezeOffer
    BY <1>2, LatestOffer DEF S!FreezeOffer, S!FreezeOfferStatus
  <2> HIDE DEF expired
  <2> QED BY <1>2, <2>1, SavingTypes
<1>3. CASE found = None /\ UNCHANGED offers
  BY <1>3
<1> QED BY <1>1, <1>2, <1>3 DEF S!_open_offer

\* What a step of one request has to show.
StreakTyped ==
  /\ streak \in S!StreakRecord \cup {None}
  /\ streak # None => streak.current >= 1 /\ streak.longest >= streak.current
  /\ processed \subseteq DOMAIN ledger
  /\ offers \in Seq(S!FreezeOffer) /\ badges \subseteq Milestones

LEMMA StreakStep ==
  ASSUME StreakTypeInv, NEW w \in Workers, NEW label \in S!PC, NEW j,
         S!Step(w, label, j), StreakJobOK(ledger, label, j), UNCHANGED <<clock, ledger>>,
         StreakTyped'
  PROVE  StreakTypeInv'
BY StreakStepTypes DEF StreakTypeInv, S!TypeOK, StreakTyped

LEMMA StreakTypeFacts ==
  ASSUME StreakTypeInv, NEW w \in Workers
  PROVE  /\ clock \in Nat /\ ledger \in Seq(Nat) /\ StreakTyped
         /\ pc[w] \in S!PC /\ job[w] \in S!Job /\ StreakJobOK(ledger, pc[w], job[w])
BY DEF StreakTypeInv, S!TypeOK, StreakTyped

LEMMA RecordTypes ==
  ASSUME S!StreakConstants, StreakTypeInv, NEW w \in Workers,
         S!BeginRecord(w) \/ S!CheckProcessed(w) \/ S!ReadContinuity(w) \/ S!SaveStreak(w)
  PROVE  StreakTypeInv'
<1>0. /\ clock \in Nat /\ ledger \in Seq(Nat) /\ StreakTyped
      /\ job[w] \in S!Job /\ StreakJobOK(ledger, pc[w], job[w])
  BY StreakTypeFacts
<1>1. StreakJobOK(ledger, "idle", S!NoJob)
  BY NoStreakJob
<1>2. CASE S!BeginRecord(w)
  <2>1. PICK i \in DOMAIN ledger :
          S!Step(w, "processed", [S!NoJob EXCEPT !.now = clock, !.interaction = i, !.existing = streak])
    BY <1>2 DEF S!BeginRecord
  <2> DEFINE j == [S!NoJob EXCEPT !.now = clock, !.interaction = i, !.existing = streak]
  <2>2. i \in Nat
    BY <1>0
  <2>3. StreakJobOK(ledger, "processed", j)
    BY <1>0, <2>2 DEF StreakJobOK, S!Job, S!NoJob, StreakTyped, Counted
  <2>4. UNCHANGED <<clock, ledger>> /\ StreakTyped'
    BY <1>0, <1>2 DEF S!BeginRecord, S!stores, StreakTyped
  <2> HIDE DEF j
  <2> QED BY <2>1, <2>3, <2>4, StreakStep DEF S!PC, j
<1>3. CASE S!CheckProcessed(w)
  <2>1. UNCHANGED <<clock, ledger>> /\ StreakTyped' /\ pc[w] = "processed"
    BY <1>0, <1>3 DEF S!CheckProcessed, S!stores, S!At, StreakTyped
  <2>2. StreakJobOK(ledger, "open_offer", S!Clock(w))
    BY <1>0 DEF StreakJobOK, S!Job, S!NoJob, S!Clock
  <2>3. StreakJobOK(ledger, "continuity", job[w])
    BY <1>0, <2>1 DEF StreakJobOK
  <2>4. \/ S!Step(w, "open_offer", S!Clock(w)) \/ S!Step(w, "continuity", job[w])
        \/ S!Step(w, "idle", S!NoJob)
    BY <1>3 DEF S!CheckProcessed, S!End
  <2>5. {"open_offer", "continuity", "idle"} \subseteq S!PC
    BY DEF S!PC
  <2>6. CASE S!Step(w, "open_offer", S!Clock(w))
    BY <2>1, <2>2, <2>5, <2>6, StreakStep
  <2>7. CASE S!Step(w, "continuity", job[w])
    BY <2>1, <2>3, <2>5, <2>7, StreakStep
  <2>8. CASE S!Step(w, "idle", S!NoJob)
    BY <1>1, <2>1, <2>5, <2>8, StreakStep
  <2> QED BY <2>4, <2>6, <2>7, <2>8
<1>4. CASE S!ReadContinuity(w)
  <2> DEFINE j == job[w]
  <2>1. pc[w] = "continuity" /\ UNCHANGED <<clock, ledger>> /\ StreakTyped'
    BY <1>0, <1>4 DEF S!ReadContinuity, S!stores, S!At, StreakTyped
  <2>2. PICK degraded \in BOOLEAN :
          LET prior == IF degraded THEN S!PriorFromRecord(j.existing, j.now)
                       ELSE S!PriorInWindow(j.interaction, j.now) # {}
              resets == S!decide(j.existing, j.now, prior) = "reset" /\ ~ degraded
              next == [j EXCEPT !.existing = None,
                                !.intended = S!_next_record(j.existing, j.now, prior, degraded)]
          IN \/ S!Step(w, "save", next)
             \/ /\ resets /\ S!eligible_for_freeze_offer(j.existing, j.now)
                /\ S!Step(w, "save", [next EXCEPT !.offer = S!NewOffer(j.existing, j.now)])
    BY <1>4 DEF S!ReadContinuity
  <2> DEFINE prior == IF degraded THEN S!PriorFromRecord(j.existing, j.now)
                      ELSE S!PriorInWindow(j.interaction, j.now) # {}
             record == S!_next_record(j.existing, j.now, prior, degraded)
             next == [j EXCEPT !.existing = None, !.intended = record]
             offered == [next EXCEPT !.offer = S!NewOffer(j.existing, j.now)]
             resets == S!decide(j.existing, j.now, prior) = "reset" /\ ~ degraded
  <2>3. /\ j \in S!Job /\ j.now \in Nat /\ (j.existing # None => Counted(j.existing))
        /\ j.interaction \in DOMAIN ledger
    BY <1>0, <2>1 DEF StreakJobOK, S!Job
  <2>4. Counted(record)
    <3> HIDE DEF prior, j
    <3> QED BY <2>3, NextRecordCounts
  <2>5. resets => j.existing # None
    <3> HIDE DEF prior, j
    <3> QED BY Outcomes
  <2>6. S!Step(w, "save", next) \/ (resets /\ S!Step(w, "save", offered))
    BY <2>2
  <2> HIDE DEF record, resets, prior
  <2>7. StreakJobOK(ledger, "save", next)
    BY <2>3, <2>4 DEF StreakJobOK, S!Job, Counted
  <2>8. resets => StreakJobOK(ledger, "save", offered)
    <3> SUFFICES ASSUME resets PROVE StreakJobOK(ledger, "save", offered)
      OBVIOUS
    <3>1. Counted(j.existing) /\ j.existing.current \in Nat \ {0}
          /\ j.existing.streak_started_at \in Nat
      BY <2>3, <2>5 DEF Counted, S!StreakRecord
    <3>2. S!NewOffer(j.existing, j.now) \in S!FreezeOffer
      BY <2>3, <3>1 DEF S!NewOffer, S!FreezeOffer, S!FreezeOfferStatus
    <3> QED BY <2>3, <2>4, <3>2 DEF StreakJobOK, S!Job, Counted
  <2> HIDE DEF next, offered
  <2> QED BY <2>1, <2>6, <2>7, <2>8, StreakStep DEF S!PC
<1>5. CASE S!SaveStreak(w)
  <2>1. pc[w] = "save" /\ UNCHANGED <<clock, ledger, processed, offers, badges>>
    BY <1>5 DEF S!SaveStreak, S!At
  <2>2. Counted(job[w].intended) /\ job[w].interaction \in DOMAIN ledger
    BY <1>0, <2>1 DEF StreakJobOK
  <2>3. CASE streak' = job[w].intended /\ S!Step(w, "mark", [job[w] EXCEPT !.intended = None])
    <3>1. StreakTyped'
      BY <1>0, <2>1, <2>2, <2>3 DEF StreakTyped, Counted
    <3>2. StreakJobOK(ledger, "mark", [job[w] EXCEPT !.intended = None])
      BY <1>0, <2>2 DEF StreakJobOK, S!Job
    <3> QED BY <2>1, <2>3, <3>1, <3>2, StreakStep DEF S!PC
  <2>4. CASE UNCHANGED streak /\ S!Step(w, "badges", S!Clock(w))
    <3>1. StreakTyped'
      BY <1>0, <2>1, <2>4 DEF StreakTyped
    <3>2. StreakJobOK(ledger, "badges", S!Clock(w))
      BY <1>0 DEF StreakJobOK, S!Job, S!NoJob, S!Clock
    <3> QED BY <2>1, <2>4, <3>1, <3>2, StreakStep DEF S!PC
  <2> QED BY <1>5, <2>3, <2>4 DEF S!SaveStreak
<1> QED BY <1>2, <1>3, <1>4, <1>5

LEMMA MarkTypes ==
  ASSUME S!StreakConstants, StreakTypeInv, NEW w \in Workers,
         \/ S!MarkProcessed(w) \/ S!SaveNewOffer(w) \/ S!EvaluateBadges(w) \/ S!ReadOpenOffer(w)
         \/ S!GetState(w)
  PROVE  StreakTypeInv'
<1>0. /\ clock \in Nat /\ ledger \in Seq(Nat) /\ StreakTyped
      /\ job[w] \in S!Job /\ StreakJobOK(ledger, pc[w], job[w])
  BY StreakTypeFacts
<1>1. StreakJobOK(ledger, "idle", S!NoJob)
  BY NoStreakJob
<1>2. CASE S!MarkProcessed(w)
  <2> DEFINE label == IF job[w].offer # None THEN "offer" ELSE "badges"
             j == [job[w] EXCEPT !.interaction = 0]
  <2>1. /\ pc[w] = "mark" /\ UNCHANGED <<clock, ledger, streak, offers, badges>>
        /\ S!Step(w, label, j)
        /\ processed' = processed \cup {job[w].interaction} \/ UNCHANGED processed
    BY <1>2 DEF S!MarkProcessed, S!At
  <2>2. job[w].interaction \in DOMAIN ledger
    BY <1>0, <2>1 DEF StreakJobOK
  <2>3. StreakTyped'
    BY <1>0, <2>1, <2>2 DEF StreakTyped
  <2>4. StreakJobOK(ledger, label, j)
    BY <1>0 DEF StreakJobOK, S!Job
  <2>5. label \in S!PC
    BY DEF S!PC
  <2> HIDE DEF label, j
  <2> QED BY <2>1, <2>3, <2>4, <2>5, StreakStep
<1>3. CASE S!SaveNewOffer(w)
  <2>1. /\ pc[w] = "offer" /\ UNCHANGED <<clock, ledger, streak, processed, badges>>
        /\ S!_save_offer(job[w].offer) /\ S!Step(w, "badges", job[w])
    BY <1>3 DEF S!SaveNewOffer, S!At
  <2>2. job[w].offer \in S!FreezeOffer
    BY <1>0, <2>1 DEF StreakJobOK
  <2>3. StreakTyped'
    BY <1>0, <2>1, <2>2, SavingTypes DEF StreakTyped
  <2>4. StreakJobOK(ledger, "badges", job[w])
    BY <1>0 DEF StreakJobOK
  <2> QED BY <2>1, <2>3, <2>4, StreakStep DEF S!PC
<1>4. CASE S!EvaluateBadges(w)
  <2>1. /\ UNCHANGED <<clock, ledger, streak, processed, offers>>
        /\ badges' \subseteq badges \cup Milestones
        /\ S!Step(w, "idle", S!NoJob) \/ S!Step(w, "open_offer", S!Clock(w))
    BY <1>4 DEF S!EvaluateBadges, S!End
  <2>2. StreakTyped'
    BY <1>0, <2>1 DEF StreakTyped
  <2>3. StreakJobOK(ledger, "open_offer", S!Clock(w))
    BY <1>0 DEF StreakJobOK, S!Job, S!NoJob, S!Clock
  <2> QED BY <1>1, <2>1, <2>2, <2>3, StreakStep DEF S!PC
<1>5. CASE S!ReadOpenOffer(w)
  <2>1. /\ UNCHANGED <<clock, ledger, streak, processed, badges>>
        /\ S!Step(w, "idle", S!NoJob)
        /\ \E found : S!_open_offer(job[w].now, found)
    BY <1>5 DEF S!ReadOpenOffer, S!End
  <2>2. StreakTyped'
    BY <1>0, <2>1, OpenOfferTypes DEF StreakTyped
  <2> QED BY <1>1, <2>1, <2>2, StreakStep DEF S!PC
<1>6. CASE S!GetState(w)
  <2>1. /\ UNCHANGED <<clock, ledger, streak, processed, offers, badges>>
        /\ S!Step(w, "open_offer", [S!NoJob EXCEPT !.now = clock])
    BY <1>6 DEF S!GetState, S!stores
  <2>2. StreakTyped'
    BY <1>0, <2>1 DEF StreakTyped
  <2>3. StreakJobOK(ledger, "open_offer", [S!NoJob EXCEPT !.now = clock])
    BY <1>0 DEF StreakJobOK, S!Job, S!NoJob
  <2> QED BY <2>1, <2>2, <2>3, StreakStep DEF S!PC
<1> QED BY <1>2, <1>3, <1>4, <1>5, <1>6

LEMMA FreezeTypes ==
  ASSUME S!StreakConstants, StreakTypeInv, NEW w \in Workers, S!Freeze(w)
  PROVE  StreakTypeInv'
<1>0. /\ clock \in Nat /\ ledger \in Seq(Nat) /\ StreakTyped
      /\ job[w] \in S!Job /\ StreakJobOK(ledger, pc[w], job[w])
  BY StreakTypeFacts
<1>1. StreakJobOK(ledger, "idle", S!NoJob)
  BY NoStreakJob
<1>2. CASE S!BeginAnswer(w)
  <2>1. /\ UNCHANGED <<clock, ledger, streak, processed, badges>>
        /\ \E found : /\ S!_open_offer(clock, found)
                      /\ \/ S!Step(w, "idle", S!NoJob)
                         \/ \E answer \in {"accept", "decline"} :
                              /\ found # None
                              /\ S!Step(w, answer, [S!NoJob EXCEPT !.now = clock, !.offer = found])
    BY <1>2 DEF S!BeginAnswer, S!End
  <2>2. PICK found :
          /\ S!_open_offer(clock, found)
          /\ \/ S!Step(w, "idle", S!NoJob)
             \/ \E answer \in {"accept", "decline"} :
                  /\ found # None
                  /\ S!Step(w, answer, [S!NoJob EXCEPT !.now = clock, !.offer = found])
    BY <2>1
  <2>3. offers' \in Seq(S!FreezeOffer) /\ (found # None => found \in S!FreezeOffer)
    BY <1>0, <2>2, OpenOfferTypes DEF StreakTyped
  <2>4. StreakTyped'
    BY <1>0, <2>1, <2>3 DEF StreakTyped
  <2>5. CASE S!Step(w, "idle", S!NoJob)
    BY <1>1, <2>1, <2>4, <2>5, StreakStep DEF S!PC
  <2>6. ASSUME NEW answer \in {"accept", "decline"}, found # None,
               S!Step(w, answer, [S!NoJob EXCEPT !.now = clock, !.offer = found])
        PROVE  StreakTypeInv'
    <3>1. StreakJobOK(ledger, answer, [S!NoJob EXCEPT !.now = clock, !.offer = found])
      BY <1>0, <2>3, <2>6 DEF StreakJobOK, S!Job, S!NoJob
    <3>2. answer \in S!PC
      BY DEF S!PC
    <3> QED BY <2>1, <2>4, <2>6, <3>1, <3>2, StreakStep
  <2> QED BY <2>2, <2>5, <2>6
<1>3. CASE S!ReadStreakToRestore(w)
  <2> DEFINE record == S!apply_freeze_acceptance(streak, job[w].offer, job[w].now)
             j == [job[w] EXCEPT !.intended = record]
  <2>1. /\ pc[w] = "accept" /\ UNCHANGED <<clock, ledger, streak, processed, offers, badges>>
        /\ \/ streak # None /\ S!Step(w, "restore", j)
           \/ S!Step(w, "idle", S!NoJob)
    BY <1>3 DEF S!ReadStreakToRestore, S!End, S!At, S!stores
  <2>2. job[w].offer \in S!FreezeOffer /\ job[w].now \in Nat
    BY <1>0, <2>1 DEF StreakJobOK, S!Job
  <2>3. streak # None => Counted(streak)
    BY <1>0 DEF StreakTyped, Counted
  <2>4. streak # None => StreakJobOK(ledger, "restore", j)
    <3>1. streak # None => Counted(record)
      BY <2>2, <2>3, FreezeCounts
    <3> HIDE DEF record
    <3> QED BY <1>0, <2>2, <3>1 DEF StreakJobOK, S!Job, Counted
  <2>5. StreakTyped'
    BY <1>0, <2>1 DEF StreakTyped
  <2> HIDE DEF j
  <2> QED BY <1>1, <2>1, <2>4, <2>5, StreakStep DEF S!PC
<1>4. CASE S!RestoreStreak(w)
  <2>1. /\ pc[w] = "restore" /\ UNCHANGED <<clock, ledger, processed, offers, badges>>
        /\ \/ streak' = job[w].intended /\ S!Step(w, "answer", [job[w] EXCEPT !.intended = None])
           \/ UNCHANGED streak /\ S!Step(w, "idle", S!NoJob)
    BY <1>4 DEF S!RestoreStreak, S!End, S!At
  <2>2. Counted(job[w].intended) /\ job[w].offer \in S!FreezeOffer
    BY <1>0, <2>1 DEF StreakJobOK
  <2>3. StreakTyped'
    BY <1>0, <2>1, <2>2 DEF StreakTyped, Counted
  <2>4. StreakJobOK(ledger, "answer", [job[w] EXCEPT !.intended = None])
    BY <1>0, <2>2 DEF StreakJobOK, S!Job
  <2> QED BY <1>1, <2>1, <2>3, <2>4, StreakStep DEF S!PC
<1>5. CASE S!AnswerOffer(w)
  <2> DEFINE offer == [job[w].offer EXCEPT
               !.status = IF pc[w] = "answer" THEN "accepted" ELSE "declined",
               !.answered_at = job[w].now]
  <2>1. /\ pc[w] \in {"answer", "decline"} /\ UNCHANGED <<clock, ledger, streak, processed, badges>>
        /\ S!_save_offer(offer) /\ S!Step(w, "idle", S!NoJob)
    BY <1>5 DEF S!AnswerOffer, S!End, S!At
  <2>2. job[w].offer \in S!FreezeOffer /\ job[w].now \in Nat
    BY <1>0, <2>1 DEF StreakJobOK, S!Job
  <2>3. offer \in S!FreezeOffer
    BY <2>2 DEF S!FreezeOffer, S!FreezeOfferStatus
  <2> HIDE DEF offer
  <2>4. StreakTyped'
    BY <1>0, <2>1, <2>3, SavingTypes DEF StreakTyped
  <2> QED BY <1>1, <2>1, <2>4, StreakStep DEF S!PC
<1> QED BY <1>2, <1>3, <1>4, <1>5 DEF S!Freeze

LEMMA WorldTypes ==
  ASSUME S!StreakConstants, StreakTypeInv, S!Tick \/ S!Interact
  PROVE  StreakTypeInv'
<1>1. CASE S!Tick
  BY <1>1 DEF S!Tick, StreakTypeInv, S!TypeOK
<1>2. CASE S!Interact
  <2>1. /\ ledger' = Append(ledger, clock)
        /\ UNCHANGED <<clock, streak, processed, offers, badges, pc, job>>
    BY <1>2 DEF S!Interact
  <2>2. /\ ledger' \in Seq(Nat) /\ DOMAIN ledger \subseteq DOMAIN ledger'
    BY <2>1 DEF StreakTypeInv, S!TypeOK
  <2>3. ASSUME NEW w \in Workers PROVE StreakJobOK(ledger', pc'[w], job'[w])
    <3>1. StreakJobOK(ledger, pc[w], job[w])
      BY DEF StreakTypeInv
    <3> QED BY <2>1, <2>2, <3>1 DEF StreakJobOK
  <2> QED BY <2>1, <2>2, <2>3 DEF StreakTypeInv, S!TypeOK
<1> QED BY <1>1, <1>2

LEMMA InitStreakTypes == S!StreakConstants /\ S!Init => StreakTypeInv
<1> SUFFICES ASSUME S!StreakConstants, S!Init PROVE StreakTypeInv
  OBVIOUS
<1>1. \A w \in Workers : pc[w] = "idle" /\ job[w] = S!NoJob
  BY DEF S!Init
<1>2. S!NoJob \in S!Job /\ "idle" \in S!PC
  BY DEF S!NoJob, S!Job, S!PC
<1>3. pc \in [Workers -> S!PC] /\ job \in [Workers -> S!Job]
  BY <1>2 DEF S!Init
<1>4. S!TypeOK
  BY <1>3 DEF S!Init, S!TypeOK
<1> QED BY <1>1, <1>4, NoStreakJob DEF StreakTypeInv

LEMMA NextStreakTypes ==
  S!StreakConstants /\ StreakTypeInv /\ [S!Next]_S!vars => StreakTypeInv'
<1> SUFFICES ASSUME S!StreakConstants, StreakTypeInv, [S!Next]_S!vars PROVE StreakTypeInv'
  OBVIOUS
<1>1. CASE S!Tick \/ S!Interact
  BY <1>1, WorldTypes
<1>2. ASSUME NEW w \in Workers, S!RecordActivity(w) \/ S!GetState(w) \/ S!Freeze(w)
      PROVE  StreakTypeInv'
  BY <1>2, RecordTypes, MarkTypes, FreezeTypes DEF S!RecordActivity
<1>3. CASE UNCHANGED S!vars
  BY <1>3 DEF S!vars, StreakTypeInv, S!TypeOK
<1> QED BY <1>1, <1>2, <1>3 DEF S!Next

-----------------------------------------------------------------------------
(* The days a learner was active on. *)

Day(t) == S!utc_day(t)

\* Those from day a to before day b.
ActiveDays(activities, a, b) ==
  {d \in {Day(activities[k]) : k \in DOMAIN activities} : a <= d /\ d < b}

LEMMA DayIs ==
  ASSUME S!StreakConstants
  PROVE  /\ \A t \in Nat : Day(t) \in Nat
         /\ \A s, t \in Nat : s <= t => Day(s) <= Day(t)
         /\ \A s, t : S!same_utc_day(s, t) <=> Day(s) = Day(t)
<1>1. \A s, t \in Nat : s <= t => Day(s) \in Nat /\ Day(s) <= Day(t)
  BY DayMonotone DEF Day
<1>2. \A t \in Nat : t <= t
  OBVIOUS
<1> QED BY <1>1, <1>2 DEF Day, S!same_utc_day

LEMMA AllDaysFinite ==
  ASSUME S!StreakConstants, NEW activities \in Seq(Nat)
  PROVE  /\ IsFiniteSet({Day(activities[k]) : k \in DOMAIN activities})
         /\ {Day(activities[k]) : k \in DOMAIN activities} \subseteq Nat
<1> DEFINE T == {Day(activities[k]) : k \in DOMAIN activities}
           f == [k \in DOMAIN activities |-> Day(activities[k])]
<1>1. IsFiniteSet(DOMAIN activities)
  <2>1. DOMAIN activities = 1..Len(activities) /\ 1 \in Int /\ Len(activities) \in Int
    OBVIOUS
  <2> QED BY <2>1, FS_Interval
<1>2. f \in Surjection(DOMAIN activities, T)
  BY DEF Surjection
<1>3. T \subseteq Nat
  BY DayIs
<1> HIDE DEF T, f
<1>4. IsFiniteSet(T)
  BY <1>1, <1>2, FS_Surjection
<1> QED BY <1>3, <1>4 DEF T

LEMMA DaysFinite ==
  ASSUME S!StreakConstants, NEW activities \in Seq(Nat), NEW a, NEW b
  PROVE  /\ IsFiniteSet(ActiveDays(activities, a, b))
         /\ Cardinality(ActiveDays(activities, a, b)) \in Nat
<1> DEFINE T == {Day(activities[k]) : k \in DOMAIN activities}
<1>1. IsFiniteSet(T)
  BY AllDaysFinite
<1>2. ActiveDays(activities, a, b) \in SUBSET T
  BY DEF ActiveDays
<1> HIDE DEF T
<1> QED BY <1>1, <1>2, FS_Subset, FS_CardinalityType

\* More activities, or a longer stretch, have no fewer days.
LEMMA DaysGrow ==
  ASSUME S!StreakConstants, NEW activities \in Seq(Nat), NEW a, NEW b,
         NEW more \in Seq(Nat), NEW c, NEW d,
         ActiveDays(activities, a, b) \subseteq ActiveDays(more, c, d)
  PROVE  Cardinality(ActiveDays(activities, a, b)) <= Cardinality(ActiveDays(more, c, d))
<1>1. IsFiniteSet(ActiveDays(more, c, d))
  BY DaysFinite
<1> QED BY <1>1, FS_Subset

LEMMA LongerStretch ==
  ASSUME S!StreakConstants, NEW activities \in Seq(Nat),
         NEW a \in Nat, NEW b \in Nat, NEW c \in Nat, b <= c
  PROVE  Cardinality(ActiveDays(activities, a, b)) <= Cardinality(ActiveDays(activities, a, c))
<1>1. ActiveDays(activities, a, b) \subseteq ActiveDays(activities, a, c)
  <2> DEFINE T == {Day(activities[k]) : k \in DOMAIN activities}
  <2>1. T \subseteq Nat
    BY AllDaysFinite
  <2> SUFFICES ASSUME NEW d \in T, a <= d, d < b PROVE d < c
    BY DEF ActiveDays
  <2>2. d \in Nat
    BY <2>1
  <2> QED BY <2>2
<1> QED BY <1>1, DaysGrow

LEMMA MoreActivities ==
  ASSUME S!StreakConstants, NEW activities \in Seq(Nat), NEW t \in Nat, NEW a, NEW b
  PROVE  Cardinality(ActiveDays(activities, a, b))
           <= Cardinality(ActiveDays(Append(activities, t), a, b))
<1> DEFINE more == Append(activities, t)
<1>1. more \in Seq(Nat)
  OBVIOUS
<1>2. \A k \in DOMAIN activities : k \in DOMAIN more /\ more[k] = activities[k]
  OBVIOUS
<1> HIDE DEF more
<1>3. ActiveDays(activities, a, b) \subseteq ActiveDays(more, a, b)
  BY <1>2 DEF ActiveDays
<1> QED BY <1>1, <1>3, DaysGrow DEF more

\* A new day is one more.
LEMMA OneMoreDay ==
  ASSUME S!StreakConstants, NEW activities \in Seq(Nat),
         NEW a \in Nat, NEW b \in Nat, NEW d \in Nat, a <= d, b <= d,
         \E k \in DOMAIN activities : Day(activities[k]) = d
  PROVE  Cardinality(ActiveDays(activities, a, b)) + 1
           <= Cardinality(ActiveDays(activities, a, d + 1))
<1> DEFINE A == ActiveDays(activities, a, b)
           B == ActiveDays(activities, a, d + 1)
<1>1. IsFiniteSet(A) /\ IsFiniteSet(B) /\ Cardinality(A) \in Nat
  BY DaysFinite
<1>2. d \notin A
  BY DEF ActiveDays
<1>3. A \cup {d} \subseteq B
  <2>1. \A e \in A : e \in Nat /\ e < b
    BY AllDaysFinite DEF ActiveDays
  <2>2. \A e \in A : e < d + 1
    BY <2>1
  <2>3. d \in B
    BY DEF ActiveDays
  <2> QED BY <2>2, <2>3 DEF ActiveDays
<1> HIDE DEF A, B
<1>4. Cardinality(A \cup {d}) = Cardinality(A) + 1
  BY <1>1, <1>2, FS_AddElement
<1> QED BY <1>1, <1>3, <1>4, FS_Subset DEF A, B

\* Two stretches, one after the other.
LEMMA TwoStretches ==
  ASSUME S!StreakConstants, NEW activities \in Seq(Nat),
         NEW a \in Nat, NEW b \in Nat, NEW c \in Nat, a <= b, b <= c
  PROVE  Cardinality(ActiveDays(activities, a, b)) + Cardinality(ActiveDays(activities, b, c))
           <= Cardinality(ActiveDays(activities, a, c))
<1> DEFINE A == ActiveDays(activities, a, b)
           B == ActiveDays(activities, b, c)
           C == ActiveDays(activities, a, c)
<1>1. /\ IsFiniteSet(A) /\ IsFiniteSet(B) /\ IsFiniteSet(C)
      /\ Cardinality(A) \in Nat /\ Cardinality(B) \in Nat
  BY DaysFinite
<1>2. \A d \in A \cup B : d \in Nat
  BY AllDaysFinite DEF ActiveDays
<1>3. A \cap B = {}
  BY <1>2 DEF ActiveDays
<1>4. A \cup B \subseteq C
  BY <1>2 DEF ActiveDays
<1> HIDE DEF A, B, C
<1>5. Cardinality(A \cup B) = Cardinality(A) + Cardinality(B)
  <2>1. Cardinality(A \cup B) = Cardinality(A) + Cardinality(B) - Cardinality(A \cap B)
    BY <1>1, FS_Union
  <2>2. Cardinality(A \cap B) = 0
    BY <1>3, FS_EmptySet
  <2> QED BY <1>1, <2>1, <2>2
<1> QED BY <1>1, <1>4, <1>5, FS_Subset DEF A, B, C

-----------------------------------------------------------------------------
(* The day streak with one request at a time. *)

OneAtATime == \A v, w \in Workers : v = w

\* A record whose times are past by t, and whose days were earned if callers
\* record an interaction on its own day.
RecordStands(activities, t, record) ==
  /\ record.streak_started_at <= record.last_activity_at /\ record.last_activity_at <= t
  /\ record.freeze_used_at # None => record.freeze_used_at <= t
  /\ SameDayCalls =>
       record.current <= Cardinality(ActiveDays(activities, Day(record.streak_started_at),
                                                Day(record.last_activity_at) + 1))

\* An offer of a streak that ended before the day of the offer.
OfferStands(activities, t, offer) ==
  /\ offer.preserved_started_at <= offer.offered_at /\ offer.offered_at <= t
  /\ SameDayCalls =>
       offer.preserved <= Cardinality(ActiveDays(activities, Day(offer.preserved_started_at),
                                                 Day(offer.offered_at)))

\* The freezes used before the month of t.
OthersEarlier(made, t) ==
  \A k \in DOMAIN made : made[k].status = "accepted" => ~ S!same_utc_month(made[k].answered_at, t)

OffersStand(activities, t, record, made) ==
  /\ \A k \in DOMAIN made : OfferStands(activities, t, made[k])
  /\ \A k, l \in DOMAIN made : made[k].offered_at = made[l].offered_at => k = l
  /\ \A k \in DOMAIN made : made[k].status = "accepted" =>
       /\ record # None /\ record.freeze_used_at # None /\ made[k].answered_at # None
       /\ made[k].answered_at <= record.freeze_used_at
  /\ \A k, l \in DOMAIN made :
       (k # l /\ made[k].status = "accepted" /\ made[l].status = "accepted")
         => ~ S!same_utc_month(made[k].answered_at, made[l].answered_at)

\* r is no reset of record.
NoLess(record, r) == r.current >= record.current /\ r.streak_started_at <= record.streak_started_at

Prior(activities, interaction, t) ==
  {k \in DOMAIN activities :
     k # interaction /\ activities[k] + WindowTicks >= t /\ activities[k] < t}

\* What a request's locals are worth, given the stores, at each of its calls.
StreakRequestOK(activities, t, record, made, label, j) ==
  /\ label # "idle" => /\ j.now <= t
                       /\ record # None => RecordStands(activities, j.now, record)
  /\ label \in {"processed", "continuity"} =>
       /\ j.existing = record /\ j.offer = None
       /\ SameDayCalls => Day(activities[j.interaction]) = Day(j.now)
  /\ label = "save" =>
       /\ RecordStands(activities, j.now, j.intended)
       /\ record # None =>
            /\ j.intended.freeze_used_at = record.freeze_used_at
            /\ Prior(activities, j.interaction, j.now) = {} \/ NoLess(record, j.intended)
  /\ (label \in {"save", "mark", "offer"} /\ j.offer # None) =>
       OfferStands(activities, j.now, j.offer) /\ j.offer.status = "offered"
  /\ label = "offer" => j.offer # None
  /\ label \in {"accept", "decline", "restore", "answer"} => OfferStands(activities, j.now, j.offer)
  /\ label = "restore" => /\ record # None
                          /\ RecordStands(activities, j.now, j.intended)
                          /\ NoLess(record, j.intended) /\ j.intended.freeze_used_at = j.now
  /\ label = "answer" => record # None /\ record.freeze_used_at = j.now
  /\ label \in {"restore", "answer"} => OthersEarlier(made, j.now)

StreakInv ==
  /\ streak # None => RecordStands(ledger, clock, streak)
  /\ OffersStand(ledger, clock, streak, offers)
  /\ \A w \in Workers : StreakRequestOK(ledger, clock, streak, offers, pc[w], job[w])

LEMMA StandsLater ==
  ASSUME NEW activities, NEW t \in Nat, NEW u \in Nat, t <= u
  PROVE  /\ \A record \in S!StreakRecord : RecordStands(activities, t, record) => RecordStands(activities, u, record)
         /\ \A offer \in S!FreezeOffer : OfferStands(activities, t, offer) => OfferStands(activities, u, offer)
<1>1. ASSUME NEW record \in S!StreakRecord, RecordStands(activities, t, record)
      PROVE  RecordStands(activities, u, record)
  <2>1. record.last_activity_at \in Nat /\ record.freeze_used_at \in Nat \cup {None}
    BY Fields
  <2>2. record.last_activity_at <= u
    BY <1>1, <2>1 DEF RecordStands
  <2>3. record.freeze_used_at # None => record.freeze_used_at <= u
    BY <1>1, <2>1 DEF RecordStands
  <2> QED BY <1>1, <2>2, <2>3 DEF RecordStands
<1>2. ASSUME NEW offer \in S!FreezeOffer, OfferStands(activities, t, offer)
      PROVE  OfferStands(activities, u, offer)
  <2>1. offer.offered_at \in Nat
    BY DEF S!FreezeOffer
  <2>2. offer.offered_at <= u
    BY <1>2, <2>1 DEF OfferStands
  <2> QED BY <1>2, <2>2 DEF OfferStands
<1> QED BY <1>1, <1>2

LEMMA StandsWithMore ==
  ASSUME S!StreakConstants, NEW activities \in Seq(Nat), NEW x \in Nat, NEW t
  PROVE  /\ \A record \in S!StreakRecord :
              RecordStands(activities, t, record) => RecordStands(Append(activities, x), t, record)
         /\ \A offer \in S!FreezeOffer :
              OfferStands(activities, t, offer) => OfferStands(Append(activities, x), t, offer)
<1> DEFINE more == Append(activities, x)
<1>1. more \in Seq(Nat)
  OBVIOUS
<1>2. \A a, b : Cardinality(ActiveDays(activities, a, b)) <= Cardinality(ActiveDays(more, a, b))
  BY MoreActivities
<1> HIDE DEF more
<1>3. \A a, b : /\ Cardinality(ActiveDays(activities, a, b)) \in Nat
                /\ Cardinality(ActiveDays(more, a, b)) \in Nat
  BY <1>1, DaysFinite
<1>4. ASSUME NEW record \in S!StreakRecord, RecordStands(activities, t, record)
      PROVE  RecordStands(more, t, record)
  <2> DEFINE a == Day(record.streak_started_at)
             b == Day(record.last_activity_at) + 1
  <2>1. record.current \in Nat
    BY Fields
  <2>2. SameDayCalls => record.current <= Cardinality(ActiveDays(activities, a, b))
    BY <1>4 DEF RecordStands
  <2> HIDE DEF a, b
  <2>3. SameDayCalls => record.current <= Cardinality(ActiveDays(more, a, b))
    BY <1>2, <1>3, <2>1, <2>2
  <2> QED BY <1>4, <2>3 DEF RecordStands, a, b
<1>5. ASSUME NEW offer \in S!FreezeOffer, OfferStands(activities, t, offer)
      PROVE  OfferStands(more, t, offer)
  <2> DEFINE a == Day(offer.preserved_started_at)
             b == Day(offer.offered_at)
  <2>1. offer.preserved \in Nat
    BY DEF S!FreezeOffer
  <2>2. SameDayCalls => offer.preserved <= Cardinality(ActiveDays(activities, a, b))
    BY <1>5 DEF OfferStands
  <2> HIDE DEF a, b
  <2>3. SameDayCalls => offer.preserved <= Cardinality(ActiveDays(more, a, b))
    BY <1>2, <1>3, <2>1, <2>2
  <2> QED BY <1>5, <2>3 DEF OfferStands, a, b
<1> QED BY <1>4, <1>5 DEF more

\* The rules keep a record standing, and what is no outage of the read model
\* resets it only if there was nothing prior.
LEMMA StartStands ==
  ASSUME S!StreakConstants, NEW activities \in Seq(Nat), NEW t \in Nat,
         SameDayCalls => \E k \in DOMAIN activities : Day(activities[k]) = Day(t),
         NEW r, r \in S!StreakRecord, r.current = 1, r.streak_started_at = t, r.last_activity_at = t,
         r.freeze_used_at # None => r.freeze_used_at <= t
  PROVE  RecordStands(activities, t, r)
<1>1. Day(t) \in Nat
  BY DayIs
<1>2. SameDayCalls => 1 <= Cardinality(ActiveDays(activities, Day(t), Day(t) + 1))
  <2> DEFINE A == Cardinality(ActiveDays(activities, Day(t), Day(t)))
             B == Cardinality(ActiveDays(activities, Day(t), Day(t) + 1))
  <2>1. A \in Nat /\ B \in Nat
    BY DaysFinite
  <2>2. SameDayCalls => A + 1 <= B
    BY <1>1, OneMoreDay
  <2> HIDE DEF A, B
  <2>3. SameDayCalls => 1 <= B
    BY <2>1, <2>2
  <2> QED BY <2>3 DEF B
<1> QED BY <1>2 DEF RecordStands

LEMMA TouchStands ==
  ASSUME S!StreakConstants, NEW activities \in Seq(Nat), NEW t \in Nat,
         NEW record \in S!StreakRecord, RecordStands(activities, t, record)
  PROVE  /\ RecordStands(activities, t, S!_touch(record, t))
         /\ S!_touch(record, t).freeze_used_at = record.freeze_used_at
         /\ NoLess(record, S!_touch(record, t))
<1> DEFINE r == S!_touch(record, t)
           s == record.streak_started_at
           l == record.last_activity_at
<1>1. Is(r, record.current, record.longest, t, s, record.freeze_used_at)
  BY Touches
<1>2. /\ record.current \in Nat /\ s \in Nat /\ l \in Nat
      /\ s <= l /\ l <= t /\ (record.freeze_used_at # None => record.freeze_used_at <= t)
      /\ (SameDayCalls => record.current <= Cardinality(ActiveDays(activities, Day(s), Day(l) + 1)))
  BY Fields DEF RecordStands
<1> HIDE DEF r, s, l
<1>3. s <= t
  BY <1>2
<1>4. Day(s) \in Nat /\ Day(l) + 1 \in Nat /\ Day(t) + 1 \in Nat /\ Day(l) + 1 <= Day(t) + 1
  <2>1. Day(s) \in Nat /\ Day(l) \in Nat /\ Day(t) \in Nat /\ Day(l) <= Day(t)
    BY <1>2, DayIs
  <2> QED BY <2>1
<1>5. SameDayCalls => record.current <= Cardinality(ActiveDays(activities, Day(s), Day(t) + 1))
  <2> DEFINE A == Cardinality(ActiveDays(activities, Day(s), Day(l) + 1))
             B == Cardinality(ActiveDays(activities, Day(s), Day(t) + 1))
  <2>1. A \in Nat /\ B \in Nat
    BY DaysFinite
  <2>2. A <= B
    BY <1>4, LongerStretch
  <2>3. SameDayCalls => record.current <= A
    BY <1>2
  <2> HIDE DEF A, B
  <2>4. SameDayCalls => record.current <= B
    BY <1>2, <2>1, <2>2, <2>3
  <2> QED BY <2>4 DEF B
<1>6. /\ r.streak_started_at = s /\ r.last_activity_at = t /\ r.current = record.current
      /\ r.freeze_used_at = record.freeze_used_at
  BY <1>1 DEF Is
<1>7. RecordStands(activities, t, r)
  BY <1>2, <1>3, <1>5, <1>6 DEF RecordStands
<1>8. NoLess(record, r)
  BY <1>2, <1>6 DEF NoLess, s
<1> QED BY <1>6, <1>7, <1>8 DEF r

LEMMA IncrementStands ==
  ASSUME S!StreakConstants, NEW activities \in Seq(Nat), NEW t \in Nat,
         SameDayCalls => \E k \in DOMAIN activities : Day(activities[k]) = Day(t),
         NEW record \in S!StreakRecord, RecordStands(activities, t, record),
         ~ S!same_utc_day(record.last_activity_at, t)
  PROVE  /\ RecordStands(activities, t, S!apply_increment(record, t))
         /\ S!apply_increment(record, t).freeze_used_at = record.freeze_used_at
         /\ NoLess(record, S!apply_increment(record, t))
<1> DEFINE r == S!apply_increment(record, t)
           s == record.streak_started_at
           l == record.last_activity_at
           n == record.current
<1>1. /\ r.current = n + 1 /\ r.last_activity_at = t /\ r.streak_started_at = s
      /\ r.freeze_used_at = record.freeze_used_at
  BY Increments DEF Is
<1>2. /\ n \in Nat /\ s \in Nat /\ l \in Nat
      /\ s <= l /\ l <= t /\ (record.freeze_used_at # None => record.freeze_used_at <= t)
      /\ (SameDayCalls => n <= Cardinality(ActiveDays(activities, Day(s), Day(l) + 1)))
      /\ Day(l) # Day(t)
  BY Fields, DayIs DEF RecordStands
<1> HIDE DEF r, s, l, n
<1>3. s <= t
  BY <1>2
<1>4. Day(s) \in Nat /\ Day(l) + 1 \in Nat /\ Day(t) \in Nat /\ Day(s) <= Day(t) /\ Day(l) + 1 <= Day(t)
  <2>1. /\ Day(s) \in Nat /\ Day(l) \in Nat /\ Day(t) \in Nat
        /\ Day(s) <= Day(t) /\ Day(l) <= Day(t)
    BY <1>2, <1>3, DayIs
  <2> QED BY <1>2, <2>1
<1>5. SameDayCalls => n + 1 <= Cardinality(ActiveDays(activities, Day(s), Day(t) + 1))
  <2> DEFINE A == Cardinality(ActiveDays(activities, Day(s), Day(l) + 1))
             B == Cardinality(ActiveDays(activities, Day(s), Day(t) + 1))
  <2>1. A \in Nat /\ B \in Nat
    BY DaysFinite
  <2>2. SameDayCalls => A + 1 <= B
    <3> SUFFICES ASSUME SameDayCalls PROVE A + 1 <= B
      OBVIOUS
    <3> DEFINE b == Day(l) + 1
               d == Day(t)
    <3>1. /\ b \in Nat /\ d \in Nat /\ b <= d /\ Day(s) <= d /\ Day(s) \in Nat
          /\ \E k \in DOMAIN activities : Day(activities[k]) = d
      BY <1>4
    <3> HIDE DEF b, d
    <3>2. Cardinality(ActiveDays(activities, Day(s), b)) + 1
            <= Cardinality(ActiveDays(activities, Day(s), d + 1))
      BY <3>1, OneMoreDay
    <3> QED BY <3>2 DEF b, d
  <2>3. SameDayCalls => n <= A
    BY <1>2
  <2> HIDE DEF A, B
  <2>4. SameDayCalls => n + 1 <= B
    BY <1>2, <2>1, <2>2, <2>3
  <2> QED BY <2>4 DEF B
<1>6. RecordStands(activities, t, r)
  <2>1. t <= t
    OBVIOUS
  <2> QED BY <1>1, <1>2, <1>3, <1>5, <2>1 DEF RecordStands
<1>7. NoLess(record, r)
  <2>1. n + 1 >= n /\ s <= s
    BY <1>2
  <2> QED BY <1>1, <2>1 DEF NoLess, n, s
<1> QED BY <1>1, <1>6, <1>7 DEF r

LEMMA NextRecordStands ==
  ASSUME S!StreakConstants, NEW activities \in Seq(Nat), NEW t \in Nat,
         SameDayCalls => \E k \in DOMAIN activities : Day(activities[k]) = Day(t),
         NEW record \in S!StreakRecord \cup {None},
         record # None => RecordStands(activities, t, record),
         NEW prior \in BOOLEAN, NEW degraded \in BOOLEAN
  PROVE  /\ RecordStands(activities, t, S!_next_record(record, t, prior, degraded))
         /\ record # None =>
              /\ S!_next_record(record, t, prior, degraded).freeze_used_at = record.freeze_used_at
              /\ prior \/ degraded => NoLess(record, S!_next_record(record, t, prior, degraded))
<1> DEFINE outcome == S!decide(record, t, prior)
           r == S!_next_record(record, t, prior, degraded)
<1>1. /\ outcome \in {"started", "unchanged_same_day", "incremented", "reset"}
      /\ outcome = "started" <=> record = None
      /\ outcome = "incremented" => ~ S!same_utc_day(record.last_activity_at, t)
      /\ outcome = "reset" => ~ prior
  BY Outcomes
<1>2. /\ outcome = "started" => r = S!apply_start(t)
      /\ outcome = "unchanged_same_day" => r = S!_touch(record, t)
      /\ outcome = "incremented" => r = S!apply_increment(record, t)
      /\ outcome = "reset" => r = IF degraded THEN S!_touch(record, t) ELSE S!apply_reset(record, t)
  BY NextRecordIs
<1> HIDE DEF outcome, r
<1>3. CASE outcome = "started"
  <2>1. Is(r, 1, 1, t, t, None)
    BY <1>2, <1>3, Starts
  <2> QED BY <1>1, <1>3, <2>1, StartStands DEF Is, r
<1>4. CASE outcome = "unchanged_same_day" \/ (outcome = "reset" /\ degraded)
  <2>1. record \in S!StreakRecord /\ record # None /\ r = S!_touch(record, t)
    BY <1>1, <1>2, <1>4
  <2> QED BY <2>1, TouchStands DEF r
<1>5. CASE outcome = "incremented"
  <2>1. record \in S!StreakRecord /\ record # None /\ r = S!apply_increment(record, t)
    BY <1>1, <1>2, <1>5
  <2> QED BY <1>1, <1>5, <2>1, IncrementStands DEF r
<1>6. CASE outcome = "reset" /\ ~ degraded
  <2>1. record \in S!StreakRecord /\ record # None /\ r = S!apply_reset(record, t)
    BY <1>1, <1>2, <1>6
  <2>2. Is(r, 1, S!Later(record.longest, record.current), t, t, record.freeze_used_at)
    BY <2>1, Resets
  <2>3. r.freeze_used_at # None => r.freeze_used_at <= t
    BY <2>1, <2>2 DEF Is, RecordStands
  <2>4. RecordStands(activities, t, r)
    BY <2>2, <2>3, StartStands DEF Is
  <2> QED BY <1>1, <1>6, <2>1, <2>2, <2>4 DEF Is, r
<1> QED BY <1>1, <1>3, <1>4, <1>5, <1>6

LEMMA NewOfferStands ==
  ASSUME S!StreakConstants, NEW activities \in Seq(Nat), NEW t \in Nat,
         NEW record \in S!StreakRecord, RecordStands(activities, t, record),
         ~ S!same_utc_day(record.last_activity_at, t)
  PROVE  /\ OfferStands(activities, t, S!NewOffer(record, t))
         /\ S!NewOffer(record, t).status = "offered"
<1> DEFINE s == record.streak_started_at
           l == record.last_activity_at
           n == record.current
           o == S!NewOffer(record, t)
<1>1. /\ o.status = "offered" /\ o.offered_at = t /\ o.preserved = n /\ o.preserved_started_at = s
  BY DEF S!NewOffer
<1>2. /\ n \in Nat /\ s \in Nat /\ l \in Nat /\ s <= l /\ l <= t
      /\ (SameDayCalls => n <= Cardinality(ActiveDays(activities, Day(s), Day(l) + 1)))
      /\ Day(l) # Day(t)
  BY Fields, DayIs DEF RecordStands
<1> HIDE DEF s, l, n, o
<1>3. s <= t /\ t <= t
  BY <1>2
<1>4. Day(s) \in Nat /\ Day(l) + 1 \in Nat /\ Day(t) \in Nat /\ Day(l) + 1 <= Day(t)
  <2>1. /\ Day(s) \in Nat /\ Day(l) \in Nat /\ Day(t) \in Nat /\ Day(l) <= Day(t)
    BY <1>2, <1>3, DayIs
  <2> QED BY <1>2, <2>1
<1>5. SameDayCalls => n <= Cardinality(ActiveDays(activities, Day(s), Day(t)))
  <2> DEFINE A == Cardinality(ActiveDays(activities, Day(s), Day(l) + 1))
             B == Cardinality(ActiveDays(activities, Day(s), Day(t)))
  <2>1. A \in Nat /\ B \in Nat
    BY DaysFinite
  <2>2. A <= B
    BY <1>4, LongerStretch
  <2>3. SameDayCalls => n <= A
    BY <1>2
  <2> HIDE DEF A, B
  <2>4. SameDayCalls => n <= B
    BY <1>2, <2>1, <2>2, <2>3
  <2> QED BY <2>4 DEF B
<1> QED BY <1>1, <1>3, <1>5 DEF OfferStands, o

\* A restored streak has the days of both: they do not meet, since the current
\* one began on the day of the offer.
LEMMA RestoreStands ==
  ASSUME S!StreakConstants, NEW activities \in Seq(Nat), NEW t \in Nat,
         NEW record \in S!StreakRecord, RecordStands(activities, t, record),
         NEW offer \in S!FreezeOffer, OfferStands(activities, t, offer),
         record.streak_started_at = offer.offered_at
  PROVE  /\ RecordStands(activities, t, S!apply_freeze_acceptance(record, offer, t))
         /\ S!apply_freeze_acceptance(record, offer, t).freeze_used_at = t
         /\ NoLess(record, S!apply_freeze_acceptance(record, offer, t))
<1> DEFINE r == S!apply_freeze_acceptance(record, offer, t)
           p == offer.preserved
           n == record.current
           b == offer.preserved_started_at
           s == record.streak_started_at
           l == record.last_activity_at
<1>1. /\ r.current = p + n /\ r.last_activity_at = l /\ r.streak_started_at = b
      /\ r.freeze_used_at = t
  BY Restores DEF Is
<1>2. /\ n \in Nat /\ s \in Nat /\ l \in Nat /\ s <= l /\ l <= t
      /\ (SameDayCalls => n <= Cardinality(ActiveDays(activities, Day(s), Day(l) + 1)))
  BY Fields DEF RecordStands
<1>3. /\ p \in Nat /\ b \in Nat /\ b <= s
      /\ (SameDayCalls => p <= Cardinality(ActiveDays(activities, Day(b), Day(s))))
  BY DEF S!FreezeOffer, OfferStands
<1> HIDE DEF r, p, n, b, s, l
<1>4. b <= l /\ t <= t
  BY <1>2, <1>3
<1>5. SameDayCalls => p + n <= Cardinality(ActiveDays(activities, Day(b), Day(l) + 1))
  <2> DEFINE A == Cardinality(ActiveDays(activities, Day(b), Day(s)))
             B == Cardinality(ActiveDays(activities, Day(s), Day(l) + 1))
             C == Cardinality(ActiveDays(activities, Day(b), Day(l) + 1))
             e == Day(l) + 1
  <2>1. A \in Nat /\ B \in Nat /\ C \in Nat
    BY DaysFinite
  <2>2. Day(b) \in Nat /\ Day(s) \in Nat /\ e \in Nat /\ Day(b) <= Day(s) /\ Day(s) <= e
    <3>1. /\ Day(b) \in Nat /\ Day(s) \in Nat /\ Day(l) \in Nat
          /\ Day(b) <= Day(s) /\ Day(s) <= Day(l)
      BY <1>2, <1>3, DayIs
    <3> QED BY <3>1
  <2>3. A + B <= C
    <3> HIDE DEF e
    <3>1. Cardinality(ActiveDays(activities, Day(b), Day(s)))
            + Cardinality(ActiveDays(activities, Day(s), e))
            <= Cardinality(ActiveDays(activities, Day(b), e))
      BY <2>2, TwoStretches
    <3> QED BY <3>1 DEF e
  <2>4. SameDayCalls => p <= A /\ n <= B
    BY <1>2, <1>3
  <2> HIDE DEF A, B, C
  <2>5. SameDayCalls => p + n <= C
    BY <1>2, <1>3, <2>1, <2>3, <2>4
  <2> QED BY <2>5 DEF C
<1>6. RecordStands(activities, t, r)
  BY <1>1, <1>2, <1>4, <1>5 DEF RecordStands
<1>7. NoLess(record, r)
  <2>1. p + n >= n
    BY <1>2, <1>3
  <2> QED BY <1>1, <1>3, <2>1 DEF NoLess, n, s
<1> QED BY <1>1, <1>6, <1>7 DEF r

LEMMA UpsertPuts ==
  ASSUME offers \in Seq(S!FreezeOffer), NEW offer \in S!FreezeOffer, NEW put, put = S!Upsert(offer),
         \A k, l \in DOMAIN offers : offers[k].offered_at = offers[l].offered_at => k = l
  PROVE  /\ \A k \in DOMAIN put : \/ put[k] = offer
                                  \/ k \in DOMAIN offers /\ put[k] = offers[k]
         /\ \A k, l \in DOMAIN put : put[k].offered_at = put[l].offered_at => k = l
<1>1. CASE \E k \in DOMAIN offers : offers[k].offered_at = offer.offered_at
  <2>1. put = [k \in DOMAIN offers |->
                 IF offers[k].offered_at = offer.offered_at THEN offer ELSE offers[k]]
    BY <1>1 DEF S!Upsert
  <2>2. \A k \in DOMAIN put : put[k].offered_at = offers[k].offered_at
    BY <2>1
  <2> QED BY <2>1, <2>2
<1>2. CASE ~ \E k \in DOMAIN offers : offers[k].offered_at = offer.offered_at
  <2> DEFINE n == Len(offers)
  <2>1. put = Append(offers, offer)
    BY <1>2 DEF S!Upsert
  <2>2. /\ n \in Nat /\ DOMAIN offers = 1..n /\ DOMAIN put = 1..(n + 1)
        /\ put[n + 1] = offer /\ \A k \in 1..n : put[k] = offers[k]
    BY <2>1
  <2> HIDE DEF n
  <2>3. \A k \in DOMAIN put : k = n + 1 \/ k \in DOMAIN offers
    BY <2>2
  <2>4. \A k \in DOMAIN offers : put[k].offered_at # offer.offered_at
    BY <1>2, <2>2
  <2> QED BY <2>2, <2>3, <2>4
<1> QED BY <1>1, <1>2

\* Saving an offer leaves the offers standing, an acceptance if it is the first
\* of its month and the record has it.
LEMMA SavingStands ==
  ASSUME S!StreakConstants, NEW activities, NEW t, NEW record,
         offers \in Seq(S!FreezeOffer), OffersStand(activities, t, record, offers),
         NEW offer \in S!FreezeOffer, OfferStands(activities, t, offer),
         offer.status = "accepted" =>
           /\ record # None /\ offer.answered_at \in Nat
           /\ record.freeze_used_at = offer.answered_at
           /\ OthersEarlier(offers, offer.answered_at),
         S!_save_offer(offer)
  PROVE  OffersStand(activities, t, record, offers')
<1>1. CASE UNCHANGED offers
  BY <1>1
<1>2. CASE offers' = S!Upsert(offer)
  <2> DEFINE put == offers'
  <2>1. /\ \A k \in DOMAIN put : \/ put[k] = offer
                                 \/ k \in DOMAIN offers /\ put[k] = offers[k]
        /\ \A k, l \in DOMAIN put : put[k].offered_at = put[l].offered_at => k = l
    <3>1. \A k, l \in DOMAIN offers : offers[k].offered_at = offers[l].offered_at => k = l
      BY DEF OffersStand
    <3> QED BY <1>2, <3>1, UpsertPuts
  <2> HIDE DEF put
  <2>2. \A k \in DOMAIN put : OfferStands(activities, t, put[k])
    BY <2>1 DEF OffersStand
  <2>3. ASSUME NEW k \in DOMAIN put, put[k].status = "accepted"
        PROVE  /\ record # None /\ record.freeze_used_at # None /\ put[k].answered_at # None
               /\ put[k].answered_at <= record.freeze_used_at
    <3>1. CASE put[k] = offer
      <4>1. offer.answered_at \in Nat /\ offer.answered_at <= offer.answered_at
            /\ offer.answered_at # None
        BY <2>3, <3>1 DEF S!StreakConstants
      <4> QED BY <2>3, <3>1, <4>1
    <3>2. CASE k \in DOMAIN offers /\ put[k] = offers[k]
      BY <2>3, <3>2 DEF OffersStand
    <3> QED BY <2>1, <3>1, <3>2
  <2>4. ASSUME NEW k \in DOMAIN put, NEW l \in DOMAIN put, k # l,
               put[k].status = "accepted", put[l].status = "accepted"
        PROVE  ~ S!same_utc_month(put[k].answered_at, put[l].answered_at)
    <3>1. ~ (put[k] = offer /\ put[l] = offer)
      BY <2>1, <2>4
    <3>2. CASE put[k] = offer
      BY <2>1, <2>4, <3>1, <3>2 DEF OthersEarlier, S!same_utc_month
    <3>3. CASE put[l] = offer
      BY <2>1, <2>4, <3>1, <3>3 DEF OthersEarlier, S!same_utc_month
    <3>4. CASE put[k] # offer /\ put[l] # offer
      BY <2>1, <2>4, <3>4 DEF OffersStand
    <3> QED BY <3>2, <3>3, <3>4
  <2> QED BY <2>1, <2>2, <2>3, <2>4 DEF OffersStand, put
<1> QED BY <1>1, <1>2 DEF S!_save_offer

\* What a handler that looks for an open offer leaves, and what it finds.
LEMMA OpenOfferStands ==
  ASSUME S!StreakConstants, NEW activities, NEW t, NEW record,
         offers \in Seq(S!FreezeOffer), OffersStand(activities, t, record, offers),
         NEW u, NEW found, S!_open_offer(u, found)
  PROVE  /\ OffersStand(activities, t, record, offers')
         /\ found # None => OfferStands(activities, t, found)
<1> DEFINE expired == [S!get_latest EXCEPT !.status = "expired"]
<1>1. S!get_latest # None => OfferStands(activities, t, S!get_latest)
  BY LatestOffer DEF OffersStand
<1>2. CASE S!get_latest # None /\ found = S!get_latest /\ UNCHANGED offers
  BY <1>1, <1>2
<1>3. CASE S!get_latest # None /\ found = None /\ S!_save_offer(expired)
  <2>1. /\ expired \in S!FreezeOffer /\ expired.status = "expired"
        /\ expired.preserved = S!get_latest.preserved
        /\ expired.preserved_started_at = S!get_latest.preserved_started_at
        /\ expired.offered_at = S!get_latest.offered_at
    BY <1>3, LatestOffer DEF S!FreezeOffer, S!FreezeOfferStatus
  <2> HIDE DEF expired
  <2>2. OfferStands(activities, t, expired)
    BY <1>1, <1>3, <2>1 DEF OfferStands
  <2> QED BY <1>3, <2>1, <2>2, SavingStands
<1>4. CASE found = None /\ UNCHANGED offers
  BY <1>4
<1> QED BY <1>2, <1>3, <1>4 DEF S!_open_offer

LEMMA MonthsPass ==
  ASSUME S!StreakConstants, NEW u \in Nat, NEW v \in Nat, NEW t \in Nat, u <= v, v <= t,
         ~ S!same_utc_month(v, t)
  PROVE  ~ S!same_utc_month(u, t)
<1> DEFINE month(x) == S!utc_day(x) \div DaysPerMonth
<1>1. /\ S!utc_day(u) \in Nat /\ S!utc_day(v) \in Nat /\ S!utc_day(t) \in Nat
      /\ S!utc_day(u) <= S!utc_day(v) /\ S!utc_day(v) <= S!utc_day(t)
  BY DayMonotone
<1>2. DaysPerMonth \in Nat \ {0}
  BY DEF S!StreakConstants
<1>3. /\ month(u) \in Nat /\ month(v) \in Nat /\ month(t) \in Nat
      /\ month(u) <= month(v) /\ month(v) <= month(t)
  <2> DEFINE du == S!utc_day(u)
             dv == S!utc_day(v)
             dt == S!utc_day(t)
  <2>1. du \in Nat /\ dv \in Nat /\ dt \in Nat /\ du <= dv /\ dv <= dt
    BY <1>1
  <2> HIDE DEF du, dv, dt
  <2>2. /\ du \div DaysPerMonth \in Nat /\ dv \div DaysPerMonth \in Nat
        /\ du \div DaysPerMonth <= dv \div DaysPerMonth
    BY <1>2, <2>1, DivMonotone
  <2>3. /\ dt \div DaysPerMonth \in Nat
        /\ dv \div DaysPerMonth <= dt \div DaysPerMonth
    BY <1>2, <2>1, DivMonotone
  <2> QED BY <2>2, <2>3 DEF du, dv, dt
<1>4. month(v) # month(t)
  BY DEF S!same_utc_month
<1> HIDE DEF month
<1>5. month(u) # month(t)
  BY <1>3, <1>4
<1> QED BY <1>5 DEF month, S!same_utc_month

LEMMA StreakAlone ==
  ASSUME OneAtATime, StreakTypeInv, NEW w \in Workers, NEW label, NEW j, S!Step(w, label, j),
         UNCHANGED <<clock, ledger>>,
         streak' # None => RecordStands(ledger, clock, streak'),
         OffersStand(ledger, clock, streak', offers'),
         StreakRequestOK(ledger, clock, streak', offers', label, j)
  PROVE  StreakInv'
<1>1. \A v \in Workers : pc'[v] = label /\ job'[v] = j
  BY DEF OneAtATime, S!Step, StreakTypeInv, S!TypeOK
<1>2. clock' = clock /\ ledger' = ledger
  OBVIOUS
<1>3. (streak # None => RecordStands(ledger, clock, streak))'
  BY <1>2
<1>4. OffersStand(ledger, clock, streak, offers)'
  BY <1>2
<1>5. ASSUME NEW v \in Workers
      PROVE  StreakRequestOK(ledger, clock, streak, offers, pc[v], job[v])'
  BY <1>1, <1>2
<1> QED BY <1>3, <1>4, <1>5 DEF StreakInv

\* What StreakInv says of a request at work.
LEMMA StreakFacts ==
  ASSUME S!StreakConstants, StreakTypeInv, StreakInv, NEW w \in Workers
  PROVE  /\ clock \in Nat /\ ledger \in Seq(Nat) /\ offers \in Seq(S!FreezeOffer)
         /\ streak \in S!StreakRecord \cup {None}
         /\ streak # None => streak \in S!StreakRecord
         /\ job[w] \in S!Job /\ job[w].now \in Nat
         /\ StreakJobOK(ledger, pc[w], job[w])
         /\ streak # None => RecordStands(ledger, clock, streak)
         /\ OffersStand(ledger, clock, streak, offers)
         /\ StreakRequestOK(ledger, clock, streak, offers, pc[w], job[w])
         /\ pc[w] # "idle" => job[w].now <= clock
<1>1. StreakRequestOK(ledger, clock, streak, offers, pc[w], job[w])
  BY DEF StreakInv
<1>2. /\ clock \in Nat /\ ledger \in Seq(Nat) /\ offers \in Seq(S!FreezeOffer)
      /\ streak \in S!StreakRecord \cup {None}
      /\ job[w] \in S!Job /\ StreakJobOK(ledger, pc[w], job[w])
  BY StreakTypeFacts DEF StreakTyped
<1>3. job[w].now \in Nat
  BY <1>2 DEF S!Job
<1> QED BY <1>1, <1>2, <1>3 DEF StreakInv, StreakRequestOK

LEMMA StreakIdles ==
  \A activities, t, record, made, j : StreakRequestOK(activities, t, record, made, "idle", j)
BY DEF StreakRequestOK

\* A request that only looks at the offers from here on.
LEMMA Looks ==
  ASSUME NEW activities, NEW t, NEW record, NEW made, NEW label \in {"badges", "open_offer"}, NEW j,
         j.now <= t, record # None => RecordStands(activities, j.now, record)
  PROVE  StreakRequestOK(activities, t, record, made, label, j)
BY DEF StreakRequestOK

LEMMA RecordSteps ==
  ASSUME S!StreakConstants, OneAtATime, StreakTypeInv, StreakInv, NEW w \in Workers,
         S!BeginRecord(w) \/ S!CheckProcessed(w) \/ S!ReadContinuity(w) \/ S!SaveStreak(w)
  PROVE  StreakInv'
<1>0. /\ clock \in Nat /\ ledger \in Seq(Nat) /\ offers \in Seq(S!FreezeOffer)
      /\ streak \in S!StreakRecord \cup {None}
      /\ streak # None => streak \in S!StreakRecord
      /\ job[w] \in S!Job /\ job[w].now \in Nat
      /\ StreakJobOK(ledger, pc[w], job[w])
      /\ streak # None => RecordStands(ledger, clock, streak)
      /\ OffersStand(ledger, clock, streak, offers)
      /\ StreakRequestOK(ledger, clock, streak, offers, pc[w], job[w])
      /\ pc[w] # "idle" => job[w].now <= clock
  BY StreakFacts
<1>1. S!Clock(w).now = job[w].now
  BY DEF S!Clock, S!NoJob
<1>2. CASE S!BeginRecord(w)
  <2>1. PICK i \in DOMAIN ledger :
          /\ SameDayCalls => S!same_utc_day(ledger[i], clock)
          /\ S!Step(w, "processed", [S!NoJob EXCEPT !.now = clock, !.interaction = i, !.existing = streak])
    BY <1>2 DEF S!BeginRecord
  <2> DEFINE j == [S!NoJob EXCEPT !.now = clock, !.interaction = i, !.existing = streak]
  <2>2. UNCHANGED <<clock, ledger, streak, offers>>
    BY <1>2 DEF S!BeginRecord, S!stores
  <2>3. j.now = clock /\ j.interaction = i /\ j.existing = streak /\ j.offer = None /\ clock <= clock
    BY <1>0 DEF S!NoJob
  <2>4. SameDayCalls => Day(ledger[i]) = Day(clock)
    BY <2>1, DayIs
  <2> HIDE DEF j
  <2>5. StreakRequestOK(ledger, clock, streak, offers, "processed", j)
    BY <1>0, <2>3, <2>4 DEF StreakRequestOK
  <2> QED BY <1>0, <2>1, <2>2, <2>5, StreakAlone DEF j
<1>3. CASE S!CheckProcessed(w)
  <2>1. UNCHANGED <<clock, ledger, streak, offers>> /\ pc[w] = "processed"
    BY <1>3 DEF S!CheckProcessed, S!stores, S!At
  <2>2. StreakRequestOK(ledger, clock, streak, offers, "open_offer", S!Clock(w))
    BY <1>0, <1>1, <2>1, Looks DEF StreakRequestOK
  <2>3. StreakRequestOK(ledger, clock, streak, offers, "continuity", job[w])
    BY <1>0, <2>1 DEF StreakRequestOK
  <2>4. \/ S!Step(w, "open_offer", S!Clock(w)) \/ S!Step(w, "continuity", job[w])
        \/ S!Step(w, "idle", S!NoJob)
    BY <1>3 DEF S!CheckProcessed, S!End
  <2>5. StreakRequestOK(ledger, clock, streak, offers, "idle", S!NoJob)
    BY StreakIdles
  <2> QED BY <1>0, <2>1, <2>2, <2>3, <2>4, <2>5, StreakAlone
<1>4. CASE S!ReadContinuity(w)
  <2> DEFINE j == job[w]
  <2>1. pc[w] = "continuity" /\ UNCHANGED <<clock, ledger, streak, offers>>
    BY <1>4 DEF S!ReadContinuity, S!stores, S!At
  <2>2. PICK degraded \in BOOLEAN :
          LET prior == IF degraded THEN S!PriorFromRecord(j.existing, j.now)
                       ELSE S!PriorInWindow(j.interaction, j.now) # {}
              resets == S!decide(j.existing, j.now, prior) = "reset" /\ ~ degraded
              next == [j EXCEPT !.existing = None,
                                !.intended = S!_next_record(j.existing, j.now, prior, degraded)]
          IN \/ S!Step(w, "save", next)
             \/ /\ resets /\ S!eligible_for_freeze_offer(j.existing, j.now)
                /\ S!Step(w, "save", [next EXCEPT !.offer = S!NewOffer(j.existing, j.now)])
    BY <1>4 DEF S!ReadContinuity
  <2> DEFINE prior == IF degraded THEN S!PriorFromRecord(j.existing, j.now)
                      ELSE S!PriorInWindow(j.interaction, j.now) # {}
             record == S!_next_record(j.existing, j.now, prior, degraded)
             offer == S!NewOffer(j.existing, j.now)
             next == [j EXCEPT !.existing = None, !.intended = record]
             offered == [next EXCEPT !.offer = offer]
             resets == S!decide(j.existing, j.now, prior) = "reset" /\ ~ degraded
  <2>3. /\ j \in S!Job /\ j.now \in Nat /\ j.now <= clock
        /\ j.existing = streak /\ j.offer = None /\ j.interaction \in DOMAIN ledger
        /\ SameDayCalls => Day(ledger[j.interaction]) = Day(j.now)
        /\ streak # None => RecordStands(ledger, j.now, streak)
    BY <1>0, <2>1 DEF StreakRequestOK, StreakJobOK
  <2>4. ~ prior /\ ~ degraded => Prior(ledger, j.interaction, j.now) = {}
    BY DEF S!PriorInWindow, Prior
  <2>5. resets => streak # None /\ ~ S!same_utc_day(streak.last_activity_at, j.now)
    <3> HIDE DEF prior, j
    <3> QED BY <2>3, Outcomes
  <2>6. S!Step(w, "save", next) \/ (resets /\ S!Step(w, "save", offered))
    BY <2>2
  <2> HIDE DEF prior, resets
  <2>7. /\ RecordStands(ledger, j.now, record)
        /\ streak # None =>
             /\ record.freeze_used_at = streak.freeze_used_at
             /\ Prior(ledger, j.interaction, j.now) = {} \/ NoLess(streak, record)
    <3> HIDE DEF j
    <3>1. /\ SameDayCalls => \E k \in DOMAIN ledger : Day(ledger[k]) = Day(j.now)
          /\ prior \in BOOLEAN /\ ledger \in Seq(Nat) /\ j.now \in Nat
          /\ streak \in S!StreakRecord \cup {None}
          /\ streak # None => RecordStands(ledger, j.now, streak)
      BY <1>0, <2>3 DEF prior, S!PriorFromRecord
    <3> DEFINE r == S!_next_record(streak, j.now, prior, degraded)
    <3>2. /\ RecordStands(ledger, j.now, r)
          /\ streak # None => /\ r.freeze_used_at = streak.freeze_used_at
                              /\ prior \/ degraded => NoLess(streak, r)
      <4> DEFINE t == j.now
                 rec == streak
      <4>1. /\ SameDayCalls => \E k \in DOMAIN ledger : Day(ledger[k]) = Day(t)
            /\ ledger \in Seq(Nat) /\ t \in Nat
            /\ rec \in S!StreakRecord \cup {None}
            /\ rec # None => RecordStands(ledger, t, rec)
            /\ prior \in BOOLEAN /\ degraded \in BOOLEAN
        BY <3>1
      <4> HIDE DEF t, rec
      <4>2. RecordStands(ledger, t, S!_next_record(rec, t, prior, degraded))
        BY <4>1, NextRecordStands
      <4>3. rec # None => S!_next_record(rec, t, prior, degraded).freeze_used_at = rec.freeze_used_at
        BY <4>1, NextRecordStands
      <4>4. rec # None /\ (prior \/ degraded) => NoLess(rec, S!_next_record(rec, t, prior, degraded))
        BY <4>1, NextRecordStands
      <4> QED BY <4>2, <4>3, <4>4 DEF t, rec
    <3>3. record = r
      BY <2>3
    <3> HIDE DEF r, record
    <3> QED BY <2>4, <3>2, <3>3
  <2>8. resets => OfferStands(ledger, j.now, offer) /\ offer.status = "offered"
    <3> HIDE DEF j
    <3> QED BY <1>0, <2>3, <2>5, NewOfferStands
  <2> HIDE DEF record, offer
  <2>9. /\ next.now = j.now /\ next.interaction = j.interaction /\ next.intended = record
        /\ next.offer = None
        /\ offered.now = j.now /\ offered.interaction = j.interaction /\ offered.intended = record
        /\ offered.offer = offer
    BY <2>3 DEF S!Job
  <2> HIDE DEF next, offered
  <2>10. StreakRequestOK(ledger, clock, streak, offers, "save", next)
    BY <2>3, <2>7, <2>9 DEF StreakRequestOK
  <2>11. resets => StreakRequestOK(ledger, clock, streak, offers, "save", offered)
    BY <2>3, <2>7, <2>8, <2>9 DEF StreakRequestOK
  <2> QED BY <1>0, <2>1, <2>6, <2>10, <2>11, StreakAlone
<1>5. CASE S!SaveStreak(w)
  <2> DEFINE j == [job[w] EXCEPT !.intended = None]
  <2>1. pc[w] = "save" /\ UNCHANGED <<clock, ledger, offers>>
    BY <1>5 DEF S!SaveStreak, S!At
  <2>2. CASE streak' = job[w].intended /\ S!Step(w, "mark", j)
    <3> DEFINE record == job[w].intended
    <3>1. /\ record \in S!StreakRecord /\ RecordStands(ledger, job[w].now, record)
          /\ streak # None => record.freeze_used_at = streak.freeze_used_at
          /\ job[w].offer # None => OfferStands(ledger, job[w].now, job[w].offer) /\ job[w].offer.status = "offered"
          /\ job[w].now <= clock
      BY <1>0, <2>1 DEF StreakRequestOK, StreakJobOK, Counted
    <3>2. j.now = job[w].now /\ j.offer = job[w].offer
      BY <1>0 DEF S!Job
    <3> HIDE DEF record, j
    <3>3. RecordStands(ledger, clock, record) /\ record # None
      BY <1>0, <3>1, StandsLater DEF S!StreakConstants
    <3>4. OffersStand(ledger, clock, record, offers)
      BY <1>0, <3>1, <3>3 DEF OffersStand
    <3>5. StreakRequestOK(ledger, clock, record, offers, "mark", j)
      BY <3>1, <3>2 DEF StreakRequestOK
    <3> QED BY <2>1, <2>2, <3>3, <3>4, <3>5, StreakAlone DEF record
  <2>3. CASE UNCHANGED streak /\ S!Step(w, "badges", S!Clock(w))
    <3>1. StreakRequestOK(ledger, clock, streak, offers, "badges", S!Clock(w))
      BY <1>0, <1>1, <2>1, Looks DEF StreakRequestOK
    <3> QED BY <1>0, <2>1, <2>3, <3>1, StreakAlone
  <2> QED BY <1>5, <2>2, <2>3 DEF S!SaveStreak
<1> QED BY <1>2, <1>3, <1>4, <1>5

LEMMA MarkSteps ==
  ASSUME S!StreakConstants, OneAtATime, StreakTypeInv, StreakInv, NEW w \in Workers,
         \/ S!MarkProcessed(w) \/ S!SaveNewOffer(w) \/ S!EvaluateBadges(w) \/ S!ReadOpenOffer(w)
         \/ S!GetState(w)
  PROVE  StreakInv'
<1>0. /\ clock \in Nat /\ ledger \in Seq(Nat) /\ offers \in Seq(S!FreezeOffer)
      /\ streak # None => streak \in S!StreakRecord
      /\ job[w] \in S!Job /\ job[w].now \in Nat
      /\ StreakJobOK(ledger, pc[w], job[w])
      /\ streak # None => RecordStands(ledger, clock, streak)
      /\ OffersStand(ledger, clock, streak, offers)
      /\ StreakRequestOK(ledger, clock, streak, offers, pc[w], job[w])
      /\ pc[w] # "idle" => job[w].now <= clock
      /\ clock <= clock
  BY StreakFacts
<1>1. /\ S!Clock(w).now = job[w].now
      /\ [S!NoJob EXCEPT !.now = clock].now = clock
  BY DEF S!Clock, S!NoJob
<1>2. CASE S!MarkProcessed(w)
  <2> DEFINE label == IF job[w].offer # None THEN "offer" ELSE "badges"
             j == [job[w] EXCEPT !.interaction = 0]
  <2>1. /\ pc[w] = "mark" /\ UNCHANGED <<clock, ledger, streak, offers>>
        /\ S!Step(w, label, j)
    BY <1>2 DEF S!MarkProcessed, S!At
  <2>2. j.now = job[w].now /\ j.offer = job[w].offer
    BY <1>0 DEF S!Job
  <2>3. /\ streak # None => RecordStands(ledger, job[w].now, streak)
        /\ job[w].offer # None =>
             OfferStands(ledger, job[w].now, job[w].offer) /\ job[w].offer.status = "offered"
        /\ job[w].now <= clock
    BY <1>0, <2>1 DEF StreakRequestOK
  <2> HIDE DEF j
  <2>4. StreakRequestOK(ledger, clock, streak, offers, label, j)
    <3>1. CASE job[w].offer # None
      BY <2>2, <2>3, <3>1 DEF StreakRequestOK
    <3>2. CASE job[w].offer = None
      BY <2>2, <2>3, <3>2 DEF StreakRequestOK
    <3> QED BY <3>1, <3>2
  <2> HIDE DEF label
  <2> QED BY <1>0, <2>1, <2>4, StreakAlone
<1>3. CASE S!SaveNewOffer(w)
  <2>1. /\ pc[w] = "offer" /\ UNCHANGED <<clock, ledger, streak>>
        /\ S!_save_offer(job[w].offer) /\ S!Step(w, "badges", job[w])
    BY <1>3 DEF S!SaveNewOffer, S!At
  <2>2. /\ job[w].offer \in S!FreezeOffer /\ job[w].offer.status = "offered"
        /\ OfferStands(ledger, job[w].now, job[w].offer) /\ job[w].now <= clock
    BY <1>0, <2>1 DEF StreakRequestOK, StreakJobOK
  <2>3. OfferStands(ledger, clock, job[w].offer)
    BY <1>0, <2>2, StandsLater
  <2>4. OffersStand(ledger, clock, streak, offers')
    BY <1>0, <2>1, <2>2, <2>3, SavingStands
  <2>5. StreakRequestOK(ledger, clock, streak, offers', "badges", job[w])
    BY <1>0, <2>1, Looks DEF StreakRequestOK
  <2> QED BY <1>0, <2>1, <2>4, <2>5, StreakAlone
<1>4. CASE S!EvaluateBadges(w)
  <2>1. /\ pc[w] = "badges" /\ UNCHANGED <<clock, ledger, streak, offers>>
        /\ S!Step(w, "idle", S!NoJob) \/ S!Step(w, "open_offer", S!Clock(w))
    BY <1>4 DEF S!EvaluateBadges, S!End, S!At
  <2>2. StreakRequestOK(ledger, clock, streak, offers, "open_offer", S!Clock(w))
    BY <1>0, <1>1, <2>1, Looks DEF StreakRequestOK
  <2>3. StreakRequestOK(ledger, clock, streak, offers, "idle", S!NoJob)
    BY StreakIdles
  <2> QED BY <1>0, <2>1, <2>2, <2>3, StreakAlone
<1>5. CASE S!ReadOpenOffer(w)
  <2>1. /\ UNCHANGED <<clock, ledger, streak>>
        /\ S!Step(w, "idle", S!NoJob)
        /\ \E found : S!_open_offer(job[w].now, found)
    BY <1>5 DEF S!ReadOpenOffer, S!End
  <2>2. OffersStand(ledger, clock, streak, offers')
    BY <1>0, <2>1, OpenOfferStands
  <2>3. StreakRequestOK(ledger, clock, streak, offers', "idle", S!NoJob)
    BY StreakIdles
  <2> QED BY <1>0, <2>1, <2>2, <2>3, StreakAlone
<1>6. CASE S!GetState(w)
  <2>1. /\ UNCHANGED <<clock, ledger, streak, offers>>
        /\ S!Step(w, "open_offer", [S!NoJob EXCEPT !.now = clock])
    BY <1>6 DEF S!GetState, S!stores
  <2>2. StreakRequestOK(ledger, clock, streak, offers, "open_offer", [S!NoJob EXCEPT !.now = clock])
    BY <1>0, <1>1, Looks
  <2> QED BY <1>0, <2>1, <2>2, StreakAlone
<1> QED BY <1>2, <1>3, <1>4, <1>5, <1>6

LEMMA FreezeSteps ==
  ASSUME S!StreakConstants, OneAtATime, StreakTypeInv, StreakInv, NEW w \in Workers, S!Freeze(w)
  PROVE  StreakInv'
<1>0. /\ clock \in Nat /\ ledger \in Seq(Nat) /\ offers \in Seq(S!FreezeOffer)
      /\ streak # None => streak \in S!StreakRecord
      /\ job[w] \in S!Job /\ job[w].now \in Nat
      /\ StreakJobOK(ledger, pc[w], job[w])
      /\ streak # None => RecordStands(ledger, clock, streak)
      /\ OffersStand(ledger, clock, streak, offers)
      /\ StreakRequestOK(ledger, clock, streak, offers, pc[w], job[w])
      /\ pc[w] # "idle" => job[w].now <= clock
      /\ clock <= clock
  BY StreakFacts
<1>1. \A made : StreakRequestOK(ledger, clock, streak, made, "idle", S!NoJob)
  BY StreakIdles
<1>2. CASE S!BeginAnswer(w)
  <2>1. /\ UNCHANGED <<clock, ledger, streak>>
        /\ \E found : /\ S!_open_offer(clock, found)
                      /\ \/ S!Step(w, "idle", S!NoJob)
                         \/ \E answer \in {"accept", "decline"} :
                              /\ found # None
                              /\ S!Step(w, answer, [S!NoJob EXCEPT !.now = clock, !.offer = found])
    BY <1>2 DEF S!BeginAnswer, S!End
  <2>2. PICK found :
          /\ S!_open_offer(clock, found)
          /\ \/ S!Step(w, "idle", S!NoJob)
             \/ \E answer \in {"accept", "decline"} :
                  /\ found # None
                  /\ S!Step(w, answer, [S!NoJob EXCEPT !.now = clock, !.offer = found])
    BY <2>1
  <2>3. /\ OffersStand(ledger, clock, streak, offers')
        /\ found # None => OfferStands(ledger, clock, found)
    BY <1>0, <2>2, OpenOfferStands
  <2>4. CASE S!Step(w, "idle", S!NoJob)
    BY <1>0, <1>1, <2>1, <2>3, <2>4, StreakAlone
  <2>5. ASSUME NEW answer \in {"accept", "decline"}, found # None,
               S!Step(w, answer, [S!NoJob EXCEPT !.now = clock, !.offer = found])
        PROVE  StreakInv'
    <3> DEFINE j == [S!NoJob EXCEPT !.now = clock, !.offer = found]
    <3>1. j.now = clock /\ j.offer = found
      BY DEF S!NoJob
    <3> HIDE DEF j
    <3>2. StreakRequestOK(ledger, clock, streak, offers', answer, j)
      BY <1>0, <2>3, <2>5, <3>1 DEF StreakRequestOK
    <3> QED BY <1>0, <2>1, <2>3, <2>5, <3>2, StreakAlone DEF j
  <2> QED BY <2>2, <2>4, <2>5
<1>3. CASE S!ReadStreakToRestore(w)
  <2> DEFINE record == S!apply_freeze_acceptance(streak, job[w].offer, job[w].now)
             j == [job[w] EXCEPT !.intended = record]
  <2>1. /\ pc[w] = "accept" /\ UNCHANGED <<clock, ledger, streak, offers>>
        /\ \/ /\ streak # None /\ S!freeze_available_at(job[w].now, streak.freeze_used_at)
              /\ streak.streak_started_at = job[w].offer.offered_at
              /\ S!Step(w, "restore", j)
           \/ S!Step(w, "idle", S!NoJob)
    BY <1>3 DEF S!ReadStreakToRestore, S!End, S!At, S!stores
  <2>2. /\ job[w].offer \in S!FreezeOffer /\ OfferStands(ledger, job[w].now, job[w].offer)
        /\ streak # None => RecordStands(ledger, job[w].now, streak)
    BY <1>0, <2>1 DEF StreakRequestOK, StreakJobOK
  <2>3. j.now = job[w].now /\ j.offer = job[w].offer /\ j.intended = record
    BY <1>0 DEF S!Job
  <2> HIDE DEF j
  <2>4. ASSUME streak # None, S!freeze_available_at(job[w].now, streak.freeze_used_at),
               streak.streak_started_at = job[w].offer.offered_at, S!Step(w, "restore", j)
        PROVE  StreakInv'
    <3>1. /\ RecordStands(ledger, job[w].now, record)
          /\ record.freeze_used_at = job[w].now /\ NoLess(streak, record)
      BY <1>0, <2>2, <2>4, RestoreStands
    <3> HIDE DEF record
    <3>2. OthersEarlier(offers, job[w].now)
      <4> SUFFICES ASSUME NEW k \in DOMAIN offers, offers[k].status = "accepted"
                   PROVE  ~ S!same_utc_month(offers[k].answered_at, job[w].now)
        BY DEF OthersEarlier
      <4> DEFINE u == offers[k].answered_at
                 v == streak.freeze_used_at
      <4>1. v # None /\ u # None /\ u <= v
        BY <1>0 DEF OffersStand
      <4>2. u \in Nat /\ v \in Nat
        <5>1. offers[k] \in S!FreezeOffer /\ streak \in S!StreakRecord
          BY <1>0, <2>4
        <5> QED BY <4>1, <5>1, Fields DEF S!FreezeOffer
      <4>3. v <= job[w].now
        BY <2>2, <2>4, <4>1 DEF RecordStands
      <4>4. ~ S!same_utc_month(v, job[w].now)
        BY <2>4, <4>1 DEF S!freeze_available_at
      <4> HIDE DEF u, v
      <4>5. ~ S!same_utc_month(u, job[w].now)
        BY <1>0, <4>1, <4>2, <4>3, <4>4, MonthsPass
      <4> QED BY <4>5 DEF u
    <3>3. StreakRequestOK(ledger, clock, streak, offers, "restore", j)
      BY <1>0, <2>1, <2>2, <2>3, <2>4, <3>1, <3>2 DEF StreakRequestOK
    <3> QED BY <1>0, <2>1, <2>4, <3>3, StreakAlone
  <2>5. CASE S!Step(w, "idle", S!NoJob)
    BY <1>0, <1>1, <2>1, <2>5, StreakAlone
  <2> QED BY <2>1, <2>4, <2>5
<1>4. CASE S!RestoreStreak(w)
  <2> DEFINE record == job[w].intended
             j == [job[w] EXCEPT !.intended = None]
  <2>1. /\ pc[w] = "restore" /\ UNCHANGED <<clock, ledger, offers>>
        /\ \/ streak' = record /\ S!Step(w, "answer", j)
           \/ UNCHANGED streak /\ S!Step(w, "idle", S!NoJob)
    BY <1>4 DEF S!RestoreStreak, S!End, S!At
  <2>2. /\ record \in S!StreakRecord /\ OfferStands(ledger, job[w].now, job[w].offer)
        /\ RecordStands(ledger, job[w].now, record) /\ record.freeze_used_at = job[w].now
        /\ OthersEarlier(offers, job[w].now) /\ job[w].now <= clock
        /\ streak # None /\ RecordStands(ledger, job[w].now, streak)
    BY <1>0, <2>1 DEF StreakRequestOK, StreakJobOK, Counted
  <2>3. j.now = job[w].now /\ j.offer = job[w].offer
    BY <1>0 DEF S!Job
  <2> HIDE DEF record, j
  <2>4. RecordStands(ledger, clock, record) /\ record # None /\ job[w].now # None
    BY <1>0, <2>2, StandsLater DEF S!StreakConstants
  <2>5. OffersStand(ledger, clock, record, offers)
    <3>1. ASSUME NEW k \in DOMAIN offers, offers[k].status = "accepted"
          PROVE  offers[k].answered_at # None /\ offers[k].answered_at <= job[w].now
      <4> DEFINE u == offers[k].answered_at
                 v == streak.freeze_used_at
      <4>1. v # None /\ u # None /\ u <= v
        BY <1>0, <3>1 DEF OffersStand
      <4>2. u \in Nat /\ v \in Nat
        <5>1. offers[k] \in S!FreezeOffer /\ streak \in S!StreakRecord
          BY <1>0, <2>2
        <5> QED BY <4>1, <5>1, Fields DEF S!FreezeOffer
      <4>3. v <= job[w].now
        BY <2>2, <4>1 DEF RecordStands
      <4> HIDE DEF u, v
      <4>4. u # None /\ u <= job[w].now
        BY <1>0, <4>1, <4>2, <4>3
      <4> QED BY <4>4 DEF u
    <3> QED BY <1>0, <2>2, <2>4, <3>1 DEF OffersStand
  <2>6. StreakRequestOK(ledger, clock, record, offers, "answer", j)
    BY <2>2, <2>3, <2>4 DEF StreakRequestOK
  <2>7. CASE streak' = record /\ S!Step(w, "answer", j)
    BY <2>1, <2>4, <2>5, <2>6, <2>7, StreakAlone
  <2>8. CASE UNCHANGED streak /\ S!Step(w, "idle", S!NoJob)
    BY <1>0, <1>1, <2>1, <2>8, StreakAlone
  <2> QED BY <2>1, <2>7, <2>8
<1>5. CASE S!AnswerOffer(w)
  <2> DEFINE offer == [job[w].offer EXCEPT
               !.status = IF pc[w] = "answer" THEN "accepted" ELSE "declined",
               !.answered_at = job[w].now]
  <2>1. /\ pc[w] \in {"answer", "decline"} /\ UNCHANGED <<clock, ledger, streak>>
        /\ S!_save_offer(offer) /\ S!Step(w, "idle", S!NoJob)
    BY <1>5 DEF S!AnswerOffer, S!End, S!At
  <2>2. /\ job[w].offer \in S!FreezeOffer /\ OfferStands(ledger, job[w].now, job[w].offer)
        /\ job[w].now <= clock
        /\ pc[w] = "answer" => /\ streak # None /\ streak.freeze_used_at = job[w].now
                               /\ OthersEarlier(offers, job[w].now)
    BY <1>0, <2>1 DEF StreakRequestOK, StreakJobOK
  <2>3. OfferStands(ledger, clock, job[w].offer)
    BY <1>0, <2>2, StandsLater
  <2>4. /\ offer \in S!FreezeOffer /\ offer.answered_at = job[w].now
        /\ offer.status = "accepted" => pc[w] = "answer"
        /\ offer.preserved = job[w].offer.preserved /\ offer.offered_at = job[w].offer.offered_at
        /\ offer.preserved_started_at = job[w].offer.preserved_started_at
    BY <1>0, <2>2 DEF S!FreezeOffer, S!FreezeOfferStatus
  <2> HIDE DEF offer
  <2>5. OfferStands(ledger, clock, offer)
    BY <2>3, <2>4 DEF OfferStands
  <2>6. OffersStand(ledger, clock, streak, offers')
    BY <1>0, <2>1, <2>2, <2>4, <2>5, SavingStands
  <2> QED BY <1>0, <1>1, <2>1, <2>6, StreakAlone
<1> QED BY <1>2, <1>3, <1>4, <1>5 DEF S!Freeze

LEMMA WorldSteps ==
  ASSUME S!StreakConstants, StreakTypeInv, StreakInv, S!Tick \/ S!Interact
  PROVE  StreakInv'
<1>0. /\ clock \in Nat /\ ledger \in Seq(Nat) /\ offers \in Seq(S!FreezeOffer)
      /\ streak # None => streak \in S!StreakRecord
      /\ streak # None => RecordStands(ledger, clock, streak)
      /\ OffersStand(ledger, clock, streak, offers)
      /\ \A k \in DOMAIN offers : offers[k] \in S!FreezeOffer
  BY DEF StreakTypeInv, S!TypeOK, StreakInv
<1>1. CASE S!Tick
  <2>1. clock' = clock + 1 /\ UNCHANGED <<ledger, streak, offers, pc, job>>
    BY <1>1 DEF S!Tick
  <2>2. clock' \in Nat /\ clock <= clock'
    BY <1>0, <2>1
  <2>3. streak # None => RecordStands(ledger, clock', streak)
    BY <1>0, <2>2, StandsLater
  <2>4. OffersStand(ledger, clock', streak, offers)
    BY <1>0, <2>2, StandsLater DEF OffersStand
  <2>5. ASSUME NEW w \in Workers
        PROVE  StreakRequestOK(ledger, clock', streak, offers, pc[w], job[w])
    <3>1. /\ StreakRequestOK(ledger, clock, streak, offers, pc[w], job[w]) /\ job[w].now \in Nat
          /\ pc[w] # "idle" => job[w].now <= clock
      BY StreakFacts
    <3>2. pc[w] # "idle" => job[w].now <= clock'
      BY <1>0, <2>2, <3>1
    <3> QED BY <3>1, <3>2 DEF StreakRequestOK
  <2> QED BY <2>1, <2>3, <2>4, <2>5 DEF StreakInv
<1>2. CASE S!Interact
  <2> DEFINE more == Append(ledger, clock)
  <2>1. ledger' = more /\ UNCHANGED <<clock, streak, offers, pc, job>>
    BY <1>2 DEF S!Interact
  <2>2. streak # None => RecordStands(more, clock, streak)
    BY <1>0, StandsWithMore
  <2>3. OffersStand(more, clock, streak, offers)
    BY <1>0, StandsWithMore DEF OffersStand
  <2>4. ASSUME NEW w \in Workers
        PROVE  StreakRequestOK(more, clock, streak, offers, pc[w], job[w])
    <3> DEFINE j == job[w]
    <3>1. /\ StreakRequestOK(ledger, clock, streak, offers, pc[w], j) /\ j.now \in Nat
          /\ StreakJobOK(ledger, pc[w], j)
          /\ pc[w] # "idle" => j.now <= clock
      BY StreakFacts
    <3> HIDE DEF j
    <3>2. \A k \in DOMAIN ledger : k \in DOMAIN more /\ more[k] = ledger[k]
      BY <1>0
    <3>3. \A k \in DOMAIN more : k \in DOMAIN ledger \/ more[k] = clock
      BY <1>0
    <3>4. pc[w] \in {"processed", "continuity", "save"} => more[j.interaction] = ledger[j.interaction]
      BY <3>1, <3>2 DEF StreakJobOK
    <3>5. pc[w] = "save" => Prior(more, j.interaction, j.now) = Prior(ledger, j.interaction, j.now)
      <4> SUFFICES ASSUME pc[w] = "save", NEW k \in DOMAIN more \ DOMAIN ledger
                   PROVE  ~ (more[k] < j.now)
        BY <3>2 DEF Prior
      <4>1. more[k] = clock /\ j.now <= clock
        BY <3>1, <3>3
      <4> QED BY <1>0, <3>1, <4>1
    <3>6. /\ (streak # None /\ RecordStands(ledger, j.now, streak)) => RecordStands(more, j.now, streak)
          /\ (pc[w] \in {"save", "restore"} /\ RecordStands(ledger, j.now, j.intended))
               => RecordStands(more, j.now, j.intended)
      BY <1>0, <3>1, StandsWithMore DEF StreakJobOK, Counted
    <3>7. (j.offer # None /\ OfferStands(ledger, j.now, j.offer)) => OfferStands(more, j.now, j.offer)
      BY <1>0, <3>1, StandsWithMore DEF StreakJobOK, S!Job
    <3>8. (pc[w] \in {"accept", "decline", "restore", "answer"} /\ OfferStands(ledger, j.now, j.offer))
            => OfferStands(more, j.now, j.offer)
      BY <1>0, <3>1, StandsWithMore DEF StreakJobOK
    <3> HIDE DEF more
    <3>9. pc[w] # "idle" => j.now <= clock /\ (streak # None => RecordStands(more, j.now, streak))
      BY <3>1, <3>6 DEF StreakRequestOK
    <3>10. pc[w] \in {"processed", "continuity"} =>
             /\ j.existing = streak /\ j.offer = None
             /\ SameDayCalls => Day(more[j.interaction]) = Day(j.now)
      BY <3>1, <3>4 DEF StreakRequestOK
    <3>11. pc[w] = "save" =>
             /\ RecordStands(more, j.now, j.intended)
             /\ streak # None =>
                  /\ j.intended.freeze_used_at = streak.freeze_used_at
                  /\ Prior(more, j.interaction, j.now) = {} \/ NoLess(streak, j.intended)
      BY <3>1, <3>5, <3>6 DEF StreakRequestOK
    <3>12. (pc[w] \in {"save", "mark", "offer"} /\ j.offer # None) =>
             OfferStands(more, j.now, j.offer) /\ j.offer.status = "offered"
      BY <3>1, <3>7 DEF StreakRequestOK
    <3>13. pc[w] \in {"accept", "decline", "restore", "answer"} => OfferStands(more, j.now, j.offer)
      BY <3>1, <3>8 DEF StreakRequestOK
    <3>14. pc[w] = "restore" => /\ streak # None /\ RecordStands(more, j.now, j.intended)
                                /\ NoLess(streak, j.intended) /\ j.intended.freeze_used_at = j.now
      BY <3>1, <3>6 DEF StreakRequestOK
    <3>15. StreakRequestOK(more, clock, streak, offers, pc[w], j)
      BY <3>1, <3>9, <3>10, <3>11, <3>12, <3>13, <3>14 DEF StreakRequestOK
    <3> QED BY <3>15 DEF j
  <2> HIDE DEF more
  <2> QED BY <2>1, <2>2, <2>3, <2>4 DEF StreakInv
<1> QED BY <1>1, <1>2

LEMMA InitStreak == S!Init => StreakInv
<1> SUFFICES ASSUME S!Init PROVE StreakInv
  OBVIOUS
<1>1. \A w \in Workers : pc[w] = "idle"
  BY DEF S!Init
<1>2. streak = None /\ offers = <<>>
  BY DEF S!Init
<1>3. \A w \in Workers : StreakRequestOK(ledger, clock, streak, offers, pc[w], job[w])
  BY <1>1, StreakIdles
<1> QED BY <1>2, <1>3 DEF StreakInv, OffersStand

LEMMA NextStreak ==
  ASSUME S!StreakConstants, OneAtATime, StreakTypeInv, StreakInv, [S!Next]_S!vars
  PROVE  StreakInv'
<1>1. CASE S!Tick \/ S!Interact
  BY <1>1, WorldSteps
<1>2. ASSUME NEW w \in Workers, S!RecordActivity(w) \/ S!GetState(w) \/ S!Freeze(w)
      PROVE  StreakInv'
  BY <1>2, RecordSteps, MarkSteps, FreezeSteps DEF S!RecordActivity
<1>3. CASE UNCHANGED S!vars
  BY <1>3 DEF S!vars, StreakInv
<1> QED BY <1>1, <1>2, <1>3 DEF S!Next

\* The streak's module counts with the Cardinality of the sets' module.
LEMMA SameCount == \A X : S!Cardinality(X) = Cardinality(X)
BY Zenon DEF S!Cardinality, Cardinality

\* The invariant is what the properties need.
LEMMA StreakIsCounted ==
  ASSUME S!StreakConstants, SameDayCalls, StreakTypeInv, StreakInv
  PROVE  StreakIsEarned
<1>1. S!OneFreezePerMonth
  BY DEF StreakInv, OffersStand, S!OneFreezePerMonth
<1>2. ASSUME streak # None
      PROVE  LET since == {k \in DOMAIN ledger : S!utc_day(ledger[k]) >= S!utc_day(streak.streak_started_at)}
             IN streak.current <= Cardinality({S!utc_day(ledger[k]) : k \in since})
  <2> DEFINE s == Day(streak.streak_started_at)
             e == Day(streak.last_activity_at) + 1
             since == {k \in DOMAIN ledger : Day(ledger[k]) >= s}
             A == ActiveDays(ledger, s, e)
             B == {Day(ledger[k]) : k \in since}
             T == {Day(ledger[k]) : k \in DOMAIN ledger}
  <2>1. ledger \in Seq(Nat) /\ streak \in S!StreakRecord
    BY <1>2 DEF StreakTypeInv, S!TypeOK
  <2>2. streak.current \in Nat /\ streak.current <= Cardinality(A)
    BY <1>2, <2>1, Fields DEF StreakInv, RecordStands
  <2>3. IsFiniteSet(T) /\ T \subseteq Nat /\ s \in Nat
    BY <2>1, AllDaysFinite, DayIs, Fields
  <2>4. B \in SUBSET T /\ A \in SUBSET B
    BY <2>3 DEF ActiveDays
  <2> HIDE DEF A, B, T
  <2>5. IsFiniteSet(B) /\ IsFiniteSet(A) /\ Cardinality(A) <= Cardinality(B)
    BY <2>3, <2>4, FS_Subset
  <2>6. Cardinality(A) \in Nat /\ Cardinality(B) \in Nat
    BY <2>5, FS_CardinalityType
  <2>7. streak.current <= Cardinality(B)
    BY <2>2, <2>5, <2>6
  <2> QED BY <2>7 DEF B, Day
<1>3. S!DaysEarned
  BY <1>2, SameCount DEF S!DaysEarned
<1> QED BY <1>1, <1>3 DEF StreakIsEarned

\* The step of OnlyInactivityResets.
LEMMA StreakStepsReset ==
  ASSUME S!StreakConstants, OneAtATime, StreakTypeInv, StreakInv, S!Next,
         streak # None,
         \/ streak'.current < streak.current
         \/ streak'.streak_started_at > streak.streak_started_at
  PROVE  \E w \in Workers : /\ S!At(w, "save")
                            /\ S!PriorInWindow(job[w].interaction, job[w].now) = {}
<1>1. streak \in S!StreakRecord /\ streak.current \in Nat /\ streak.streak_started_at \in Nat
  BY Fields DEF StreakTypeInv, S!TypeOK
<1>2. streak' # streak
  BY <1>1
<1>3. PICK w \in Workers : \/ S!SaveStreak(w) /\ streak' = job[w].intended
                           \/ S!RestoreStreak(w) /\ streak' = job[w].intended
  BY <1>2 DEF S!Next, S!Tick, S!Interact, S!RecordActivity, S!GetState, S!Freeze, S!BeginRecord,
              S!CheckProcessed, S!ReadContinuity, S!SaveStreak, S!MarkProcessed, S!SaveNewOffer,
              S!EvaluateBadges, S!ReadOpenOffer, S!BeginAnswer, S!ReadStreakToRestore,
              S!RestoreStreak, S!AnswerOffer, S!stores
<1>4. /\ StreakRequestOK(ledger, clock, streak, offers, pc[w], job[w])
      /\ StreakJobOK(ledger, pc[w], job[w])
  BY StreakFacts
<1>5. ~ NoLess(streak, job[w].intended)
  <2>1. pc[w] \in {"save", "restore"}
    BY <1>3 DEF S!SaveStreak, S!RestoreStreak, S!At
  <2>2. job[w].intended \in S!StreakRecord
    BY <1>4, <2>1 DEF StreakJobOK, Counted
  <2>3. job[w].intended.current \in Nat /\ job[w].intended.streak_started_at \in Nat
    BY <2>2, Fields
  <2> QED BY <1>1, <1>3, <2>3 DEF NoLess
<1>6. pc[w] = "save" /\ Prior(ledger, job[w].interaction, job[w].now) = {}
  BY <1>3, <1>4, <1>5 DEF StreakRequestOK, S!SaveStreak, S!RestoreStreak, S!At
<1> QED BY <1>6 DEF Prior, S!PriorInWindow, S!At

-----------------------------------------------------------------------------
(***************************************************************************)
(* The weekly summary: its types and its counts for any number of          *)
(* requests, the order of the weeks for one request at a time.             *)
(***************************************************************************)

LEMMA WeekMonotone ==
  ASSUME W!WeeklyConstants, NEW d \in Nat, NEW e \in Nat, d <= e
  PROVE  /\ W!iso_week(d) \in Nat /\ W!iso_week(e) \in Nat
         /\ W!iso_week(d) <= W!iso_week(e)
BY DivMonotone DEF W!WeeklyConstants, W!iso_week

LEMMA WeekIsPositive ==
  ASSUME W!WeeklyConstants, NEW d \in Nat, d >= DaysPerWeek
  PROVE  W!iso_week(d) \in Nat \ {0}
<1>1. DaysPerWeek \in Nat \ {0} /\ DaysPerWeek \div DaysPerWeek = 1
  BY DEF W!WeeklyConstants
<1>2. W!iso_week(DaysPerWeek) = 1
  BY <1>1 DEF W!iso_week
<1> QED BY <1>1, <1>2, WeekMonotone

LEMMA SameCountOfWeeks == \A X : W!Cardinality(X) = Cardinality(X)
BY Zenon DEF W!Cardinality, Cardinality

InTheWeek(activities, week) == {i \in DOMAIN activities : W!InWeek(activities[i], week)}

\* A summary counts the interactions of its week, which is over.
WeekCount(activities, s) ==
  IF s.questions_status = "unavailable" THEN s.questions = 0
  ELSE s.questions = Cardinality(InTheWeek(activities, s.week))

WeeklyOK(activities, today, s) ==
  s \in W!WeeklySummary /\ s.week < W!iso_week(today) /\ WeekCount(activities, s)

WeekJobOK(activities, today, label, j) ==
  /\ j \in W!Job
  /\ label = "build" => /\ j.summary \in W!WeeklySummary /\ j.summary.week < W!iso_week(today)
                        /\ j.summary.questions = 0
  /\ label \in {"history", "save", "send", "record"} => WeeklyOK(activities, today, j.summary)

WeeklyWorld ==
  /\ day \in Nat /\ day >= DaysPerWeek /\ happened \in Seq(Nat)
  /\ \A i \in DOMAIN happened : happened[i] <= day

HasLatest(weeks) == weeks # {} => \E k \in weeks : \A l \in weeks : l <= k

WeeklyStores ==
  /\ DOMAIN weekly \subseteq Nat /\ HasLatest(DOMAIN weekly)
  /\ \A k \in DOMAIN weekly : weekly[k].week = k /\ WeeklyOK(happened, day, weekly[k])
  /\ sent \in Seq([week : Nat, day : Nat])

WeeklyInv ==
  /\ WeeklyWorld /\ WeeklyStores
  /\ pc \in [Workers -> W!PC] /\ job \in [Workers -> W!Job]
  /\ \A w \in Workers : WeekJobOK(happened, day, pc[w], job[w])

LEMMA WeeklyTypes == WeeklyInv => W!TypeOK
BY DEF WeeklyInv, WeeklyWorld, WeeklyStores, WeeklyOK, W!TypeOK

LEMMA WeeklyStep ==
  ASSUME WeeklyInv, NEW w \in Workers, NEW label \in W!PC, NEW j,
         W!Step(w, label, j), WeekJobOK(happened, day, label, j), UNCHANGED <<day, happened>>,
         WeeklyStores'
  PROVE  WeeklyInv'
<1>1. /\ pc \in [Workers -> W!PC] /\ job \in [Workers -> W!Job]
      /\ \A v \in Workers : WeekJobOK(happened, day, pc[v], job[v])
  BY DEF WeeklyInv
<1>2. pc' = [pc EXCEPT ![w] = label] /\ job' = [job EXCEPT ![w] = j] /\ j \in W!Job
  BY DEF W!Step, WeekJobOK
<1>3. \A v \in Workers : /\ pc'[v] = (IF v = w THEN label ELSE pc[v])
                         /\ job'[v] = (IF v = w THEN j ELSE job[v])
  BY <1>1, <1>2
<1>4. \A v \in Workers : WeekJobOK(happened', day', pc'[v], job'[v])
  BY <1>1, <1>3
<1>5. WeeklyWorld'
  BY DEF WeeklyInv, WeeklyWorld
<1> QED BY <1>1, <1>2, <1>4, <1>5 DEF WeeklyInv

LEMMA WeeklyIdles == \A activities, today : WeekJobOK(activities, today, "idle", W!NoJob)
BY DEF WeekJobOK, W!NoJob, W!Job

\* A week that is over stays as it was counted.
LEMMA WeekStaysCounted ==
  ASSUME W!WeeklyConstants, WeeklyWorld, NEW s, WeeklyOK(happened, day, s)
  PROVE  /\ WeeklyOK(happened, day + 1, s)
         /\ WeeklyOK(Append(happened, day), day, s)
<1>1. /\ day \in Nat /\ happened \in Seq(Nat) /\ s.week \in Nat /\ s.week < W!iso_week(day)
  BY DEF WeeklyWorld, WeeklyOK, W!WeeklySummary
<1>2. s.week < W!iso_week(day + 1)
  <2>1. day + 1 \in Nat /\ day <= day + 1
    BY <1>1
  <2>2. /\ W!iso_week(day) \in Nat /\ W!iso_week(day + 1) \in Nat
        /\ W!iso_week(day) <= W!iso_week(day + 1)
    BY <1>1, <2>1, WeekMonotone
  <2> QED BY <1>1, <2>2
<1>3. InTheWeek(Append(happened, day), s.week) = InTheWeek(happened, s.week)
  <2> DEFINE more == Append(happened, day)
             n == Len(happened)
  <2>1. /\ n \in Nat /\ DOMAIN happened = 1..n /\ DOMAIN more = 1..(n + 1)
        /\ more[n + 1] = day /\ \A i \in 1..n : more[i] = happened[i]
    BY <1>1
  <2>2. ~ W!InWeek(day, s.week)
    BY <1>1 DEF W!InWeek
  <2> HIDE DEF more, n
  <2>3. \A i : i \in 1..(n + 1) <=> i \in 1..n \/ i = n + 1
    BY <2>1
  <2> QED BY <2>1, <2>2, <2>3 DEF InTheWeek, more
<1> QED BY <1>2, <1>3 DEF WeeklyOK, WeekCount

LEMMA StoringKeeps ==
  ASSUME WeeklyStores, NEW s, WeeklyOK(happened, day, s), weekly' = W!Stored(s),
         UNCHANGED <<day, happened, sent>>
  PROVE  /\ WeeklyStores' /\ DOMAIN weekly' = DOMAIN weekly \cup {s.week}
         /\ weekly'[s.week] = s
         /\ \A k \in DOMAIN weekly : k # s.week => weekly'[k] = weekly[k]
<1>1. s.week \in Nat
  BY DEF WeeklyOK, W!WeeklySummary
<1>2. DOMAIN weekly' = DOMAIN weekly \cup {s.week}
  BY DEF W!Stored
<1>3. \A k \in DOMAIN weekly \cup {s.week} : weekly'[k] = IF k = s.week THEN s ELSE weekly[k]
  BY DEF W!Stored
<1>4. HasLatest(DOMAIN weekly')
  <2>1. CASE DOMAIN weekly = {}
    BY <1>1, <1>2, <2>1 DEF HasLatest
  <2>2. CASE DOMAIN weekly # {}
    <3>1. PICK k \in DOMAIN weekly : \A l \in DOMAIN weekly : l <= k
      BY <2>2 DEF WeeklyStores, HasLatest
    <3>2. k \in Nat /\ DOMAIN weekly \subseteq Nat
      BY DEF WeeklyStores
    <3>3. CASE s.week <= k
      BY <1>2, <3>1, <3>3 DEF HasLatest
    <3>4. CASE k < s.week
      <4>1. \A l \in DOMAIN weekly : l <= s.week
        BY <1>1, <3>1, <3>2, <3>4
      <4> QED BY <1>1, <1>2, <4>1 DEF HasLatest
    <3> QED BY <1>1, <3>2, <3>3, <3>4
  <2> QED BY <2>1, <2>2
<1>5. \A k \in DOMAIN weekly' : weekly'[k].week = k /\ WeeklyOK(happened', day', weekly'[k])
  BY <1>2, <1>3 DEF WeeklyStores
<1> QED BY <1>1, <1>2, <1>3, <1>4, <1>5 DEF WeeklyStores

LEMMA LatestIs ==
  ASSUME WeeklyStores, DOMAIN weekly # {}
  PROVE  W!Latest \in DOMAIN weekly /\ \A l \in DOMAIN weekly : l <= W!Latest
BY DEF WeeklyStores, HasLatest, W!Latest

LEMMA InitWeekly == W!WeeklyConstants /\ W!Init => WeeklyInv
<1> SUFFICES ASSUME W!WeeklyConstants, W!Init PROVE WeeklyInv
  OBVIOUS
<1>1. WeeklyWorld
  BY DEF W!Init, WeeklyWorld, W!WeeklyConstants
<1>2. weekly = <<>> /\ sent = <<>>
  BY DEF W!Init
<1>3. WeeklyStores
  BY <1>2 DEF WeeklyStores, HasLatest
<1>4. /\ pc = [w \in Workers |-> "idle"] /\ job = [w \in Workers |-> W!NoJob]
      /\ "idle" \in W!PC /\ W!NoJob \in W!Job
  BY WeeklyIdles DEF W!Init, W!PC, WeekJobOK
<1> QED BY <1>1, <1>3, <1>4, WeeklyIdles DEF WeeklyInv

LEMMA WeeklyFacts ==
  ASSUME WeeklyInv, NEW w \in Workers
  PROVE  /\ WeeklyWorld /\ WeeklyStores /\ day \in Nat
         /\ job[w] \in W!Job /\ WeekJobOK(happened, day, pc[w], job[w])
BY DEF WeeklyInv, WeeklyWorld

\* What a request that sends a stored summary again carries.
LEMMA Retries ==
  ASSUME WeeklyInv, NEW k \in DOMAIN weekly, NEW d \in Nat
  PROVE  WeekJobOK(happened, day, "send", [day |-> d, summary |-> weekly[k]])
BY DEF WeeklyInv, WeeklyStores, WeeklyOK, WeekJobOK, W!Job

LEMMA BeginWeekly ==
  ASSUME W!WeeklyConstants, WeeklyInv, NEW w \in Workers, W!BeginGenerate(w) \/ W!RetryLatest(w)
  PROVE  WeeklyInv'
<1>0. /\ WeeklyWorld /\ WeeklyStores /\ day \in Nat /\ job[w] \in W!Job /\ job[w].day \in Nat
  BY WeeklyFacts DEF W!Job
<1>1. UNCHANGED <<day, happened, weekly, sent>> /\ WeeklyStores'
  BY <1>0 DEF W!BeginGenerate, W!RetryLatest, WeeklyStores
<1>2. ASSUME NEW k \in DOMAIN weekly, NEW d \in Nat, W!_retry_if_due(w, weekly[k], d)
      PROVE  WeeklyInv'
  <2>1. \/ W!Step(w, "send", [day |-> d, summary |-> weekly[k]])
        \/ W!Step(w, "idle", W!NoJob)
    BY <1>2 DEF W!_retry_if_due, W!End
  <2>2. CASE W!Step(w, "send", [day |-> d, summary |-> weekly[k]])
    BY <1>1, <2>2, Retries, WeeklyStep DEF W!PC
  <2>3. CASE W!Step(w, "idle", W!NoJob)
    BY <1>1, <2>3, WeeklyIdles, WeeklyStep DEF W!PC
  <2> QED BY <2>1, <2>2, <2>3
<1>3. CASE W!BeginGenerate(w)
  <2> DEFINE week == W!PreviousWeek(day)
             late == [W!NoJob EXCEPT !.day = day]
             fresh == [day |-> day, summary |-> W!Blank(week)]
  <2>1. \/ week \in DOMAIN weekly /\ W!_retry_if_due(w, weekly[week], day)
        \/ W!Step(w, "latest", late)
        \/ W!Step(w, "build", fresh)
    BY <1>3 DEF W!BeginGenerate
  <2>2. CASE week \in DOMAIN weekly /\ W!_retry_if_due(w, weekly[week], day)
    BY <1>0, <1>2, <2>2
  <2>3. CASE W!Step(w, "latest", late)
    <3>1. WeekJobOK(happened, day, "latest", late)
      BY <1>0 DEF WeekJobOK, W!Job, W!NoJob
    <3> QED BY <1>1, <2>3, <3>1, WeeklyStep DEF W!PC
  <2>4. CASE W!Step(w, "build", fresh)
    <3>1. week \in Nat /\ week < W!iso_week(day)
      BY <1>0, WeekIsPositive DEF WeeklyWorld, W!PreviousWeek
    <3> HIDE DEF week
    <3>2. /\ W!Blank(week) \in W!WeeklySummary /\ W!Blank(week).week = week
          /\ W!Blank(week).questions = 0
      BY <3>1 DEF W!Blank, W!WeeklySummary, W!SourceStatus, W!DeliveryStatus
    <3>3. WeekJobOK(happened, day, "build", fresh)
      BY <1>0, <3>1, <3>2 DEF WeekJobOK, W!Job
    <3> QED BY <1>1, <2>4, <3>3, WeeklyStep DEF W!PC
  <2> QED BY <2>1, <2>2, <2>3, <2>4
<1>4. CASE W!RetryLatest(w)
  <2>1. CASE W!End(w)
    BY <1>1, <2>1, WeeklyIdles, WeeklyStep DEF W!PC, W!End
  <2>2. CASE DOMAIN weekly # {} /\ W!_retry_if_due(w, weekly[W!Latest], job[w].day)
    BY <1>0, <1>2, <2>2, LatestIs
  <2> QED BY <1>4, <2>1, <2>2 DEF W!RetryLatest
<1> QED BY <1>3, <1>4

LEMMA QuestionsCount ==
  ASSUME WeeklyWorld, NEW s \in W!WeeklySummary, s.week < W!iso_week(day), s.questions = 0
  PROVE  /\ LET read == W!_questions(s.week)
            IN WeeklyOK(happened, day,
                 [s EXCEPT !.questions = read.n, !.questions_status = read.status])
         /\ WeeklyOK(happened, day, [s EXCEPT !.questions_status = "unavailable"])
<1> DEFINE week == s.week
           read == {k \in DOMAIN happened : W!iso_week(happened[k]) >= week}
           in_week == {k \in read : W!InWeek(happened[k], week)}
           r == W!_questions(week)
           counted == [s EXCEPT !.questions = r.n, !.questions_status = r.status]
           unread == [s EXCEPT !.questions_status = "unavailable"]
<1>1. week \in Nat
  BY DEF W!WeeklySummary
<1>2. in_week = InTheWeek(happened, week)
  BY <1>1 DEF InTheWeek, W!InWeek
<1>3. IsFiniteSet(DOMAIN happened) /\ in_week \subseteq DOMAIN happened
  BY FS_Interval DEF WeeklyWorld
<1>4. IsFiniteSet(in_week) /\ Cardinality(in_week) \in Nat
  BY <1>3, FS_Subset, FS_CardinalityType
<1>5. in_week = {} => Cardinality(in_week) = 0
  BY FS_EmptySet
<1>6. r.n = Cardinality(in_week) /\ r.status \in {"empty", "available", "partial"}
  <2>1. CASE in_week = {}
    BY <1>5, <2>1 DEF W!_questions
  <2>2. CASE in_week # {}
    BY <2>2, SameCountOfWeeks DEF W!_questions
  <2> QED BY <2>1, <2>2
<1> HIDE DEF r, in_week
<1>7. WeeklyOK(happened, day, counted)
  <2>1. counted \in W!WeeklySummary
    BY <1>4, <1>6 DEF W!WeeklySummary, W!SourceStatus
  <2>2. counted.week = week /\ counted.questions = r.n /\ counted.questions_status = r.status
    BY DEF W!WeeklySummary
  <2> HIDE DEF counted
  <2> QED BY <1>2, <1>6, <2>1, <2>2 DEF WeeklyOK, WeekCount
<1>8. WeeklyOK(happened, day, unread)
  <2>1. unread \in W!WeeklySummary
    BY DEF W!WeeklySummary, W!SourceStatus
  <2>2. unread.week = week /\ unread.questions = 0 /\ unread.questions_status = "unavailable"
    BY DEF W!WeeklySummary
  <2> HIDE DEF unread
  <2> QED BY <2>1, <2>2 DEF WeeklyOK, WeekCount
<1> QED BY <1>7, <1>8 DEF r, counted, unread

\* The fields a step fills in leave the count and the week alone.
LEMMA CountStands ==
  ASSUME NEW activities, NEW today, NEW s, WeeklyOK(activities, today, s)
  PROVE  /\ \A skipped \in SUBSET Nat :
              WeeklyOK(activities, today, [s EXCEPT !.skipped = skipped])
         /\ \A status \in W!DeliveryStatus, retry \in Nat \cup {None} :
              WeeklyOK(activities, today, [s EXCEPT !.delivery = status, !.next_retry = retry])
BY DEF WeeklyOK, WeekCount, W!WeeklySummary

LEMMA SkippedAreWeeks ==
  ASSUME WeeklyStores, NEW week \in Nat
  PROVE  /\ W!_skipped_weeks(week) \in SUBSET Nat
         /\ \A k \in W!_skipped_weeks(week) : k < week /\ k \notin DOMAIN weekly
<1>1. CASE DOMAIN weekly = {}
  BY <1>1 DEF W!_skipped_weeks
<1>2. CASE DOMAIN weekly # {}
  <2>1. W!Latest \in Nat /\ \A l \in DOMAIN weekly : l \in Nat /\ l <= W!Latest
    BY <1>2, LatestIs DEF WeeklyStores
  <2>2. W!_skipped_weeks(week) \subseteq (W!Latest + 1)..(week - 1)
    BY <1>2 DEF W!_skipped_weeks
  <2>3. \A k \in (W!Latest + 1)..(week - 1) : k \in Nat /\ k < week /\ k \notin DOMAIN weekly
    BY <2>1
  <2> QED BY <2>2, <2>3
<1> QED BY <1>1, <1>2

\* What a step that fills in a summary writes.
LEMMA JobWith ==
  ASSUME NEW j \in W!Job, NEW s \in W!WeeklySummary
  PROVE  [j EXCEPT !.summary = s] \in W!Job /\ [j EXCEPT !.summary = s].summary = s
BY DEF W!Job

LEMMA BuildWeekly ==
  ASSUME W!WeeklyConstants, WeeklyInv, NEW w \in Workers, W!ReadQuestions(w) \/ W!ReadHistory(w)
  PROVE  WeeklyInv'
<1>0. /\ WeeklyWorld /\ WeeklyStores /\ job[w] \in W!Job
      /\ WeekJobOK(happened, day, pc[w], job[w])
  BY WeeklyFacts
<1>1. UNCHANGED <<day, happened, weekly, sent>> /\ WeeklyStores'
  BY <1>0 DEF W!ReadQuestions, W!ReadHistory, WeeklyStores
<1> DEFINE j == job[w]
           s == j.summary
<1>2. ASSUME NEW t, WeeklyOK(happened, day, t), NEW label \in {"history", "save"},
             W!Step(w, label, [j EXCEPT !.summary = t])
      PROVE  WeeklyInv'
  <2>1. WeekJobOK(happened, day, label, [j EXCEPT !.summary = t])
    BY <1>0, <1>2, JobWith DEF WeekJobOK, WeeklyOK
  <2>2. label \in W!PC
    BY DEF W!PC
  <2> HIDE DEF j
  <2> QED BY <1>1, <1>2, <2>1, <2>2, WeeklyStep
<1>3. CASE W!ReadQuestions(w)
  <2> DEFINE read == W!_questions(s.week)
             counted == [s EXCEPT !.questions = read.n, !.questions_status = read.status]
             unread == [s EXCEPT !.questions_status = "unavailable"]
  <2>1. pc[w] = "build"
    BY <1>3 DEF W!ReadQuestions, W!At
  <2>2. WeeklyOK(happened, day, counted) /\ WeeklyOK(happened, day, unread)
    BY <1>0, <2>1, QuestionsCount DEF WeekJobOK
  <2>3. \/ W!Step(w, "history", [j EXCEPT !.summary = counted])
        \/ W!Step(w, "history", [j EXCEPT !.summary.questions_status = "unavailable"])
    BY <1>3 DEF W!ReadQuestions
  <2>4. [j EXCEPT !.summary.questions_status = "unavailable"] = [j EXCEPT !.summary = unread]
    BY <1>0 DEF W!Job
  <2> HIDE DEF counted, unread, j
  <2> QED BY <1>2, <2>2, <2>3, <2>4
<1>4. CASE W!ReadHistory(w)
  <2>1. pc[w] = "history"
    BY <1>4 DEF W!ReadHistory, W!At
  <2>2. WeeklyOK(happened, day, s) /\ s.week \in Nat
    BY <1>0, <2>1 DEF WeekJobOK, WeeklyOK, W!WeeklySummary
  <2>3. PICK skipped \in {W!_skipped_weeks(s.week), {}} :
          W!Step(w, "save", [j EXCEPT !.summary.skipped = skipped])
    BY <1>4 DEF W!ReadHistory
  <2>4. skipped \in SUBSET Nat
    BY <1>0, <2>2, <2>3, SkippedAreWeeks
  <2>5. [j EXCEPT !.summary.skipped = skipped] = [j EXCEPT !.summary = [s EXCEPT !.skipped = skipped]]
    BY <1>0 DEF W!Job
  <2>6. WeeklyOK(happened, day, [s EXCEPT !.skipped = skipped])
    BY <2>2, <2>4, CountStands
  <2> HIDE DEF s, j
  <2> QED BY <1>2, <2>3, <2>5, <2>6
<1> QED BY <1>3, <1>4

LEMMA SendWeekly ==
  ASSUME W!WeeklyConstants, WeeklyInv, NEW w \in Workers,
         W!SaveSummary(w) \/ W!Send(w) \/ W!RecordDelivery(w)
  PROVE  WeeklyInv'
<1>0. /\ WeeklyWorld /\ WeeklyStores /\ job[w] \in W!Job
      /\ WeekJobOK(happened, day, pc[w], job[w])
  BY WeeklyFacts
<1> DEFINE j == job[w]
           s == j.summary
<1>1. UNCHANGED <<day, happened>> /\ pc[w] \in {"save", "send", "record"}
  BY DEF W!SaveSummary, W!Send, W!RecordDelivery, W!At
<1>2. WeeklyOK(happened, day, s) /\ s \in W!WeeklySummary /\ j \in W!Job
  BY <1>0, <1>1 DEF WeekJobOK, WeeklyOK
<1>3. WeekJobOK(happened, day, "idle", W!NoJob)
  BY WeeklyIdles
<1>4. ASSUME weekly' = W!Stored(s) \/ UNCHANGED weekly, UNCHANGED sent
      PROVE  WeeklyStores'
  <2>1. CASE weekly' = W!Stored(s)
    BY <1>0, <1>1, <1>2, <1>4, <2>1, StoringKeeps
  <2>2. CASE UNCHANGED weekly
    BY <1>0, <1>1, <1>4, <2>2 DEF WeeklyStores
  <2> QED BY <1>4, <2>1, <2>2
<1>5. CASE W!SaveSummary(w)
  <2>1. /\ weekly' = W!Stored(s) \/ UNCHANGED weekly
        /\ UNCHANGED sent
        /\ W!Step(w, "send", j) \/ W!Step(w, "idle", W!NoJob)
    BY <1>5 DEF W!SaveSummary, W!End
  <2>2. WeekJobOK(happened, day, "send", j)
    BY <1>2 DEF WeekJobOK
  <2>3. WeeklyStores'
    BY <1>4, <2>1
  <2> HIDE DEF j
  <2> QED BY <1>1, <1>3, <2>1, <2>2, <2>3, WeeklyStep DEF W!PC
<1>6. CASE W!Send(w)
  <2> DEFINE ok == [s EXCEPT !.delivery = "sent", !.next_retry = None]
             refused == [s EXCEPT !.delivery = "failed", !.next_retry = j.day + 1]
             event == [week |-> s.week, day |-> j.day]
  <2>1. /\ \/ sent' = Append(sent, event) /\ W!Step(w, "record", [j EXCEPT !.summary = ok])
           \/ UNCHANGED sent /\ W!Step(w, "record", [j EXCEPT !.summary = refused])
        /\ UNCHANGED weekly
    BY <1>6 DEF W!Send
  <2>2. event \in [week : Nat, day : Nat] /\ j.day + 1 \in Nat
    BY <1>2 DEF W!Job, W!WeeklySummary
  <2>3. WeeklyOK(happened, day, ok) /\ WeeklyOK(happened, day, refused)
    BY <1>2, <2>2, CountStands DEF W!DeliveryStatus
  <2> HIDE DEF event, ok, refused, s, j
  <2>4. WeeklyStores'
    <3>1. sent' \in Seq([week : Nat, day : Nat])
      <4> DEFINE Events == [week : Nat, day : Nat]
      <4>1. sent \in Seq(Events) /\ event \in Events
        BY <1>0, <2>2 DEF WeeklyStores
      <4>2. sent' = sent \/ sent' = Append(sent, event)
        BY <2>1
      <4> HIDE DEF Events
      <4>3. sent' \in Seq(Events)
        BY <4>1, <4>2
      <4> QED BY <4>3 DEF Events
    <3> QED BY <1>0, <1>1, <2>1, <3>1 DEF WeeklyStores
  <2>5. \A t \in {ok, refused} : WeekJobOK(happened, day, "record", [j EXCEPT !.summary = t])
    BY <1>2, <2>3, JobWith DEF WeekJobOK, WeeklyOK
  <2> QED BY <1>1, <2>1, <2>4, <2>5, WeeklyStep DEF W!PC
<1>7. CASE W!RecordDelivery(w)
  <2>1. /\ weekly' = W!Stored(s) \/ UNCHANGED weekly
        /\ UNCHANGED sent /\ W!Step(w, "idle", W!NoJob)
    BY <1>7 DEF W!RecordDelivery, W!End
  <2>2. WeeklyStores'
    BY <1>4, <2>1
  <2> QED BY <1>1, <1>3, <2>1, <2>2, WeeklyStep DEF W!PC
<1> QED BY <1>5, <1>6, <1>7

LEMMA WorldWeekly ==
  ASSUME W!WeeklyConstants, WeeklyInv, W!NextDay \/ W!Interact
  PROVE  WeeklyInv'
<1>1. /\ WeeklyWorld /\ WeeklyStores /\ day \in Nat /\ happened \in Seq(Nat)
      /\ UNCHANGED <<weekly, sent, pc, job>>
  BY DEF WeeklyInv, WeeklyWorld, W!NextDay, W!Interact
<1>2. WeeklyWorld' /\ W!iso_week(day') >= W!iso_week(day)
  <2>1. CASE W!NextDay
    <3>1. day' = day + 1 /\ day' \in Nat /\ happened' = happened
      BY <1>1, <2>1 DEF W!NextDay
    <3>2. DaysPerWeek \in Nat /\ \A i \in DOMAIN happened : happened[i] \in Nat
      BY <1>1 DEF W!WeeklyConstants
    <3>3. WeeklyWorld'
      BY <1>1, <3>1, <3>2 DEF WeeklyWorld
    <3>4. W!iso_week(day) \in Nat /\ W!iso_week(day + 1) >= W!iso_week(day)
      BY <1>1, <3>1, WeekMonotone
    <3> QED BY <3>1, <3>3, <3>4
  <2>2. CASE W!Interact
    <3>1. /\ day' = day /\ happened' \in Seq(Nat)
          /\ \A i \in DOMAIN happened' : happened'[i] <= day
      BY <1>1, <2>2 DEF W!Interact, WeeklyWorld
    <3> QED BY <1>1, <3>1, WeekMonotone DEF WeeklyWorld
  <2> QED BY <2>1, <2>2
<1>3. ASSUME NEW s, WeeklyOK(happened, day, s)
      PROVE  WeeklyOK(happened', day', s)
  BY <1>1, <1>3, WeekStaysCounted DEF W!NextDay, W!Interact
<1>4. WeeklyStores'
  BY <1>1, <1>3 DEF WeeklyStores
<1>5. ASSUME NEW w \in Workers PROVE WeekJobOK(happened', day', pc[w], job[w])
  <2>1. WeekJobOK(happened, day, pc[w], job[w])
    BY DEF WeeklyInv
  <2>2. W!iso_week(day) \in Nat /\ W!iso_week(day') \in Nat
    BY <1>1, <1>2, WeekMonotone DEF WeeklyWorld
  <2>3. (pc[w] = "build") => job[w].summary.week \in Nat
    BY <2>1 DEF WeekJobOK, W!WeeklySummary
  <2> QED BY <1>2, <1>3, <2>1, <2>2, <2>3 DEF WeekJobOK
<1> QED BY <1>1, <1>2, <1>4, <1>5 DEF WeeklyInv

LEMMA NextWeekly ==
  ASSUME W!WeeklyConstants, WeeklyInv, [W!Next]_W!vars
  PROVE  WeeklyInv'
<1>1. CASE W!NextDay \/ W!Interact
  BY <1>1, WorldWeekly
<1>2. ASSUME NEW w \in Workers,
             \/ W!BeginGenerate(w) \/ W!RetryLatest(w) \/ W!ReadQuestions(w)
             \/ W!ReadHistory(w) \/ W!SaveSummary(w) \/ W!Send(w) \/ W!RecordDelivery(w)
      PROVE  WeeklyInv'
  BY <1>2, BeginWeekly, BuildWeekly, SendWeekly
<1>3. CASE UNCHANGED W!vars
  BY <1>3 DEF W!vars, WeeklyInv, WeeklyWorld, WeeklyStores, HasLatest
<1> QED BY <1>1, <1>2, <1>3 DEF W!Next

LEMMA WeeksAreCounted == WeeklyInv => W!CountsItsWeek
<1> SUFFICES ASSUME WeeklyInv, NEW k \in DOMAIN weekly
             PROVE  IF weekly[k].questions_status = "unavailable"
                    THEN weekly[k].questions = 0
                    ELSE weekly[k].questions =
                           Cardinality({i \in DOMAIN happened : W!InWeek(happened[i], k)})
  BY SameCountOfWeeks DEF W!CountsItsWeek
<1>1. weekly[k].week = k /\ WeekCount(happened, weekly[k])
  BY DEF WeeklyInv, WeeklyStores, WeeklyOK
<1> QED BY <1>1 DEF WeekCount, InTheWeek

\* The order of the weeks.  A summary lists as skipped weeks before its own
\* that have no summary; a request builds a week after every stored one, and
\* sends the latest.
SkipOK(weeks, s) == s.skipped \cap weeks = {} /\ \A k \in s.skipped : k < s.week

WeekRequestOK(weeks, label, s) ==
  /\ label \in {"build", "history", "save"} => \A k \in weeks : k < s.week
  /\ label \in {"save", "send", "record"} => SkipOK(weeks, s)
  /\ label \in {"send", "record"} => s.week \in weeks /\ \A k \in weeks : k <= s.week

SentInOrder(weeks, events) ==
  /\ \A i \in DOMAIN events : \E k \in weeks : events[i].week <= k
  /\ \A i, j \in DOMAIN events : i < j => events[i].week <= events[j].week

WeeksInOrder ==
  /\ \A k \in DOMAIN weekly : SkipOK(DOMAIN weekly, weekly[k])
  /\ SentInOrder(DOMAIN weekly, sent)
  /\ \A w \in Workers : WeekRequestOK(DOMAIN weekly, pc[w], job[w].summary)

LEMMA InitWeeks == W!Init => WeeksInOrder
BY DEF W!Init, WeeksInOrder, SentInOrder, WeekRequestOK

LEMMA WeeksAlone ==
  ASSUME OneAtATime, WeeklyInv, NEW w \in Workers, NEW label, NEW j, W!Step(w, label, j),
         WeekRequestOK(DOMAIN weekly', label, j.summary)
  PROVE  \A v \in Workers : WeekRequestOK(DOMAIN weekly', pc'[v], job'[v].summary)
<1>1. \A v \in Workers : v = w
  BY DEF OneAtATime
<1>2. pc'[w] = label /\ job'[w] = j
  BY DEF WeeklyInv, W!Step
<1> QED BY <1>1, <1>2

LEMMA WeeksRead ==
  ASSUME OneAtATime, WeeklyInv, WeeksInOrder, NEW w \in Workers, NEW label, NEW j,
         W!Step(w, label, j), UNCHANGED <<weekly, sent>>,
         WeekRequestOK(DOMAIN weekly, label, j.summary)
  PROVE  WeeksInOrder'
BY WeeksAlone DEF WeeksInOrder

LEMMA WeeksIdle == \A weeks, s : WeekRequestOK(weeks, "idle", s)
BY DEF WeekRequestOK

\* A request that sends a stored summary again sends the latest.
LEMMA RetriesInOrder ==
  ASSUME OneAtATime, WeeklyInv, WeeksInOrder, NEW w \in Workers, NEW k \in DOMAIN weekly, NEW d,
         \A l \in DOMAIN weekly : l <= k, W!_retry_if_due(w, weekly[k], d),
         UNCHANGED <<weekly, sent>>
  PROVE  WeeksInOrder'
<1>1. weekly[k].week = k /\ SkipOK(DOMAIN weekly, weekly[k])
  BY DEF WeeklyInv, WeeklyStores, WeeksInOrder
<1> DEFINE again == [day |-> d, summary |-> weekly[k]]
<1>2. WeekRequestOK(DOMAIN weekly, "send", again.summary)
  BY <1>1 DEF WeekRequestOK
<1>3. W!Step(w, "send", again) \/ W!Step(w, "idle", W!NoJob)
  BY DEF W!_retry_if_due, W!End
<1> HIDE DEF again
<1> QED BY <1>2, <1>3, WeeksIdle, WeeksRead

LEMMA BeginWeeks ==
  ASSUME W!WeeklyConstants, OneAtATime, WeeklyInv, WeeksInOrder, NEW w \in Workers,
         W!BeginGenerate(w) \/ W!RetryLatest(w)
  PROVE  WeeksInOrder'
<1>0. /\ WeeklyWorld /\ WeeklyStores /\ day \in Nat /\ UNCHANGED <<weekly, sent>>
  BY WeeklyFacts DEF W!BeginGenerate, W!RetryLatest
<1>1. CASE W!BeginGenerate(w)
  <2> DEFINE week == W!PreviousWeek(day)
             late == [W!NoJob EXCEPT !.day = day]
             fresh == [day |-> day, summary |-> W!Blank(week)]
  <2>1. \/ week \in DOMAIN weekly /\ W!_retry_if_due(w, weekly[week], day)
        \/ W!Step(w, "latest", late)
        \/ week \notin DOMAIN weekly /\ W!Step(w, "build", fresh)
    BY <1>1 DEF W!BeginGenerate
  <2>2. \A k \in DOMAIN weekly : k \in Nat /\ k <= week
    <3>1. W!iso_week(day) \in Nat \ {0} /\ week = W!iso_week(day) - 1
      BY <1>0, WeekIsPositive DEF WeeklyWorld, W!PreviousWeek
    <3>2. \A k \in DOMAIN weekly : k \in Nat /\ k < W!iso_week(day)
      BY <1>0 DEF WeeklyStores, WeeklyOK
    <3> QED BY <3>1, <3>2
  <2>3. CASE week \in DOMAIN weekly /\ W!_retry_if_due(w, weekly[week], day)
    BY <1>0, <2>2, <2>3, RetriesInOrder
  <2>4. CASE W!Step(w, "latest", late)
    BY <1>0, <2>4, WeeksRead DEF WeekRequestOK
  <2>5. CASE week \notin DOMAIN weekly /\ W!Step(w, "build", fresh)
    <3>1. week \in Int /\ fresh.summary.week = week
      BY <1>0, WeekIsPositive DEF WeeklyWorld, W!PreviousWeek, W!Blank
    <3>2. \A k \in DOMAIN weekly : k < fresh.summary.week
      <4> HIDE DEF week
      <4> QED BY <2>2, <2>5, <3>1
    <3>3. WeekRequestOK(DOMAIN weekly, "build", fresh.summary)
      BY <3>2 DEF WeekRequestOK
    <3> HIDE DEF fresh
    <3> QED BY <1>0, <2>5, <3>3, WeeksRead
  <2> QED BY <2>1, <2>3, <2>4, <2>5
<1>2. CASE W!RetryLatest(w)
  <2>1. CASE W!End(w)
    BY <1>0, <2>1, WeeksIdle, WeeksRead DEF W!End
  <2>2. CASE DOMAIN weekly # {} /\ W!_retry_if_due(w, weekly[W!Latest], job[w].day)
    BY <1>0, <2>2, LatestIs, RetriesInOrder
  <2> QED BY <1>2, <2>1, <2>2 DEF W!RetryLatest
<1> QED BY <1>1, <1>2

LEMMA BuildWeeks ==
  ASSUME W!WeeklyConstants, OneAtATime, WeeklyInv, WeeksInOrder, NEW w \in Workers,
         W!ReadQuestions(w) \/ W!ReadHistory(w)
  PROVE  WeeksInOrder'
<1> DEFINE j == job[w]
           s == j.summary
<1>0. /\ WeeklyStores /\ j \in W!Job /\ WeekJobOK(happened, day, pc[w], j)
      /\ WeekRequestOK(DOMAIN weekly, pc[w], s) /\ pc[w] \in {"build", "history"}
  BY WeeklyFacts DEF WeeksInOrder, W!ReadQuestions, W!ReadHistory, W!At
<1>1. s \in W!WeeklySummary /\ s.week \in Nat /\ \A k \in DOMAIN weekly : k < s.week
  BY <1>0 DEF WeekJobOK, WeeklyOK, WeekRequestOK, W!WeeklySummary
<1>2. UNCHANGED <<weekly, sent>>
  BY DEF W!ReadQuestions, W!ReadHistory
<1>3. CASE W!ReadQuestions(w)
  <2> DEFINE read == W!_questions(s.week)
             counted == [j EXCEPT !.summary = [s EXCEPT !.questions = read.n,
                                                        !.questions_status = read.status]]
             unread == [j EXCEPT !.summary.questions_status = "unavailable"]
  <2>1. W!Step(w, "history", counted) \/ W!Step(w, "history", unread)
    BY <1>3 DEF W!ReadQuestions
  <2>2. counted.summary.week = s.week /\ unread.summary.week = s.week
    BY <1>0, <1>1 DEF W!Job, W!WeeklySummary
  <2> HIDE DEF counted, unread
  <2>3. \A i \in {counted, unread} : WeekRequestOK(DOMAIN weekly, "history", i.summary)
    BY <1>1, <2>2 DEF WeekRequestOK
  <2> QED BY <1>2, <2>1, <2>3, WeeksRead
<1>4. CASE W!ReadHistory(w)
  <2>1. PICK skipped \in {W!_skipped_weeks(s.week), {}} :
          W!Step(w, "save", [j EXCEPT !.summary.skipped = skipped])
    BY <1>4 DEF W!ReadHistory
  <2>2. \A k \in skipped : k < s.week /\ k \notin DOMAIN weekly
    BY <1>0, <1>1, <2>1, SkippedAreWeeks
  <2> DEFINE next == [j EXCEPT !.summary.skipped = skipped]
  <2>3. next.summary.week = s.week /\ next.summary.skipped = skipped
    BY <1>0, <1>1 DEF W!Job, W!WeeklySummary
  <2> HIDE DEF next
  <2>4. WeekRequestOK(DOMAIN weekly, "save", next.summary)
    BY <1>1, <2>2, <2>3 DEF WeekRequestOK, SkipOK
  <2> QED BY <1>2, <2>1, <2>4, WeeksRead DEF next
<1> QED BY <1>3, <1>4

LEMMA SendWeeks ==
  ASSUME W!WeeklyConstants, OneAtATime, WeeklyInv, WeeksInOrder, NEW w \in Workers,
         W!SaveSummary(w) \/ W!Send(w) \/ W!RecordDelivery(w)
  PROVE  WeeksInOrder'
<1> DEFINE j == job[w]
           s == j.summary
<1>0. /\ WeeklyStores /\ j \in W!Job /\ WeekJobOK(happened, day, pc[w], j)
      /\ WeekRequestOK(DOMAIN weekly, pc[w], s)
      /\ pc[w] \in {"save", "send", "record"} /\ UNCHANGED <<day, happened>>
  BY WeeklyFacts DEF WeeksInOrder, W!SaveSummary, W!Send, W!RecordDelivery, W!At
<1>1. /\ WeeklyOK(happened, day, s) /\ s \in W!WeeklySummary /\ s.week \in Nat
      /\ DOMAIN weekly \subseteq Nat
  BY <1>0 DEF WeekJobOK, WeeklyOK, W!WeeklySummary, WeeklyStores
<1>2. SkipOK(DOMAIN weekly, s) /\ \A k \in DOMAIN weekly : k <= s.week
  BY <1>0, <1>1 DEF WeekRequestOK
\* The summary is stored: the first time after all others, or in its place.
<1>3. ASSUME weekly' = W!Stored(s), UNCHANGED sent
      PROVE  /\ \A k \in DOMAIN weekly' : SkipOK(DOMAIN weekly', weekly'[k])
             /\ SentInOrder(DOMAIN weekly', sent')
             /\ SkipOK(DOMAIN weekly', s)
             /\ s.week \in DOMAIN weekly' /\ \A k \in DOMAIN weekly' : k <= s.week
  <2>1. /\ DOMAIN weekly' = DOMAIN weekly \cup {s.week}
        /\ weekly'[s.week] = s
        /\ \A k \in DOMAIN weekly : k # s.week => weekly'[k] = weekly[k]
    BY <1>0, <1>1, <1>3, StoringKeeps
  <2>2. s.week \notin s.skipped
    BY <1>1, <1>2 DEF SkipOK
  <2>3. SkipOK(DOMAIN weekly', s)
    BY <1>2, <2>1, <2>2 DEF SkipOK
  <2>4. ASSUME NEW k \in DOMAIN weekly, k # s.week
        PROVE  SkipOK(DOMAIN weekly', weekly[k])
    <3>1. SkipOK(DOMAIN weekly, weekly[k]) /\ weekly[k].week = k
          /\ weekly[k].skipped \subseteq Nat /\ k \in Nat /\ k <= s.week
      BY <1>0, <1>2 DEF WeeksInOrder, WeeklyStores, WeeklyOK, W!WeeklySummary
    <3>2. s.week \notin weekly[k].skipped
      BY <1>1, <3>1 DEF SkipOK
    <3> QED BY <2>1, <3>1, <3>2 DEF SkipOK
  <2>5. SentInOrder(DOMAIN weekly', sent')
    BY <1>3, <2>1 DEF WeeksInOrder, SentInOrder
  <2> HIDE DEF s
  <2> QED BY <1>1, <1>2, <2>1, <2>3, <2>4, <2>5
<1>4. CASE W!SaveSummary(w)
  <2>1. CASE weekly' = W!Stored(s) /\ UNCHANGED sent /\ W!Step(w, "send", j)
    <3>1. WeekRequestOK(DOMAIN weekly', "send", s)
      BY <1>3, <2>1 DEF WeekRequestOK
    <3> QED BY <1>3, <2>1, <3>1, WeeksAlone DEF WeeksInOrder
  <2>2. CASE UNCHANGED <<weekly, sent>> /\ W!Step(w, "idle", W!NoJob)
    BY <2>2, WeeksIdle, WeeksRead
  <2> QED BY <1>4, <2>1, <2>2 DEF W!SaveSummary, W!End
<1>5. CASE W!Send(w)
  <2> DEFINE ok == [j EXCEPT !.summary = [s EXCEPT !.delivery = "sent", !.next_retry = None]]
             refused == [j EXCEPT !.summary = [s EXCEPT !.delivery = "failed",
                                                        !.next_retry = j.day + 1]]
             event == [week |-> s.week, day |-> j.day]
  <2>1. /\ \/ sent' = Append(sent, event) /\ W!Step(w, "record", ok)
           \/ UNCHANGED sent /\ W!Step(w, "record", refused)
        /\ UNCHANGED weekly /\ pc[w] = "send"
    BY <1>5 DEF W!Send, W!At
  <2>2. \A i \in {ok, refused} : i.summary.week = s.week /\ i.summary.skipped = s.skipped
    <3> DEFINE t == [s EXCEPT !.delivery = "sent", !.next_retry = None]
               u == [s EXCEPT !.delivery = "failed", !.next_retry = j.day + 1]
    <3>1. j.day + 1 \in Nat
      BY <1>0 DEF W!Job
    <3>2. /\ t \in W!WeeklySummary /\ t.week = s.week /\ t.skipped = s.skipped
          /\ u \in W!WeeklySummary /\ u.week = s.week /\ u.skipped = s.skipped
      BY <1>1, <3>1 DEF W!WeeklySummary, W!DeliveryStatus
    <3> HIDE DEF t, u, s
    <3>3. [j EXCEPT !.summary = t].summary = t /\ [j EXCEPT !.summary = u].summary = u
      BY <1>0, <3>2, JobWith
    <3> QED BY <3>2, <3>3 DEF t, u
  <2>3. event.week = s.week /\ s.week \in DOMAIN weekly
    BY <1>0, <2>1 DEF WeekRequestOK
  <2>4. ASSUME NEW i \in {ok, refused}
        PROVE  WeekRequestOK(DOMAIN weekly, "record", i.summary)
    <3> DEFINE r == i.summary
    <3>1. r.week = s.week /\ r.skipped = s.skipped
      BY <2>2
    <3> HIDE DEF r, s, ok, refused
    <3>2. SkipOK(DOMAIN weekly, r)
      BY <1>2, <3>1 DEF SkipOK
    <3>3. WeekRequestOK(DOMAIN weekly, "record", r)
      BY <1>2, <2>3, <3>1, <3>2 DEF WeekRequestOK
    <3> QED BY <3>3 DEF r
  <2>5. sent \in Seq([week : Nat, day : Nat]) /\ SentInOrder(DOMAIN weekly, sent)
    BY <1>0 DEF WeeklyStores, WeeksInOrder
  <2> HIDE DEF event, ok, refused, s
  <2>6. SentInOrder(DOMAIN weekly, Append(sent, event))
    <3> DEFINE n == Len(sent)
               more == Append(sent, event)
    <3>1. /\ n \in Nat /\ DOMAIN sent = 1..n /\ DOMAIN more = 1..(n + 1)
          /\ more[n + 1] = event /\ \A i \in 1..n : more[i] = sent[i] /\ sent[i].week \in Nat
      <4> DEFINE Events == [week : Nat, day : Nat]
      <4>1. sent \in Seq(Events) /\ \A e \in Events : e.week \in Nat
        BY <2>5
      <4> HIDE DEF Events
      <4>2. \A i \in 1..n : sent[i] \in Events
        BY <4>1
      <4> QED BY <4>1, <4>2
    <3>2. \A i \in 1..n : sent[i].week <= s.week
      <4>1. ASSUME NEW i \in 1..n PROVE sent[i].week <= s.week
        <5>1. PICK k \in DOMAIN weekly : sent[i].week <= k
          BY <2>5, <3>1 DEF SentInOrder
        <5>2. k \in Nat /\ k <= s.week
          BY <1>1, <1>2
        <5> QED BY <1>1, <3>1, <5>1, <5>2
      <4> QED BY <4>1
    <3> HIDE DEF n, more
    <3>3. \A i \in DOMAIN more : i \in 1..n \/ i = n + 1
      BY <3>1
    <3>4. \A i \in DOMAIN more : \E k \in DOMAIN weekly : more[i].week <= k
      <4>1. \A i \in 1..n : \E k \in DOMAIN weekly : more[i].week <= k
        BY <2>5, <3>1 DEF SentInOrder
      <4>2. more[n + 1].week <= s.week
        BY <1>1, <2>3, <3>1
      <4> QED BY <2>3, <3>3, <4>1, <4>2
    <3>5. ASSUME NEW a \in DOMAIN more, NEW b \in DOMAIN more, a < b
          PROVE  more[a].week <= more[b].week
      <4>1. a \in 1..n /\ (b \in 1..n \/ b = n + 1)
        BY <3>1, <3>5
      <4>2. CASE b \in 1..n
        BY <2>5, <3>1, <3>5, <4>1, <4>2 DEF SentInOrder
      <4>3. CASE b = n + 1
        BY <2>3, <3>1, <3>2, <4>1, <4>3
      <4> QED BY <4>1, <4>2, <4>3
    <3>6. SentInOrder(DOMAIN weekly, more)
      BY <3>4, <3>5 DEF SentInOrder
    <3> QED BY <3>6 DEF more
  <2>7. SentInOrder(DOMAIN weekly', sent')
    BY <2>1, <2>5, <2>6
  <2>8. \A v \in Workers : WeekRequestOK(DOMAIN weekly', pc'[v], job'[v].summary)
    BY <2>1, <2>4, WeeksAlone
  <2> QED BY <2>1, <2>7, <2>8 DEF WeeksInOrder
<1>6. CASE W!RecordDelivery(w)
  <2>1. W!Step(w, "idle", W!NoJob) /\ UNCHANGED sent /\ (weekly' = W!Stored(s) \/ UNCHANGED weekly)
    BY <1>6 DEF W!RecordDelivery, W!End
  <2>2. CASE weekly' = W!Stored(s)
    BY <1>3, <2>1, <2>2, WeeksIdle, WeeksAlone DEF WeeksInOrder
  <2>3. CASE UNCHANGED weekly
    BY <2>1, <2>3, WeeksIdle, WeeksRead
  <2> QED BY <2>1, <2>2, <2>3
<1> QED BY <1>4, <1>5, <1>6

LEMMA NextWeeks ==
  ASSUME W!WeeklyConstants, OneAtATime, WeeklyInv, WeeksInOrder, [W!Next]_W!vars
  PROVE  WeeksInOrder'
<1>1. CASE W!NextDay \/ W!Interact
  BY <1>1 DEF W!NextDay, W!Interact, WeeksInOrder
<1>2. ASSUME NEW w \in Workers,
             \/ W!BeginGenerate(w) \/ W!RetryLatest(w) \/ W!ReadQuestions(w)
             \/ W!ReadHistory(w) \/ W!SaveSummary(w) \/ W!Send(w) \/ W!RecordDelivery(w)
      PROVE  WeeksInOrder'
  BY <1>2, BeginWeeks, BuildWeeks, SendWeeks
<1>3. CASE UNCHANGED W!vars
  BY <1>3 DEF W!vars, WeeksInOrder
<1> QED BY <1>1, <1>2, <1>3 DEF W!Next

LEMMA WeeksStayMissed == WeeksInOrder => W!MissedWeeksStayMissed
BY DEF WeeksInOrder, SkipOK, SentInOrder, W!MissedWeeksStayMissed

-----------------------------------------------------------------------------
(* The gap report: types, for any number of requests. *)

LEMMA SameCountOfGaps == \A X : G!Cardinality(X) = Cardinality(X)
BY Zenon DEF G!Cardinality, Cardinality

GapJob(records) ==
  [records : SUBSET DOMAIN records, struggles : SUBSET G!Gap, unexplored : SUBSET Topics,
   recommended : SUBSET G!Recommendation, statuses : G!SourceStatuses, read : Nat, rated : Nat]

GapInv ==
  /\ history \in Seq(G!InteractionRecord) /\ ratings \in Seq(Nat \ {0})
  /\ current # None => current \in G!GapReports
  /\ saves \in Nat
  /\ pc \in [Workers -> G!PC] /\ job \in [Workers -> GapJob(history)]

LEMMA GapTypes == GapInv => G!TypeOK
BY DEF GapInv, G!TypeOK, GapJob

LEMMA NoGapJob == \A records : G!NoJob \in GapJob(records)
BY DEF G!NoJob, GapJob, G!NoStatuses, G!SourceStatuses, G!SourceStatus

LEMMA GapStep ==
  ASSUME GapInv, NEW w \in Workers, NEW label \in G!PC, NEW j \in GapJob(history),
         G!Step(w, label, j), UNCHANGED <<history, ratings>>,
         (current # None => current \in G!GapReports)', saves' \in Nat
  PROVE  GapInv'
BY DEF GapInv, G!Step

\* A source's status is noted.
LEMMA Noted ==
  ASSUME NEW records, NEW j \in GapJob(records),
         NEW source \in {"interactions", "feedback", "profile", "courses"},
         NEW status \in G!SourceStatus
  PROVE  /\ [j.statuses EXCEPT ![source] = status] \in G!SourceStatuses
         /\ [j EXCEPT !.statuses[source] = status]
              = [j EXCEPT !.statuses = [j.statuses EXCEPT ![source] = status]]
         /\ [j EXCEPT !.statuses[source] = status] \in GapJob(records)
<1>1. j.statuses \in G!SourceStatuses
  BY DEF GapJob
<1>2. [j.statuses EXCEPT ![source] = status] \in G!SourceStatuses
  BY <1>1 DEF G!SourceStatuses
<1>3. [j EXCEPT !.statuses[source] = status]
        = [j EXCEPT !.statuses = [j.statuses EXCEPT ![source] = status]]
  BY DEF GapJob
<1> DEFINE statuses == [j.statuses EXCEPT ![source] = status]
<1> HIDE DEF statuses
<1>4. [j EXCEPT !.statuses = statuses] \in GapJob(records)
  BY <1>2 DEF GapJob, statuses
<1> QED BY <1>2, <1>3, <1>4 DEF statuses

LEMMA FiredTypes ==
  ASSUME NEW signal \in G!SignalKind, NEW observed, NEW threshold, NEW ids \in SUBSET (Nat \ {0})
  PROVE  G!Fired(signal, observed, threshold, ids) \in SUBSET G!SignalEvidence
BY DEF G!Fired, G!SignalEvidence

LEMMA IdsTyped ==
  ASSUME history \in Seq(G!InteractionRecord), NEW records \in SUBSET DOMAIN history
  PROVE  /\ G!IdsOf(records) \in SUBSET (Nat \ {0})
         /\ G!topic_tags(records) \in SUBSET Topics
<1>1. \A k \in records : history[k] \in G!InteractionRecord
  OBVIOUS
<1>2. \A r \in G!InteractionRecord : r.id \in Nat \ {0} /\ r.is.topic \in Topics
  BY DEF G!InteractionRecord, G!InteractionKind
<1> QED BY <1>1, <1>2 DEF G!IdsOf, G!topic_tags

LEMMA StrugglesTyped ==
  ASSUME history \in Seq(G!InteractionRecord), NEW records \in SUBSET DOMAIN history, NEW rated
  PROVE  G!detect_struggles(records, rated) \in SUBSET G!Gap
<1> DEFINE own(t) == G!OfTopic(records, t)
           signals(t) == G!_explain_differently_signal(own(t)) \cup G!_follow_up_signal(own(t))
                           \cup G!_low_rating_signal(own(t), rated)
<1>1. \A t : own(t) \in SUBSET DOMAIN history
  BY DEF G!OfTopic
<1>2. {"explain_differently", "follow_up", "low_rating"} \subseteq G!SignalKind
  BY DEF G!SignalKind
<1>3. ASSUME NEW X \in SUBSET DOMAIN history
      PROVE  /\ G!_explain_differently_signal(X) \in SUBSET G!SignalEvidence
             /\ G!_follow_up_signal(X) \in SUBSET G!SignalEvidence
             /\ G!_low_rating_signal(X, rated) \in SUBSET G!SignalEvidence
  <2>1. G!_explain_differently_signal(X) \in SUBSET G!SignalEvidence
    <3> DEFINE explained == {k \in X : history[k].is.explained > 0}
    <3>1. G!IdsOf(explained) \in SUBSET (Nat \ {0})
      BY IdsTyped
    <3> HIDE DEF explained
    <3>2. \A observed : G!Fired("explain_differently", observed,
                          explain_differently_struggle_threshold, G!IdsOf(explained))
                          \in SUBSET G!SignalEvidence
      BY <1>2, <3>1, FiredTypes
    <3> QED BY <3>2, Zenon DEF G!_explain_differently_signal, explained
  <2>2. G!_follow_up_signal(X) \in SUBSET G!SignalEvidence
    <3> DEFINE asked == {k \in X : history[k].is.follow_up}
    <3>1. G!IdsOf(asked) \in SUBSET (Nat \ {0})
      BY IdsTyped
    <3> HIDE DEF asked
    <3> QED BY <1>2, <3>1, FiredTypes DEF G!_follow_up_signal, asked
  <2>3. G!_low_rating_signal(X, rated) \in SUBSET G!SignalEvidence
    <3> DEFINE low == {k \in DOMAIN rated : rated[k] \in G!IdsOf(X)}
               ids == {rated[k] : k \in low}
    <3>1. ids \in SUBSET (Nat \ {0})
      BY IdsTyped
    <3>2. G!_low_rating_signal(X, rated)
            = G!Fired("low_rating", G!Cardinality(low), low_rating_struggle_threshold, ids)
      BY DEF G!_low_rating_signal
    <3> HIDE DEF ids
    <3> QED BY <1>2, <3>1, <3>2, FiredTypes
  <2> QED BY <2>1, <2>2, <2>3
<1>4. \A t : signals(t) \in SUBSET G!SignalEvidence
  BY <1>1, <1>3
<1>5. G!detect_struggles(records, rated) =
        {[topic |-> t, type |-> "struggle", evidence |-> signals(t), recommendations |-> {}] :
           t \in {u \in G!topic_tags(records) : signals(u) # {}}}
  BY DEF G!detect_struggles
<1> HIDE DEF signals
<1>6. G!topic_tags(records) \in SUBSET Topics
  BY IdsTyped
<1>7. \A t \in Topics :
        [topic |-> t, type |-> "struggle", evidence |-> signals(t), recommendations |-> {}] \in G!Gap
  BY <1>4 DEF G!Gap, G!GapType
<1> QED BY <1>5, <1>6, <1>7

LEMMA RecommendationsTyped ==
  ASSUME G!GapReportConstants, NEW candidates \in SUBSET G!Recommendation, NEW enrolled, NEW wanted
  PROVE  G!validate_recommendations(candidates, enrolled, wanted) \in SUBSET G!Recommendation
<1>1. ASSUME NEW c \in G!Recommendation
      PROVE  G!Resolved(c, enrolled) \in SUBSET G!Recommendation
  <2>1. c.topic \in Topics /\ c.course \in Courses \cup {Unlisted}
    BY DEF G!Recommendation
  <2>2. \A l \in Lessons : l.lesson \in Nat
    BY DEF G!GapReportConstants
  <2>3. c.course \in Courses => G!_lessons_for_topic(c.course, c.topic) \in SUBSET G!Recommendation
    BY <2>1, <2>2 DEF G!_lessons_for_topic, G!Recommendation
  <2>4. CASE c.course \notin Courses
    BY <2>4 DEF G!Resolved
  <2>5. CASE c.course \in Courses /\ c.lesson # None
    BY <2>5 DEF G!Resolved
  <2>6. CASE c.course \in Courses /\ ~ (c.lesson # None)
    BY <2>3, <2>6 DEF G!Resolved
  <2> QED BY <2>4, <2>5, <2>6
<1> QED BY <1>1 DEF G!validate_recommendations

LEMMA ReportTyped ==
  ASSUME history \in Seq(G!InteractionRecord), NEW j \in GapJob(history)
  PROVE  G!assemble_report(j) \in G!GapReports
<1> DEFINE found == j.struggles \cup G!_unexplored_gaps(j.unexplored)
           gaps == G!enforce_evidence_integrity(found, G!IdsOf(j.records))
           own(g) == {r \in j.recommended : r.topic = g.topic}
           filled == {[g EXCEPT !.recommendations = own(g)] : g \in gaps}
           count == Cardinality(j.records)
<1>1. /\ j.records \in SUBSET DOMAIN history /\ j.struggles \in SUBSET G!Gap
      /\ j.unexplored \in SUBSET Topics /\ j.recommended \in SUBSET G!Recommendation
      /\ j.statuses \in G!SourceStatuses /\ j.read \in Nat /\ j.rated \in Nat
  BY DEF GapJob
<1>2. count \in Nat
  <2>1. IsFiniteSet(DOMAIN history)
    BY FS_Interval
  <2> QED BY <1>1, <2>1, FS_Subset, FS_CardinalityType
<1>3. G!_unexplored_gaps(j.unexplored) \in SUBSET G!Gap
  BY <1>1 DEF G!_unexplored_gaps, G!Gap, G!GapType
<1>4. gaps \in SUBSET G!Gap
  BY <1>1, <1>3 DEF G!enforce_evidence_integrity
<1>5. \A g \in G!Gap : [g EXCEPT !.recommendations = own(g)] \in G!Gap
  <2> SUFFICES ASSUME NEW g \in G!Gap PROVE [g EXCEPT !.recommendations = own(g)] \in G!Gap
    OBVIOUS
  <2> DEFINE mine == own(g)
  <2>1. mine \in SUBSET G!Recommendation
    BY <1>1
  <2> HIDE DEF mine
  <2>2. [g EXCEPT !.recommendations = mine] \in G!Gap
    BY <2>1 DEF G!Gap
  <2> QED BY <2>2 DEF mine
<1>6. filled \in SUBSET G!Gap
  BY <1>4, <1>5
<1>7. G!assemble_report(j) = [gaps |-> filled, count |-> count, statuses |-> j.statuses,
                              read |-> j.read, rated |-> j.rated]
  BY SameCountOfGaps DEF G!assemble_report
<1> HIDE DEF filled, count
<1> QED BY <1>1, <1>2, <1>6, <1>7 DEF G!GapReports

LEMMA RequestsTyped ==
  ASSUME G!GapReportConstants, GapInv, NEW w \in Workers, G!current_report(w)
  PROVE  GapInv'
<1> DEFINE j == job[w]
<1>1. /\ history \in Seq(G!InteractionRecord) /\ j \in GapJob(history) /\ saves \in Nat
      /\ (current # None => current \in G!GapReports) /\ UNCHANGED <<history, ratings>>
  BY DEF GapInv, G!current_report, G!BeginReport, G!LoadFeedback, G!LoadProfile, G!LoadCourses,
         G!SaveReport
<1>2. /\ j.records \in SUBSET DOMAIN history /\ j.struggles \in SUBSET G!Gap
      /\ j.unexplored \in SUBSET Topics
  BY <1>1 DEF GapJob
<1>3. ASSUME NEW label \in {"feedback", "profile", "courses", "save"}, NEW next \in GapJob(history),
             G!Step(w, label, next), UNCHANGED <<current, saves>>
      PROVE  GapInv'
  <2>1. label \in G!PC
    BY DEF G!PC
  <2> QED BY <1>1, <1>3, <2>1, GapStep
<1>4. CASE G!BeginReport(w)
  <2>1. PICK positions \in SUBSET DOMAIN history, partial \in BOOLEAN :
          G!Step(w, "feedback",
            [G!NoJob EXCEPT !.records = G!qualifying_interactions(positions), !.read = Len(history),
               !.statuses["interactions"] = IF partial THEN "partial" ELSE "available"])
    BY <1>4 DEF G!BeginReport
  <2> DEFINE records == G!qualifying_interactions(positions)
             status == IF partial THEN "partial" ELSE "available"
             read == [G!NoJob EXCEPT !.records = records, !.read = Len(history)]
  <2>2. records \in SUBSET DOMAIN history
    BY DEF G!qualifying_interactions
  <2>3. Len(history) \in Nat
    BY <1>1
  <2> HIDE DEF records
  <2>4. read \in GapJob(history)
    BY <2>2, <2>3, NoGapJob DEF GapJob
  <2>5. status \in G!SourceStatus
    BY DEF G!SourceStatus
  <2> HIDE DEF status
  <2>6. [read EXCEPT !.statuses["interactions"] = status] \in GapJob(history)
    <3> HIDE DEF read
    <3> QED BY <2>4, <2>5, Noted
  <2>7. [read EXCEPT !.statuses["interactions"] = status]
          = [G!NoJob EXCEPT !.records = records, !.read = Len(history),
                            !.statuses["interactions"] = status]
    BY DEF G!NoJob
  <2> HIDE DEF read
  <2>8. G!Step(w, "feedback", [G!NoJob EXCEPT !.records = records, !.read = Len(history),
                                              !.statuses["interactions"] = status])
    BY <2>1 DEF records, status
  <2> QED BY <1>3, <1>4, <2>6, <2>7, <2>8 DEF G!BeginReport
<1>5. CASE G!LoadFeedback(w)
  <2>1. PICK rated, status :
          /\ status \in {"empty", "available", "partial", "unavailable", "invalid"}
          /\ G!Step(w, "profile",
               [j EXCEPT !.struggles = G!detect_struggles(j.records, rated),
                         !.statuses["feedback"] = status, !.rated = Len(ratings)])
    <3> DEFINE mine == SelectSeq(ratings, LAMBDA id : id \in G!IdsOf(j.records))
               Loaded(rated, status) ==
                 G!Step(w, "profile",
                   [j EXCEPT !.struggles = G!detect_struggles(j.records, rated),
                             !.statuses["feedback"] = status, !.rated = Len(ratings)])
    <3>1. \/ Loaded(mine, IF mine = <<>> THEN "empty" ELSE "available")
          \/ \E n \in 0..Len(mine) : Loaded(SubSeq(mine, 1, n), "partial")
          \/ \E failure \in {"unavailable", "invalid"} : Loaded(<<>>, failure)
      BY <1>5, Zenon DEF G!LoadFeedback
    <3> HIDE DEF mine, Loaded
    <3>2. PICK rated, status :
            /\ status \in {"empty", "available", "partial", "unavailable", "invalid"}
            /\ Loaded(rated, status)
      BY <3>1
    <3> QED BY <3>2 DEF Loaded
  <2> DEFINE struggles == G!detect_struggles(j.records, rated)
             read == [j EXCEPT !.struggles = struggles, !.rated = Len(ratings)]
  <2>2. struggles \in SUBSET G!Gap /\ Len(ratings) \in Nat
    BY <1>1, <1>2, StrugglesTyped DEF GapInv
  <2> HIDE DEF struggles, j
  <2>3. read \in GapJob(history)
    BY <1>1, <2>2 DEF GapJob
  <2>4. status \in G!SourceStatus
    BY <2>1 DEF G!SourceStatus
  <2>5. [read EXCEPT !.statuses["feedback"] = status] \in GapJob(history)
    <3> HIDE DEF read
    <3> QED BY <2>3, <2>4, Noted
  <2>6. [read EXCEPT !.statuses["feedback"] = status]
          = [j EXCEPT !.struggles = struggles, !.statuses["feedback"] = status, !.rated = Len(ratings)]
    BY <1>1 DEF GapJob
  <2> HIDE DEF read
  <2> QED BY <1>3, <1>5, <2>1, <2>5, <2>6 DEF G!LoadFeedback, struggles
<1>6. CASE G!LoadProfile(w)
  <2>1. PICK areas \in SUBSET Topics, status \in {"available", "empty", "unavailable"} :
          G!Step(w, "courses", [j EXCEPT !.statuses["profile"] = status,
                   !.unexplored = G!analyse_unexplored(areas, status, j.records)])
    BY <1>6 DEF G!LoadProfile
  <2> DEFINE unexplored == G!analyse_unexplored(areas, status, j.records)
             read == [j EXCEPT !.unexplored = unexplored]
  <2>2. unexplored \in SUBSET Topics
    BY DEF G!analyse_unexplored
  <2> HIDE DEF unexplored, j
  <2>3. read \in GapJob(history)
    BY <1>1, <2>2 DEF GapJob
  <2>4. status \in G!SourceStatus
    BY DEF G!SourceStatus
  <2>5. [read EXCEPT !.statuses["profile"] = status] \in GapJob(history)
    <3> HIDE DEF read
    <3> QED BY <2>3, <2>4, Noted
  <2>6. [read EXCEPT !.statuses["profile"] = status]
          = [j EXCEPT !.statuses["profile"] = status, !.unexplored = unexplored]
    BY <1>1 DEF GapJob
  <2> HIDE DEF read
  <2> QED BY <1>3, <1>6, <2>1, <2>5, <2>6 DEF G!LoadProfile, unexplored
<1>7. CASE G!LoadCourses(w)
  <2> DEFINE wanted == {g.topic : g \in j.struggles} \cup j.unexplored
             Failed == G!Step(w, "save", [j EXCEPT !.statuses["courses"] = "unavailable"])
             Planned(offered, enrolled) ==
               G!Step(w, "save", [j EXCEPT !.statuses["courses"] = "available",
                 !.recommended = G!validate_recommendations(offered, enrolled, wanted)])
  <2>1. \/ Failed
        \/ \E offered \in {{}} \cup {{c} : c \in G!Candidates(wanted)}, enrolled \in SUBSET Courses :
             Planned(offered, enrolled)
    BY <1>7 DEF G!LoadCourses
  <2>2. wanted \in SUBSET Topics
    BY <1>2 DEF G!Gap
  <2>3. G!Candidates(wanted) \in SUBSET G!Recommendation
    BY <2>2 DEF G!Candidates, G!Recommendation
  <2>4. {"available", "unavailable"} \subseteq G!SourceStatus
    BY DEF G!SourceStatus
  <2>5. CASE Failed
    <3>1. [j EXCEPT !.statuses["courses"] = "unavailable"] \in GapJob(history)
      BY <1>1, <2>4, Noted
    <3> QED BY <1>3, <1>7, <2>5, <3>1 DEF G!LoadCourses
  <2>6. ASSUME NEW offered \in {{}} \cup {{c} : c \in G!Candidates(wanted)},
               NEW enrolled \in SUBSET Courses, Planned(offered, enrolled)
        PROVE  GapInv'
    <3> DEFINE planned == G!validate_recommendations(offered, enrolled, wanted)
               read == [j EXCEPT !.recommended = planned]
    <3>1. planned \in SUBSET G!Recommendation
      <4>1. offered \in SUBSET G!Recommendation
        BY <2>3, <2>6
      <4> QED BY <4>1, RecommendationsTyped
    <3> HIDE DEF planned, j
    <3>2. read \in GapJob(history)
      BY <1>1, <3>1 DEF GapJob
    <3>3. [read EXCEPT !.statuses["courses"] = "available"] \in GapJob(history)
      <4> HIDE DEF read
      <4> QED BY <2>4, <3>2, Noted
    <3>4. [read EXCEPT !.statuses["courses"] = "available"]
            = [j EXCEPT !.statuses["courses"] = "available", !.recommended = planned]
      BY <1>1 DEF GapJob
    <3>5. G!Step(w, "save", [j EXCEPT !.statuses["courses"] = "available", !.recommended = planned])
      BY <2>6 DEF planned
    <3> HIDE DEF read
    <3> QED BY <1>3, <1>7, <3>3, <3>4, <3>5 DEF G!LoadCourses
  <2> QED BY <2>1, <2>5, <2>6
<1>8. CASE G!SaveReport(w)
  <2>1. /\ UNCHANGED <<current, saves>> \/ (current' = G!assemble_report(j) /\ saves' = saves + 1)
        /\ G!Step(w, "idle", G!NoJob)
    BY <1>8 DEF G!SaveReport, G!End
  <2>2. G!assemble_report(j) \in G!GapReports
    BY <1>1, ReportTyped
  <2>3. (current # None => current \in G!GapReports)' /\ saves' \in Nat
    BY <1>1, <2>1, <2>2
  <2> QED BY <1>1, <2>1, <2>3, NoGapJob, GapStep DEF G!PC
<1> QED BY <1>4, <1>5, <1>6, <1>7, <1>8 DEF G!current_report

LEMMA InitGap == G!Init => GapInv
BY NoGapJob DEF G!Init, GapInv, G!PC

LEMMA NextGap ==
  ASSUME G!GapReportConstants, GapInv, [G!Next]_G!vars
  PROVE  GapInv'
<1>1. ASSUME NEW r \in G!InteractionRecord, history' = Append(history, r),
             UNCHANGED <<ratings, current, saves, pc, job>>
      PROVE  GapInv'
  <2>1. /\ history \in Seq(G!InteractionRecord) /\ job \in [Workers -> GapJob(history)]
    BY DEF GapInv
  <2>2. history' \in Seq(G!InteractionRecord) /\ DOMAIN history \subseteq DOMAIN history'
    BY <1>1, <2>1
  <2>3. GapJob(history) \subseteq GapJob(history')
    BY <2>2 DEF GapJob
  <2>4. job' \in [Workers -> GapJob(history')]
    BY <1>1, <2>1, <2>3
  <2> QED BY <1>1, <2>2, <2>4 DEF GapInv
<1>2. CASE G!Interact
  <2>1. PICK kind \in Kinds : history' = Append(history, [id |-> Len(history) + 1, is |-> kind])
    BY <1>2 DEF G!Interact
  <2>2. [id |-> Len(history) + 1, is |-> kind] \in G!InteractionRecord
    BY DEF G!GapReportConstants, G!InteractionRecord, GapInv
  <2> QED BY <1>1, <1>2, <2>1, <2>2 DEF G!Interact
<1>3. CASE G!Redeliver
  <2>1. PICK k \in DOMAIN history : history' = Append(history, history[k])
    BY <1>3 DEF G!Redeliver
  <2>2. history[k] \in G!InteractionRecord
    BY DEF GapInv
  <2> QED BY <1>1, <1>3, <2>1, <2>2 DEF G!Redeliver
<1>4. CASE G!Rate
  <2>1. PICK k \in DOMAIN history : ratings' = Append(ratings, history[k].id)
    BY <1>4 DEF G!Rate
  <2>2. history[k] \in G!InteractionRecord
    BY DEF GapInv
  <2>3. history[k].id \in Nat \ {0}
    BY <2>2 DEF G!InteractionRecord
  <2>4. ratings' \in Seq(Nat \ {0})
    BY <2>1, <2>3 DEF GapInv
  <2> QED BY <1>4, <2>4 DEF GapInv, G!Rate
<1>5. ASSUME NEW w \in Workers, G!current_report(w) PROVE GapInv'
  BY <1>5, RequestsTyped
<1>6. CASE UNCHANGED G!vars
  BY <1>6 DEF G!vars, GapInv
<1> QED BY <1>2, <1>3, <1>4, <1>5, <1>6 DEF G!Next

-----------------------------------------------------------------------------
(***************************************************************************)
(* The reports side by side.  No call crosses from one to another: each    *)
(* has its invariant while it is the active one, and is empty otherwise.   *)
(***************************************************************************)

ReportVars == <<active, vars, gap_vars, weekly_vars, streak_vars>>

\* For any number of requests.
ReportInv ==
  /\ active = "summary" => Inv
  /\ active = "gap" => GapInv
  /\ active = "weekly" => WeeklyInv
  /\ active = "streak" => StreakTypeInv
  /\ active # "weekly" => weekly = <<>> /\ sent = <<>>
  /\ active # "streak" => streak = None /\ offers = <<>>

\* For one request at a time.
ReportOrder ==
  /\ active = "weekly" => WeeksInOrder
  /\ active = "streak" => StreakInv

LEMMA ReportStep ==
  ASSUME [ReportsNext]_ReportVars
  PROVE  /\ UNCHANGED active
         /\ active = "summary" => [Next]_vars
         /\ active = "gap" => [G!Next]_G!vars
         /\ active = "weekly" => [W!Next]_W!vars
         /\ active = "streak" => [S!Next]_S!vars
         /\ active # "weekly" => UNCHANGED weekly_vars
         /\ active # "streak" => UNCHANGED streak_vars
<1>1. CASE ReportsNext
  BY <1>1 DEF ReportsNext
<1>2. CASE UNCHANGED ReportVars
  <2>1. UNCHANGED <<active, vars, gap_vars, weekly_vars, streak_vars>>
    BY <1>2 DEF ReportVars
  <2>2. UNCHANGED <<vars, G!vars, W!vars, S!vars>>
    BY <2>1 DEF vars, gap_vars, weekly_vars, streak_vars, G!vars, W!vars, S!vars
  <2> QED BY <2>1, <2>2
<1> QED BY <1>1, <1>2

LEMMA InitReports ==
  ASSUME ReportsInit
  PROVE  ReportInv /\ ReportOrder
<1>1. (active = "weekly" /\ W!Init) \/ (active # "weekly" /\ weekly = <<>> /\ sent = <<>>)
  BY DEF ReportsInit, WeeklyIdle
<1>2. (active = "streak" /\ S!Init) \/ (active # "streak" /\ streak = None /\ offers = <<>>)
  BY DEF ReportsInit, StreakIdle
<1>3. (active = "summary" => Init) /\ (active = "gap" => G!Init)
  BY DEF ReportsInit
<1>4. (active = "summary" => Inv) /\ (active = "gap" => GapInv)
  BY <1>3, InitInv, InitGap
<1>5. active = "weekly" => WeeklyInv /\ WeeksInOrder
  BY <1>1, WeeklyAssumption, InitWeekly, InitWeeks
<1>6. active = "streak" => StreakTypeInv /\ StreakInv
  BY <1>2, StreakAssumption, InitStreakTypes, InitStreak
<1> QED BY <1>1, <1>2, <1>4, <1>5, <1>6 DEF ReportInv, ReportOrder

LEMMA NextReports ==
  ASSUME ReportInv, [ReportsNext]_ReportVars
  PROVE  ReportInv'
<1>1. UNCHANGED active
  BY ReportStep
<1>2. active = "summary" => Inv'
  BY ReportStep, NextInv DEF ReportInv
<1>3. active = "gap" => GapInv'
  BY ReportStep, GapReportAssumption, NextGap DEF ReportInv
<1>4. active = "weekly" => WeeklyInv'
  BY ReportStep, WeeklyAssumption, NextWeekly DEF ReportInv
<1>5. active = "streak" => StreakTypeInv'
  BY ReportStep, StreakAssumption, NextStreakTypes DEF ReportInv
<1>6. /\ active # "weekly" => weekly' = <<>> /\ sent' = <<>>
      /\ active # "streak" => streak' = None /\ offers' = <<>>
  BY ReportStep DEF ReportInv, weekly_vars, streak_vars
<1> QED BY <1>1, <1>2, <1>3, <1>4, <1>5, <1>6 DEF ReportInv

LEMMA NextOrder ==
  ASSUME OneAtATime, ReportInv, ReportOrder, [ReportsNext]_ReportVars
  PROVE  ReportOrder'
<1>1. UNCHANGED active
  BY ReportStep
<1>2. active = "weekly" => WeeksInOrder'
  BY ReportStep, WeeklyAssumption, NextWeeks DEF ReportInv, ReportOrder
<1>3. active = "streak" => StreakInv'
  BY ReportStep, StreakAssumption, NextStreak DEF ReportInv, ReportOrder
<1> QED BY <1>1, <1>2, <1>3 DEF ReportOrder

LEMMA ReportInvHolds == ReportsSpec => []ReportInv
<1>1. ReportsInit => ReportInv
  BY InitReports
<1>2. ReportInv /\ [ReportsNext]_ReportVars => ReportInv'
  BY NextReports
<1> QED BY <1>1, <1>2, PTL DEF ReportsSpec, ReportVars

LEMMA ReportOrderHolds ==
  ASSUME OneAtATime
  PROVE  ReportsSpec => []ReportOrder
<1>1. ReportsInit => ReportOrder
  BY InitReports
<1>2. ReportInv /\ ReportOrder /\ [ReportsNext]_ReportVars => ReportOrder'
  BY NextOrder
<1> QED BY <1>1, <1>2, ReportInvHolds, PTL DEF ReportsSpec, ReportVars

-----------------------------------------------------------------------------

\* The four documents keep their types for any number of requests, whatever a
\* source, a store or the sink answers; above all, a streak counts at least one
\* day and no more than its longest, an interaction marked as processed is one
\* of the ledger, and a weekly summary is stored under the week it is of.
THEOREM TypesCorrect == ReportsSpec => []TypesOK
<1>1. ReportInv => TypesOK
  BY InvTypes, GapTypes, WeeklyTypes DEF ReportInv, StreakTypeInv, TypesOK
<1> QED BY <1>1, ReportInvHolds, PTL

\* A weekly summary counts the interactions of its week and no other, however
\* late it is built, retried or read, by any number of requests at once, and
\* counts none when the read model failed (_questions, _attempt_send).
THEOREM WeeksCounted == ReportsSpec => []W!CountsItsWeek
<1>1. ReportInv => W!CountsItsWeek
  <2>1. ASSUME ReportInv, active = "weekly" PROVE W!CountsItsWeek
    BY <2>1, WeeksAreCounted DEF ReportInv
  <2>2. ASSUME ReportInv, active # "weekly" PROVE W!CountsItsWeek
    BY <2>2 DEF ReportInv, W!CountsItsWeek
  <2> QED BY <2>1, <2>2
<1> QED BY <1>1, ReportInvHolds, PTL

\* Nor is a week that was missed ever sent for later: one listed as skipped has
\* no summary, and what is sent never goes back to an older week, one request
\* at a time (_skipped_weeks, _retry_latest_if_due).
THEOREM SummariesAreOfTheirWeek ==
  ASSUME OneAtATime
  PROVE  ReportsSpec => []SummaryIsOfItsWeek
<1>1. ReportInv /\ ReportOrder => W!MissedWeeksStayMissed
  <2>1. ASSUME ReportOrder, active = "weekly" PROVE W!MissedWeeksStayMissed
    BY <2>1, WeeksStayMissed DEF ReportOrder
  <2>2. ASSUME ReportInv, active # "weekly" PROVE W!MissedWeeksStayMissed
    BY <2>2 DEF ReportInv, W!MissedWeeksStayMissed
  <2> QED BY <2>1, <2>2
<1> QED BY <1>1, WeeksCounted, ReportInvHolds, ReportOrderHolds, PTL DEF SummaryIsOfItsWeek

\* A streak never counts more days than the learner was active on since it
\* started, and no month has two freezes, however the requests that record,
\* show, accept and decline come, are retried or replayed, and whichever of
\* their writes is lost: for callers that record an interaction on its own
\* day, one request at a time (streak_rules.py, streak_service.py).
THEOREM StreaksAreEarned ==
  ASSUME OneAtATime, SameDayCalls
  PROVE  ReportsSpec => []StreakIsEarned
<1>1. ReportInv /\ ReportOrder => StreakIsEarned
  <2>1. ASSUME ReportInv, ReportOrder, active = "streak"
        PROVE  StreakIsEarned
    BY <2>1, StreakAssumption, StreakIsCounted DEF ReportInv, ReportOrder
  <2>2. ASSUME ReportInv, active # "streak"
        PROVE  StreakIsEarned
    BY <2>2 DEF ReportInv, StreakIsEarned, S!DaysEarned, S!OneFreezePerMonth
  <2> QED BY <2>1, <2>2
<1> QED BY <1>1, ReportInvHolds, ReportOrderHolds, PTL

\* Only inactivity resets a streak: whatever fails, a streak counts less or
\* starts later only by the write of a request whose interaction had no other
\* in its window, one request at a time (_next_record, _read_continuity).
THEOREM InactivityResets ==
  ASSUME OneAtATime
  PROVE  ReportsSpec => OnlyInactivityResets
<1>1. ReportInv /\ ReportOrder /\ [ReportsNext]_ReportVars
        => [(/\ streak # None
             /\ \/ streak'.current < streak.current
                \/ streak'.streak_started_at > streak.streak_started_at)
              => \E w \in Workers : /\ S!At(w, "save")
                                    /\ S!PriorInWindow(job[w].interaction, job[w].now) = {}]_S!vars
  <2> SUFFICES ASSUME ReportInv, ReportOrder, [ReportsNext]_ReportVars, ~ UNCHANGED S!vars,
                      streak # None,
                      \/ streak'.current < streak.current
                      \/ streak'.streak_started_at > streak.streak_started_at
               PROVE  \E w \in Workers : /\ S!At(w, "save")
                                         /\ S!PriorInWindow(job[w].interaction, job[w].now) = {}
    BY DEF S!vars
  <2>1. active = "streak"
    BY DEF ReportInv
  <2>2. S!Next
    BY <2>1, ReportStep
  <2> QED BY <2>1, <2>2, StreakAssumption, StreakStepsReset DEF ReportInv, ReportOrder
<1> QED BY <1>1, ReportInvHolds, ReportOrderHolds, PTL
        DEF ReportsSpec, ReportVars, OnlyInactivityResets, S!OnlyInactivityResets

=============================================================================
