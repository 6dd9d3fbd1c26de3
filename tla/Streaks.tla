-------------------------------- MODULE Streaks --------------------------------
(***************************************************************************)
(* UC-08: a learner's day streak, its freeze offers and the milestone      *)
(* badges (streak_service.py, streak_rules.py, streak_persistence.py,      *)
(* badge_service.py) over their four stores.  FastAPI runs each request in *)
(* a thread, so a step is a store or provider call, and any may fail.      *)
(*                                                                         *)
(* Time is a clock in ticks; a UTC day is TicksPerDay of them.  An         *)
(* interaction's id is its position in the upstream's activity ledger.     *)
(* freeze_available and updated_at follow from what a record keeps here.   *)
(***************************************************************************)
EXTENDS Naturals, Sequences, FiniteSets

CONSTANTS Workers,
          TicksPerDay, DaysPerMonth,
          WindowTicks,      \* streak_window_hours
          ExpiryTicks,      \* freeze_offer_expiry_hours
          FreezeMinDays,    \* freeze_min_streak_days
          Milestones,       \* badge_milestones
          SameDayCalls,     \* callers record an interaction on its own day
          MaxTime, MaxInteractions,   \* bounds
          None

VARIABLES now,        \* Clock
          happened,   \* when each interaction occurred: the upstream's ledger
          streak,     \* StreakRepository
          processed,  \* ProcessedInteractionStore
          offers,     \* FreezeOfferRepository, in the order of the first saves
          badges,     \* BadgeRepository: the milestones held
          pc, job     \* the next call of each worker, and its locals

stores == <<streak, processed, offers, badges>>
vars == <<now, happened, streak, processed, offers, badges, pc, job>>

FreezeOfferStatus == {"offered", "accepted", "declined", "expired"}

StreakRecord == [current : Nat, longest : Nat, last_activity_at : Nat,
                 streak_started_at : Nat, freeze_used_at : Nat \cup {None}]

FreezeOffer == [status : FreezeOfferStatus, offered_at : Nat, preserved : Nat \ {0},
                preserved_started_at : Nat, answered_at : Nat \cup {None}]

\* What the constants are; a module that instantiates this one assumes it.
StreakConstants ==
  /\ TicksPerDay \in Nat \ {0} /\ DaysPerMonth \in Nat \ {0}
  /\ WindowTicks \in Nat \ {0} /\ ExpiryTicks \in Nat \ {0} /\ FreezeMinDays \in Nat \ {0}
  /\ Milestones \subseteq Nat \ {0} /\ SameDayCalls \in BOOLEAN
  /\ MaxTime \in Nat /\ MaxInteractions \in Nat /\ None \notin Nat \cup StreakRecord

PC == {"idle", "processed", "continuity", "save", "mark", "offer", "badges", "open_offer",
       "accept", "restore", "answer", "decline"}

\* now, the interaction, the record read (existing), the record to write
\* (intended) and the offer to write with it.
Job == [now : Nat, interaction : Nat, existing : StreakRecord \cup {None},
        intended : StreakRecord \cup {None}, offer : FreezeOffer \cup {None}]

NoJob == [now |-> 0, interaction |-> 0, existing |-> None, intended |-> None, offer |-> None]

TypeOK ==
  /\ now \in Nat /\ happened \in Seq(Nat)
  /\ streak \in StreakRecord \cup {None}
  /\ streak # None => streak.current >= 1 /\ streak.longest >= streak.current
  /\ processed \subseteq DOMAIN happened
  /\ offers \in Seq(FreezeOffer)
  /\ badges \subseteq Milestones
  /\ pc \in [Workers -> PC] /\ job \in [Workers -> Job]

Init ==
  /\ now = 0 /\ happened = <<>>
  /\ streak = None /\ processed = {} /\ offers = <<>> /\ badges = {}
  /\ pc = [w \in Workers |-> "idle"] /\ job = [w \in Workers |-> NoJob]

At(w, label) == pc[w] = label

Step(w, label, locals) == /\ pc' = [pc EXCEPT ![w] = label]
                          /\ job' = [job EXCEPT ![w] = locals]

\* The locals a request still reads: the time it began at.
Clock(w) == [NoJob EXCEPT !.now = job[w].now]

\* The answer of a request, or the error that ends it.
End(w) == Step(w, "idle", NoJob)

-----------------------------------------------------------------------------
(* domain/time_utils.py and domain/streak_rules.py. *)

utc_day(t) == t \div TicksPerDay
same_utc_day(s, t) == utc_day(s) = utc_day(t)
same_utc_month(s, t) == utc_day(s) \div DaysPerMonth = utc_day(t) \div DaysPerMonth
Later(m, n) == IF m >= n THEN m ELSE n

\* The interactions since window_start_for(t), the one recorded excluded by id
\* and by time.
PriorInWindow(interaction, t) ==
  {k \in DOMAIN happened : k # interaction /\ happened[k] + WindowTicks >= t /\ happened[k] < t}

\* _prior_from_record: what stands in when the read model does not answer.
PriorFromRecord(record, t) == record # None /\ t <= record.last_activity_at + WindowTicks



freeze_available_at(t, used_at) == used_at # None => ~ same_utc_month(used_at, t)

eligible_for_freeze_offer(record, t) ==
  record.current >= FreezeMinDays /\ freeze_available_at(t, record.freeze_used_at)

apply_start(t) == [current |-> 1, longest |-> 1, last_activity_at |-> t,
                   streak_started_at |-> t, freeze_used_at |-> None]

_touch(record, t) == [record EXCEPT !.last_activity_at = t]

apply_increment(record, t) ==
  [record EXCEPT !.current = @ + 1, !.longest = Later(@, record.current + 1),
                 !.last_activity_at = t]

apply_reset(record, t) ==
  [record EXCEPT !.current = 1, !.longest = Later(@, record.current),
                 !.last_activity_at = t, !.streak_started_at = t]

apply_freeze_acceptance(record, offer, t) ==
  LET restored == offer.preserved + record.current
  IN [record EXCEPT !.current = restored, !.longest = Later(@, restored),
                    !.streak_started_at = offer.preserved_started_at, !.freeze_used_at = t]

decide(record, t, prior) ==
  CASE record = None -> "started"
    [] record # None /\ same_utc_day(record.last_activity_at, t) -> "unchanged_same_day"
    [] OTHER -> IF prior THEN "incremented" ELSE "reset"

\* _build_offer_if_eligible; building it may fail, which forgoes the offer.
NewOffer(record, t) ==
  [status |-> "offered", offered_at |-> t, preserved |-> record.current,
   preserved_started_at |-> record.streak_started_at, answered_at |-> None]

\* Mutant: an outage counts as inactivity.
NextOnOutage(record, t, prior, degraded) ==
  LET outcome == decide(record, t, prior)
  IN CASE outcome = "started" -> apply_start(t)
       [] outcome = "unchanged_same_day" -> _touch(record, t)
       [] outcome = "incremented" -> apply_increment(record, t)
       [] outcome = "reset" -> apply_reset(record, t)

\* _next_record: a reset concluded without the read model only touches.
_next_record(record, t, prior, degraded) ==
  LET outcome == decide(record, t, prior)
  IN CASE outcome = "started" -> apply_start(t)
       [] outcome = "unchanged_same_day" -> _touch(record, t)
       [] outcome = "incremented" -> apply_increment(record, t)
       [] outcome = "reset" -> IF degraded THEN _touch(record, t) ELSE apply_reset(record, t)

-----------------------------------------------------------------------------
(* The freeze offers: get_latest, save by offer_id, and _open_offer. *)

get_latest == IF offers = <<>> THEN None ELSE offers[Len(offers)]

is_open_at(offer, t) == offer.status = "offered" /\ t < offer.offered_at + ExpiryTicks

Upsert(offer) ==
  IF \E k \in DOMAIN offers : offers[k].offered_at = offer.offered_at
  THEN [k \in DOMAIN offers |-> IF offers[k].offered_at = offer.offered_at THEN offer ELSE offers[k]]
  ELSE Append(offers, offer)

\* _save_offer: a failure is logged and swallowed.
_save_offer(offer) == offers' = Upsert(offer) \/ UNCHANGED offers

\* _open_offer, found, or None: a failed read is None, and an offer past its
\* time is first marked so.
_open_offer(t, found) ==
  \/ /\ get_latest # None /\ is_open_at(get_latest, t)
     /\ found = get_latest
     /\ UNCHANGED offers
  \/ /\ get_latest # None /\ get_latest.status = "offered" /\ ~ is_open_at(get_latest, t)
     /\ found = None
     /\ _save_offer([get_latest EXCEPT !.status = "expired"])
  \/ found = None /\ UNCHANGED offers

-----------------------------------------------------------------------------
(* The upstream, and time. *)

Tick == /\ now < MaxTime /\ now' = now + 1
        /\ UNCHANGED <<happened, streak, processed, offers, badges, pc, job>>

\* A coaching interaction happens; the ledger shows it from then on.
Interact == /\ Len(happened) < MaxInteractions
            /\ happened' = Append(happened, now)
            /\ UNCHANGED <<now, streak, processed, offers, badges, pc, job>>

-----------------------------------------------------------------------------
(* record_activity, first call, retry or replay. *)

BeginRecord(w) ==
  /\ At(w, "idle")
  /\ \E i \in DOMAIN happened :
       /\ SameDayCalls => same_utc_day(happened[i], now)
       /\ Step(w, "processed", [NoJob EXCEPT !.now = now, !.interaction = i, !.existing = streak])
  /\ UNCHANGED <<now, happened, stores>>

CheckProcessed(w) ==
  /\ At(w, "processed")
  /\ \/ job[w].interaction \in processed /\ Step(w, "open_offer", Clock(w))
     \/ job[w].interaction \notin processed /\ Step(w, "continuity", job[w])
     \/ End(w)
  /\ UNCHANGED <<now, happened, stores>>

\* _read_continuity, answered or not, and the record that follows from it.
ReadContinuity(w) ==
  /\ At(w, "continuity")
  /\ LET j == job[w]
     IN \E degraded \in BOOLEAN :
        LET prior == IF degraded THEN PriorFromRecord(j.existing, j.now)
                     ELSE PriorInWindow(j.interaction, j.now) # {}
            resets == decide(j.existing, j.now, prior) = "reset" /\ ~ degraded
            next == [j EXCEPT !.existing = None,
                              !.intended = _next_record(j.existing, j.now, prior, degraded)]
        IN \/ Step(w, "save", next)
           \/ /\ resets /\ eligible_for_freeze_offer(j.existing, j.now)
              /\ Step(w, "save", [next EXCEPT !.offer = NewOffer(j.existing, j.now)])
  /\ UNCHANGED <<now, happened, stores>>

\* StreakWriter.persist: one of two attempts writes the record, or neither
\* does and nothing that depends on it follows.
SaveStreak(w) ==
  /\ At(w, "save")
  /\ \/ streak' = job[w].intended /\ Step(w, "mark", [job[w] EXCEPT !.intended = None])
     \/ UNCHANGED streak /\ Step(w, "badges", Clock(w))
  /\ UNCHANGED <<now, happened, processed, offers, badges>>

\* _mark_processed swallows a failure.
MarkProcessed(w) ==
  /\ At(w, "mark")
  /\ \/ processed' = processed \cup {job[w].interaction}
     \/ UNCHANGED processed
  /\ Step(w, IF job[w].offer # None THEN "offer" ELSE "badges", [job[w] EXCEPT !.interaction = 0])
  /\ UNCHANGED <<now, happened, streak, offers, badges>>

SaveNewOffer(w) ==
  /\ At(w, "offer")
  /\ _save_offer(job[w].offer)
  /\ Step(w, "badges", job[w])
  /\ UNCHANGED <<now, happened, streak, processed, badges>>

\* BadgeService.evaluate: each milestone crossed and not yet held is awarded,
\* or its write fails.  The count may be unavailable, too.
EvaluateBadges(w) ==
  /\ At(w, "badges")
  /\ \E awarded \in SUBSET {m \in Milestones \ badges : Len(happened) >= m} :
       badges' = badges \cup awarded
  /\ IF job[w].offer # None THEN End(w) ELSE Step(w, "open_offer", Clock(w))
  /\ UNCHANGED <<now, happened, streak, processed, offers>>

\* What the answer shows of the offers, and get_state.
ReadOpenOffer(w) ==
  /\ At(w, "open_offer")
  /\ \E found \in {get_latest, None} : _open_offer(job[w].now, found)
  /\ End(w)
  /\ UNCHANGED <<now, happened, streak, processed, badges>>

GetState(w) ==
  /\ At(w, "idle")
  /\ Step(w, "open_offer", [NoJob EXCEPT !.now = now])
  /\ UNCHANGED <<now, happened, stores>>

-----------------------------------------------------------------------------
(* accept_freeze, and decline_freeze, which has no route yet. *)

BeginAnswer(w) ==
  /\ At(w, "idle")
  /\ \E found \in {get_latest, None} :
       /\ _open_offer(now, found)
       /\ \/ found = None /\ End(w)
          \/ \E answer \in {"accept", "decline"} :
               found # None /\ Step(w, answer, [NoJob EXCEPT !.now = now, !.offer = found])
  /\ UNCHANGED <<now, happened, streak, processed, badges>>

\* Mutant: the offer need not be of the current streak.
ReadAnyStreak(w) ==
  /\ At(w, "accept")
  /\ LET j == job[w]
     IN \/ /\ streak # None
           /\ freeze_available_at(j.now, streak.freeze_used_at)
           /\ Step(w, "restore",
                   [j EXCEPT !.intended = apply_freeze_acceptance(streak, j.offer, j.now)])
        \/ End(w)
  /\ UNCHANGED <<now, happened, stores>>

\* Refused without a record, with the month's freeze used, or when the streak
\* is no longer the one the offer was made with.
ReadStreakToRestore(w) ==
  /\ At(w, "accept")
  /\ LET j == job[w]
     IN \/ /\ streak # None
           /\ freeze_available_at(j.now, streak.freeze_used_at)
           /\ streak.streak_started_at = j.offer.offered_at
           /\ Step(w, "restore",
                   [j EXCEPT !.intended = apply_freeze_acceptance(streak, j.offer, j.now)])
        \/ End(w)
  /\ UNCHANGED <<now, happened, stores>>

RestoreStreak(w) ==
  /\ At(w, "restore")
  /\ \/ streak' = job[w].intended /\ Step(w, "answer", [job[w] EXCEPT !.intended = None])
     \/ UNCHANGED streak /\ End(w)
  /\ UNCHANGED <<now, happened, processed, offers, badges>>

AnswerOffer(w) ==
  /\ pc[w] \in {"answer", "decline"}
  /\ _save_offer([job[w].offer EXCEPT
       !.status = IF At(w, "answer") THEN "accepted" ELSE "declined", !.answered_at = job[w].now])
  /\ End(w)
  /\ UNCHANGED <<now, happened, streak, processed, badges>>

-----------------------------------------------------------------------------

RecordActivity(w) ==
  \/ BeginRecord(w) \/ CheckProcessed(w) \/ ReadContinuity(w) \/ SaveStreak(w)
  \/ MarkProcessed(w) \/ SaveNewOffer(w) \/ EvaluateBadges(w) \/ ReadOpenOffer(w)

Freeze(w) == \/ BeginAnswer(w) \/ ReadStreakToRestore(w) \/ RestoreStreak(w) \/ AnswerOffer(w)

Next == \/ Tick \/ Interact
        \/ \E w \in Workers : RecordActivity(w) \/ GetState(w) \/ Freeze(w)

Spec == Init /\ [][Next]_vars

-----------------------------------------------------------------------------

\* A streak is earned: it never counts more days than the learner was active
\* on since it started, whatever is retried, replayed, restored by a freeze or
\* lost (decide, _mark_processed, apply_freeze_acceptance).
DaysEarned ==
  streak # None =>
    LET since == {k \in DOMAIN happened : utc_day(happened[k]) >= utc_day(streak.streak_started_at)}
    IN streak.current <= Cardinality({utc_day(happened[k]) : k \in since})

\* One freeze per calendar month, though a reset, a month's end or a lost
\* write may come between the offer and its acceptance (accept_freeze).
OneFreezePerMonth ==
  \A k, l \in DOMAIN offers :
    (k # l /\ offers[k].status = "accepted" /\ offers[l].status = "accepted")
      => ~ same_utc_month(offers[k].answered_at, offers[l].answered_at)

\* "Never reset" on a failure: a streak starts anew only when the learner had
\* no other interaction in the window of the one recorded (_next_record,
\* _read_continuity, StreakWriter.persist).
OnlyInactivityResets ==
  [][(/\ streak # None
      /\ \/ streak'.current < streak.current
         \/ streak'.streak_started_at > streak.streak_started_at)
       => \E w \in Workers : /\ At(w, "save")
                             /\ PriorInWindow(job[w].interaction, job[w].now) = {}]_vars

=============================================================================
