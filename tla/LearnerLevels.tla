---------------------------- MODULE LearnerLevels ----------------------------
(***************************************************************************)
(* The qualification level a learner is taught at, as the adapters of the  *)
(* components read it from their upstreams and as the services use it.     *)
(*                                                                         *)
(* One learner is on record upstream: with a level, which somebody looked  *)
(* up or which is the upstream's own fallback, spelled in some way; with   *)
(* nothing; or with a value that is no level.  The upstream fails and      *)
(* recovers at any time.  Each component reads once, through the adapter   *)
(* registered for it, and its service resolves what the adapter returned   *)
(* or raised into the level it uses.  The levels of UC-01 and UC-02 are in *)
(* SessionOpening and ContextAssembly.                                     *)
(***************************************************************************)
EXTENDS Naturals, FiniteSets

CONSTANTS MaxReads   \* a bound on the components that read in one behaviour

VARIABLES
  record,    \* what the upstream holds of the learner
  service,   \* how the upstream answers
  readings   \* what each component that has read uses

level_vars == <<record, service, readings>>

NaricLevel == {"LEVEL_3", "LEVEL_4", "LEVEL_5", "LEVEL_6", "LEVEL_7", "LEVEL_7_PLUS"}

\* "own" is the word of the upstream an adapter was written for ("RQF6",
\* "band-six"); the others are a platform name, exact, in other cases or with
\* blanks, and a bare digit, number or phrase ("level seven").
Spelling == {"own", "value", "padded", "digit", "number", "prose"}

\* There is no number for level 7 plus.
Record ==
  {r \in [holds : NaricLevel \cup {"nothing", "other"},
          origin : {"lookup", "fallback", "unsaid"}, spelled : Spelling] :
     /\ r.holds \notin NaricLevel => r.spelled = "own"
     /\ r.spelled = "number" => r.holds # "LEVEL_7_PLUS"}

\* "unnamed_error": an error the upstream signals in its own words, of a kind
\* its adapter has no entry for; "garbled": another shape where the adapter
\* looks for one; "odd": one where it does not; "gone": nothing under the name
\* that is asked for, of which a level has no account of its own.
ServiceState == {"answers", "refuses", "late", "garbled", "odd", "unnamed_error", "gone"}

Adapter == {"uc03", "uc04_foreign_demo", "uc05_acme", "uc05_fake", "uc06_foreign",
            "uc07_foreign", "uc08_foreign", "uc09_foreign", "uc09_larrycore", "uc10_foreign"}

-----------------------------------------------------------------------------
(* Which depth a level is explained at, by component *)

Bands(basic, intermediate) ==
  [l \in NaricLevel |-> IF l \in basic THEN "basic"
                        ELSE IF l \in intermediate THEN "intermediate" ELSE "advanced"]

UC03_NARIC_TO_DEPTH == Bands({"LEVEL_3", "LEVEL_4"}, {"LEVEL_5", "LEVEL_6"})
UC04_NARIC_LEVEL_PROFILE == Bands({"LEVEL_3", "LEVEL_4"}, {"LEVEL_5", "LEVEL_6"})
UC05_EXPLANATION_PROFILE_BY_LEVEL == Bands({"LEVEL_3", "LEVEL_4"}, {"LEVEL_5", "LEVEL_6"})
UC06_PROFILE_BY_LEVEL == Bands({"LEVEL_3", "LEVEL_4"}, {"LEVEL_5", "LEVEL_6"})
UC08_EXPLANATION_PROFILE_BY_LEVEL == Bands({"LEVEL_3", "LEVEL_4"}, {"LEVEL_5", "LEVEL_6"})
UC09_PROFILE_BY_LEVEL == Bands({"LEVEL_3", "LEVEL_4"}, {"LEVEL_5", "LEVEL_6"})
UC10_PROFILE_BY_LEVEL == Bands({"LEVEL_3", "LEVEL_4"}, {"LEVEL_5", "LEVEL_6"})

\* UC-07 reports the level and explains nothing by it.
Depth(a, l) ==
  CASE a = "uc03" -> UC03_NARIC_TO_DEPTH[l]
    [] a = "uc04_foreign_demo" -> UC04_NARIC_LEVEL_PROFILE[l]
    [] a \in {"uc05_acme", "uc05_fake"} -> UC05_EXPLANATION_PROFILE_BY_LEVEL[l]
    [] a = "uc06_foreign" -> UC06_PROFILE_BY_LEVEL[l]
    [] a = "uc08_foreign" -> UC08_EXPLANATION_PROFILE_BY_LEVEL[l]
    [] a \in {"uc09_foreign", "uc09_larrycore"} -> UC09_PROFILE_BY_LEVEL[l]
    [] a = "uc10_foreign" -> UC10_PROFILE_BY_LEVEL[l]

-----------------------------------------------------------------------------
(* What an adapter returns or raises *)

Reading(level, source, status) == [level |-> level, source |-> source, status |-> status]
Raised(error) == [raises |-> error]

DEFAULT_NARIC_LEVEL(a) == IF a = "uc03" THEN "LEVEL_3" ELSE "LEVEL_5"
Defaulted(a, status) == Reading(DEFAULT_NARIC_LEVEL(a), "default", status)

\* The spellings from which each one makes a level.
UC03_normalise_level == {"value"}
UC04_BAND_TO_LEVEL == {"own"}
ACME_TIER_TO_NARIC == {"own"}
UC05_coerce_naric_level == {"value"}
UC06_BAND_TO_LEVEL == {"own"}
UC07_EQF_TO_NARIC == {"own"}
UC08_normalise_naric_level == {"own", "value", "padded", "digit", "number", "prose"}
UC09_resolve_naric_level == {"value", "padded"}
UC10_normalise_naric_level == {"value", "padded"}

Recognised(a) ==
  CASE a = "uc03" -> UC03_normalise_level
    [] a = "uc04_foreign_demo" -> UC04_BAND_TO_LEVEL
    [] a = "uc05_acme" -> ACME_TIER_TO_NARIC
    [] a = "uc05_fake" -> UC05_coerce_naric_level
    [] a = "uc06_foreign" -> UC06_BAND_TO_LEVEL
    [] a = "uc07_foreign" -> UC07_EQF_TO_NARIC
    [] a = "uc08_foreign" -> UC08_normalise_naric_level
    [] a \in {"uc09_foreign", "uc09_larrycore"} -> {"own"} \cup UC09_resolve_naric_level
    [] a = "uc10_foreign" -> {"own", "digit", "number"} \cup UC10_normalise_naric_level

Level(a) ==
  IF record.holds \in NaricLevel /\ record.spelled \notin Recognised(a) THEN "other"
  ELSE record.holds

\* Mutant: Acme's fallback passes for a level that was looked up.
AcmeContextUntold ==
  IF service = "unnamed_error" \/ Level("uc05_acme") = "nothing" THEN Defaulted("uc05_acme", "empty")
  ELSE IF Level("uc05_acme") = "other" THEN Defaulted("uc05_acme", "invalid")
  ELSE Reading(record.holds, "retrieved", "available")

AcmeContext ==
  IF service = "unnamed_error" \/ Level("uc05_acme") = "nothing" THEN Defaulted("uc05_acme", "empty")
  ELSE IF Level("uc05_acme") = "other" THEN Defaulted("uc05_acme", "invalid")
  ELSE IF record.origin = "lookup" THEN Reading(record.holds, "retrieved", "available")
  ELSE Reading(record.holds, "default", "partial")

\* The provider of UC-03 says itself where the level comes from.
ProvidedContext ==
  IF Level("uc03") = "nothing" THEN Defaulted("uc03", "empty")
  ELSE IF Level("uc03") = "other" THEN Defaulted("uc03", "invalid")
  ELSE Reading(record.holds, IF record.origin = "fallback" THEN "default" ELSE "retrieved", "available")

FakeContext ==
  IF Level("uc05_fake") = "nothing" THEN Defaulted("uc05_fake", "empty")
  ELSE IF Level("uc05_fake") = "other" THEN Defaulted("uc05_fake", "invalid")
  ELSE IF record.origin = "fallback" THEN Reading(record.holds, "default", "partial")
  ELSE Reading(record.holds, "retrieved", "available")

CaseLearnerContext ==
  IF Level("uc06_foreign") \notin NaricLevel THEN Raised("invalid")
  ELSE Reading(record.holds, IF record.origin = "fallback" THEN "default" ELSE "retrieved", "available")

\* A profile may lack the level, and then has no source for it.
NexusProfile ==
  IF Level("uc07_foreign") = "other" THEN Raised("invalid")
  ELSE IF Level("uc07_foreign") = "nothing" THEN Reading("nothing", "unsaid", "available")
  ELSE Reading(record.holds,
               [lookup |-> "retrieved", fallback |-> "default", unsaid |-> "unsaid"][record.origin],
               "available")

\* What the shared domain functions make of it; where it comes from is for
\* the adapter of UC-10 to say, and those of UC-04, UC-08 and UC-09 do not.
Normalised(a) ==
  IF Level(a) = "nothing" THEN Defaulted(a, "empty")
  ELSE IF Level(a) = "other" THEN Defaulted(a, "invalid")
  ELSE Reading(record.holds, "retrieved", "available")

InteractionLevel ==
  IF record.origin = "lookup" THEN Normalised("uc10_foreign")
  ELSE [Normalised("uc10_foreign") EXCEPT !.source = "default"]

Read(a) ==
  CASE a = "uc03" -> ProvidedContext
    [] a = "uc05_acme" -> AcmeContext
    [] a = "uc05_fake" -> FakeContext
    [] a = "uc06_foreign" -> CaseLearnerContext
    [] a = "uc07_foreign" -> NexusProfile
    [] a = "uc10_foreign" -> InteractionLevel
    [] OTHER -> Normalised(a)

\* The failures an adapter is written for, and what it makes of the others.
AcmeFailures ==
  [refuses |-> "unavailable", late |-> "timeout", garbled |-> "invalid", odd |-> "untyped"]
FakeFailures == [refuses |-> "unavailable", late |-> "timeout", garbled |-> "invalid"]
MattersphereFailures ==
  [refuses |-> "unavailable", unnamed_error |-> "unavailable", late |-> "timeout",
   garbled |-> "invalid", odd |-> "untyped"]
NexusFailures ==
  [refuses |-> "unavailable", late |-> "timeout", garbled |-> "invalid", odd |-> "untyped"]
LexiconFailures == [refuses |-> "unavailable", late |-> "timeout", garbled |-> "invalid"]
LexPortalFailures ==
  [refuses |-> "unavailable", unnamed_error |-> "unavailable", late |-> "timeout",
   garbled |-> "invalid", odd |-> "invalid"]
LarryCoreFailures == LexPortalFailures
InteractionFailures ==
  [refuses |-> "unavailable", late |-> "timeout", garbled |-> "invalid",
   unnamed_error |-> "invalid", odd |-> "untyped"]
ContextProviderFailures == [refuses |-> "unavailable", late |-> "timeout", odd |-> "untyped"]
StaffFailures == [refuses |-> "unavailable"]

Failures(a) ==
  CASE a = "uc03" -> ContextProviderFailures
    [] a = "uc04_foreign_demo" -> StaffFailures
    [] a = "uc05_acme" -> AcmeFailures
    [] a = "uc05_fake" -> FakeFailures
    [] a = "uc06_foreign" -> MattersphereFailures
    [] a = "uc07_foreign" -> NexusFailures
    [] a = "uc08_foreign" -> LexiconFailures
    [] a = "uc09_foreign" -> LexPortalFailures
    [] a = "uc09_larrycore" -> LarryCoreFailures
    [] a = "uc10_foreign" -> InteractionFailures

\* What a fault can be, with this upstream.
Meets(a) ==
  \/ service = "answers"
  \/ service \in DOMAIN Failures(a)
  \/ a = "uc05_acme" /\ service = "unnamed_error"

get_context(a) ==
  IF service \in DOMAIN Failures(a) THEN Raised(Failures(a)[service]) ELSE Read(a)

-----------------------------------------------------------------------------
(* What the service makes of it *)

Unread(error) == IF error = "invalid" THEN "invalid" ELSE "unavailable"

\* UC-03 takes every exception, the coaches only those of the port; the others
\* read their levels with the record they belong to, and fail with it.
UC03_load_context(r) ==
  IF "raises" \in DOMAIN r THEN Defaulted("uc03", "unavailable") ELSE r

resolve_context(a, r) ==
  IF "raises" \notin DOMAIN r \/ r.raises = "untyped" THEN r ELSE Defaulted(a, Unread(r.raises))

UC04_load_context(r) == resolve_context("uc04_foreign_demo", r)

UC06_resolve_context(r) == resolve_context("uc06_foreign", r)

Used(a, r) ==
  CASE a = "uc03" -> UC03_load_context(r)
    [] a = "uc04_foreign_demo" -> UC04_load_context(r)
    [] a \in {"uc05_acme", "uc05_fake"} -> resolve_context(a, r)
    [] a = "uc06_foreign" -> UC06_resolve_context(r)
    [] OTHER -> r

-----------------------------------------------------------------------------
LevelsInit ==
  /\ record \in Record
  /\ service = "answers"
  /\ readings = <<>>

UseLevel(a) ==
  /\ a \notin DOMAIN readings
  /\ Cardinality(DOMAIN readings) < MaxReads
  /\ Meets(a)
  /\ readings' = [x \in DOMAIN readings \cup {a} |->
                    IF x = a THEN [uses |-> Used(a, get_context(a)), met |-> service]
                    ELSE readings[x]]
  /\ UNCHANGED <<record, service>>

Fails ==
  /\ service = "answers"
  /\ service' \in ServiceState \ {"answers"}
  /\ UNCHANGED <<record, readings>>

Recovers ==
  /\ service # "answers"
  /\ service' = "answers"
  /\ UNCHANGED <<record, readings>>

LevelsNext ==
  \/ \E a \in Adapter : UseLevel(a)
  \/ Cardinality(DOMAIN readings) < MaxReads /\ (Fails \/ Recovers)

LevelsTypeOK ==
  /\ record \in Record /\ service \in ServiceState
  /\ DOMAIN readings \subseteq Adapter
  /\ \A a \in DOMAIN readings :
       \/ "raises" \in DOMAIN readings[a].uses
       \/ /\ readings[a].uses.level \in NaricLevel \cup {"nothing"}
          /\ readings[a].uses.source \in {"retrieved", "default", "unsaid"}
          /\ readings[a].uses.status \in {"available", "partial", "empty", "invalid", "unavailable"}

-----------------------------------------------------------------------------
(* Properties *)

Uses(a) == readings[a].uses
HasLevel == {a \in DOMAIN readings : "level" \in DOMAIN Uses(a) /\ Uses(a).level \in NaricLevel}

\* The adapters that are told whether somebody looked the level up.
Told == {"uc03", "uc05_acme", "uc05_fake", "uc06_foreign", "uc07_foreign", "uc10_foreign"}

\* A level that passes for retrieved is the learner's own, and where the
\* upstream says so it is not the upstream's fallback; what is not the
\* learner's own is the documented default and passes for nothing else.
LevelsAreHonest ==
  \A a \in HasLevel :
    /\ Uses(a).source = "retrieved" =>
         Uses(a).level = record.holds /\ (a \in Told => record.origin # "fallback")
    /\ Uses(a).level # record.holds =>
         Uses(a).source = "default" /\ Uses(a).level = DEFAULT_NARIC_LEVEL(a)

\* Two components that each have the learner's own level explain at the same
\* depth (docs/INTEGRATION_BRIEF.md: identical across all ten).
OneDepthEverywhere ==
  \A a, b \in HasLevel \ {"uc07_foreign"} :
    Uses(a).source = "retrieved" /\ Uses(b).source = "retrieved" =>
      Depth(a, Uses(a).level) = Depth(b, Uses(b).level)

\* An upstream that is down or talks nonsense is never taken for one that has
\* nothing on the learner, nor the other way round.  One adapter of UC-05
\* takes an error it has no entry for as an empty record, and the one of UC-06
\* a learner without a level as nonsense.
OutageIsNotAbsence ==
  \A a \in HasLevel :
    /\ Uses(a).status = "empty" =>
         \/ record.holds = "nothing" /\ readings[a].met = "answers"
         \/ a = "uc05_acme" /\ readings[a].met = "unnamed_error"
    /\ Uses(a).status = "unavailable" => readings[a].met # "answers"
    /\ Uses(a).status = "invalid" =>
         \/ record.holds # "nothing" \/ readings[a].met # "answers" \/ a = "uc06_foreign"

\* A coach is never left without a level by a failure its port names.
NeverWithoutALevel ==
  \A a \in DOMAIN readings :
    a \in {"uc03", "uc04_foreign_demo", "uc05_acme", "uc05_fake", "uc06_foreign"} =>
      a \in HasLevel \/ readings[a].met = "odd"

=============================================================================
