------------------------------ MODULE Deployment ------------------------------
(***************************************************************************)
(* How the ten components come up (deploy/main.py, each create_app and     *)
(* composition root): behind the one application of the harness, or one    *)
(* component served alone.  Providers are chosen by settings which         *)
(* several components read from the one environment, under one name.       *)
(*                                                                         *)
(* What differs is when a component resolves them.  Most build a container *)
(* in create_app; UC-05 builds it in the lifespan of its application,      *)
(* which is not run for one that is mounted in another, or at a request;   *)
(* UC-02 builds its repository at a request, UC-01 its adapters at each.   *)
(* The builders run in threads and are cached by lru_cache, which holds no *)
(* lock while it calls.  A container stands for the stores in it.          *)
(***************************************************************************)
EXTENDS Naturals, Sequences

CONSTANTS Environments,   \* environments it may find, see Environment
          Callers,        \* requests, each of which stores something
          Never           \* nothing built, nothing answered

VARIABLES env,        \* what every component reads
          launched,   \* "harness", or the component served alone
          target,     \* the component the requests go to
          process,    \* "building", "serving" or "refused"
          app,        \* component -> "absent", "mounted" or "failed"
          cached,     \* component -> the container its requests find
          requests,   \* request -> where it is
          kept        \* the containers written to: <<container, request>>

deployment_vars == <<env, launched, target, process, app, cached, requests, kept>>

COMPONENTS == <<"uc01", "uc02", "uc03", "uc04", "uc05", "uc06", "uc07", "uc08", "uc09", "uc10">>
Component == {COMPONENTS[i] : i \in DOMAIN COMPONENTS}

(***************************************************************************)
(* The registries: the settings a component reads and the names it knows.  *)
(***************************************************************************)
UC01_Identity == [UC01_IDENTITY_PROVIDER |-> {"dev"}]

UC01_Adapters ==
  [UC01_NARIC_ADAPTER |-> {"mock"}, UC01_COURSES_ADAPTER |-> {"mock"},
   UC01_CASES_ADAPTER |-> {"mock"}, UC01_PROFILE_ADAPTER |-> {"mock"}]

UC02_ProviderChoice ==
  [NARIC_PROVIDER |-> {"mock", "company"}, COURSES_PROVIDER |-> {"mock", "company"},
   LEGAL_PROVIDER |-> {"mock", "company"}, HISTORY_PROVIDER |-> {"mock", "company"}]

UC03_Wiring == << >>   \* mocks, whatever the environment says

UC04_REGISTRIES ==
  [COURSES_PROVIDER |-> {"mock", "foreign_demo", "company_courses"},
   LEARNER_CONTEXT_PROVIDER |-> {"mock", "foreign_demo"},
   ANSWER_GENERATOR |-> {"fake", "configured"},
   QUIZ_CLASSIFIER |-> {"mock"}, CONCEPT_TAGGER |-> {"mock"},
   INTERACTION_LOG_REPOSITORY |-> {"memory"}, FRAMING_REGISTRY |-> {"memory"},
   CURRENT_USER_PROVIDER |-> {"header"}]

UC05_REGISTRIES ==
  [GENERATOR |-> {"fake", "configured", "acme"},
   LEARNER_CONTEXT_PROVIDER |-> {"mock", "acme"}, INTENT_CLASSIFIER |-> {"mock", "acme"},
   DIALOGUE_REPOSITORY |-> {"memory"}, SESSION_MODE_REPOSITORY |-> {"memory", "jsonfile"},
   INTERACTION_LOG_REPOSITORY |-> {"memory"}, CURRENT_USER_PROVIDER |-> {"header", "static"}]

UC06_PROVIDER_REGISTRY ==
  [CASE_FILE_PROVIDER |-> {"mock", "foreign", "newco"},
   LEARNER_CONTEXT_PROVIDER |-> {"mock", "foreign"},
   ANSWER_GENERATOR |-> {"fake", "configured", "foreign"}, GUARD_CLASSIFIER |-> {"mock"},
   INTERACTION_LOG_REPOSITORY |-> {"memory"}, SESSION_HALT_REPOSITORY |-> {"memory"},
   ADMIN_ALERT_SINK |-> {"memory"}, SECURITY_INCIDENT_SINK |-> {"memory"},
   CURRENT_USER_PROVIDER |-> {"header"}]

UC07_PROVIDERS ==
  [INTERACTION_LOG_PROVIDER |-> {"mock", "foreign"}, FEEDBACK_PROVIDER |-> {"mock", "foreign"},
   PROFILE_PROVIDER |-> {"mock", "foreign"}, COURSES_PROVIDER |-> {"mock", "foreign"},
   CURRENT_USER_PROVIDER |-> {"header", "static"}]

UC08_REGISTRIES ==
  [ACTIVITY_PROVIDER |-> {"mock", "foreign_lexicon"},
   GAP_REPORT_PROVIDER |-> {"mock", "foreign_lexicon"}]

UC09_REGISTRY ==
  [UC09_SESSION_PROVIDER |-> {"mock", "foreign", "larrycore"},
   UC09_INTERACTION_PROVIDER |-> {"mock", "foreign"},
   UC09_CITATION_PROVIDER |-> {"mock", "foreign"},
   UC09_GAP_REPORT_PROVIDER |-> {"mock", "foreign"},
   UC09_SUMMARY_GENERATOR |-> {"fake", "http"}, UC09_DOCUMENT_RENDERER |-> {"simple", "fake"},
   UC09_SUMMARY_REPOSITORY |-> {"memory"}, UC09_DOWNLOAD_LOG_REPOSITORY |-> {"memory"},
   UC09_CLOCK |-> {"system", "fixed"}, UC09_CURRENT_USER_PROVIDER |-> {"header"}]

UC10_INTERACTION_PROVIDERS == [INTERACTION_PROVIDER |-> {"mock", "foreign_demo"}]

\* What a component resolves to start, and what its requests resolve.
Registry ==
  [uc01 |-> UC01_Identity, uc02 |-> UC02_ProviderChoice, uc03 |-> UC03_Wiring,
   uc04 |-> UC04_REGISTRIES, uc05 |-> UC05_REGISTRIES, uc06 |-> UC06_PROVIDER_REGISTRY,
   uc07 |-> UC07_PROVIDERS, uc08 |-> UC08_REGISTRIES, uc09 |-> UC09_REGISTRY,
   uc10 |-> UC10_INTERACTION_PROVIDERS]

\* Never is the name of nothing.
DeploymentConstants ==
  /\ Never \notin Component
  /\ \A c \in Component : \A s \in DOMAIN Registry[c] : Never \notin Registry[c][s]

Setting == DOMAIN UC01_Adapters \cup UNION {DOMAIN Registry[c] : c \in Component}

\* The settings' defaults: the mocks and the in-memory stores.
Default ==
  [s \in Setting |->
    CASE s \in {"CURRENT_USER_PROVIDER", "UC09_CURRENT_USER_PROVIDER"} -> "header"
      [] s \in {"ANSWER_GENERATOR", "GENERATOR", "UC09_SUMMARY_GENERATOR"} -> "fake"
      [] s = "UC09_DOCUMENT_RENDERER" -> "simple"
      [] s = "UC09_CLOCK" -> "system"
      [] s = "UC01_IDENTITY_PROVIDER" -> "dev"
      [] s \in {"INTERACTION_LOG_REPOSITORY", "FRAMING_REGISTRY", "DIALOGUE_REPOSITORY",
                "SESSION_MODE_REPOSITORY", "SESSION_HALT_REPOSITORY", "ADMIN_ALERT_SINK",
                "SECURITY_INCIDENT_SINK", "UC09_SUMMARY_REPOSITORY",
                "UC09_DOWNLOAD_LOG_REPOSITORY"} -> "memory"
      [] OTHER -> "mock"]

\* endpoint: the generators' addresses and keys are set as well.
Environment(Names) == [names : [Setting -> Names], endpoint : BOOLEAN]

\* Adapters that refuse to be built.  UC-06's waits for a sign-off in the code.
Refuses(c, name) ==
  \/ c = "uc05" /\ name = "configured" /\ ~env.endpoint
  \/ c = "uc06" /\ name = "configured"
  \/ c = "uc09" /\ name = "http" /\ ~env.endpoint

\* Mutant: a name nobody registered means the mock.
resolve_or_default(table, s) == IF env.names[s] \in table[s] THEN env.names[s] ELSE Default[s]

\* One lookup, and no fallback.
resolve(table, s) == IF env.names[s] \in table[s] THEN env.names[s] ELSE Never

\* Every port is resolved when a container is built.
build_container(c) == [s \in DOMAIN Registry[c] |-> resolve(Registry[c], s)]

Builds(c) ==
  \A s \in DOMAIN Registry[c] :
     build_container(c)[s] # Never /\ ~Refuses(c, build_container(c)[s])

LazyComponents == {"uc02", "uc05"}

\* UC-02 checks the names when its settings are read; UC-05 reads strings.
Creates(c) == c = "uc05" \/ Builds(c)

(***************************************************************************)
(* create_app, component by component, then the process serves.            *)
(***************************************************************************)
DeploymentInit ==
  /\ env \in Environments /\ launched \in Component \cup {"harness"}
  /\ target \in Component /\ (launched # "harness" => target = launched)
  /\ process = "building"
  /\ app = [c \in Component |-> "absent"]
  /\ cached = [c \in Component |-> Never]
  /\ requests = [w \in Callers |-> [pc |-> "idle", container |-> Never, bound |-> Never]]
  /\ kept = {}

create_app(c) ==
  /\ app' = [app EXCEPT ![c] = IF Creates(c) THEN "mounted" ELSE "failed"]
  /\ cached' = IF Creates(c) /\ c \notin LazyComponents THEN [cached EXCEPT ![c] = c] ELSE cached

\* The harness: a component that does not construct is mounted as a stub.
Mount(i) ==
  /\ process = "building" /\ launched = "harness" /\ app[COMPONENTS[i]] = "absent"
  /\ \A j \in 1..(i - 1) : app[COMPONENTS[j]] # "absent"
  /\ create_app(COMPONENTS[i])
  /\ process' = IF i = Len(COMPONENTS) THEN "serving" ELSE process
  /\ UNCHANGED <<env, launched, target, requests, kept>>

Load ==
  /\ process = "building" /\ launched = target /\ app[target] = "absent"
  /\ create_app(target)
  /\ process' = IF Creates(target) THEN process ELSE "refused"
  /\ UNCHANGED <<env, launched, target, requests, kept>>

\* UC-05's builds the container; the others' change nothing.
Lifespan ==
  /\ process = "building" /\ launched = target /\ app[target] = "mounted"
  /\ IF target # "uc05" THEN process' = "serving" /\ UNCHANGED cached
     ELSE IF Builds(target)
          THEN process' = "serving" /\ cached' = [cached EXCEPT ![target] = target]
          ELSE process' = "refused" /\ UNCHANGED cached
  /\ UNCHANGED <<env, launched, target, app, requests, kept>>

(***************************************************************************)
(* A request takes the container there is, or builds one.                  *)
(***************************************************************************)
At(w, pc, container, bound) ==
  requests' = [requests EXCEPT ![w] = [pc |-> pc, container |-> container, bound |-> bound]]

Enter(w) ==
  /\ process = "serving" /\ requests[w].pc = "idle"
  /\ CASE app[target] = "failed"   -> At(w, "component_failed", Never, Never)
       [] cached[target] # Never   -> At(w, "serving", cached[target], build_container(target))
       [] OTHER                    -> At(w, "building", Never, Never)
  /\ UNCHANGED <<env, launched, target, process, app, cached, kept>>

\* lru_cache keeps what was built first; who built second uses its own.
Build(w) ==
  /\ requests[w].pc = "building"
  /\ IF Builds(target)
     THEN /\ At(w, "serving", w, build_container(target))
          /\ cached' = IF cached[target] = Never THEN [cached EXCEPT ![target] = w] ELSE cached
     ELSE At(w, "error", Never, Never) /\ UNCHANGED cached
  /\ UNCHANGED <<env, launched, target, process, app, kept>>

\* UC-01's service is built for the request, its adapters with it.
Serve(w) ==
  /\ requests[w].pc = "serving"
  /\ IF target = "uc01" /\ \E s \in DOMAIN UC01_Adapters : resolve(UC01_Adapters, s) = Never
     THEN At(w, "error", Never, Never) /\ UNCHANGED kept
     ELSE /\ At(w, "done", requests[w].container, requests[w].bound)
          /\ kept' = kept \cup {<<requests[w].container, w>>}
  /\ UNCHANGED <<env, launched, target, process, app, cached>>

DeploymentNext ==
  \/ \E i \in DOMAIN COMPONENTS : Mount(i)
  \/ Load \/ Lifespan
  \/ \E w \in Callers : Enter(w) \/ Build(w) \/ Serve(w)

-----------------------------------------------------------------------------
DeploymentTypeOK ==
  /\ launched \in Component \cup {"harness"} /\ target \in Component
  /\ process \in {"building", "serving", "refused"}
  /\ app \in [Component -> {"absent", "mounted", "failed"}]
  /\ cached \in [Component -> Component \cup Callers \cup {Never}]
  /\ \A w \in Callers :
       requests[w].pc \in {"idle", "building", "serving", "done", "error", "component_failed"}
  /\ kept \subseteq (Component \cup Callers) \X Callers

\* What a request was told is stored is where the next request looks for it:
\* all of them work on one container.
NothingForgotten == \A x \in kept : x[1] = cached[target]

\* It is so of a component whose container is built before it serves: one
\* that builds it in create_app, or in a lifespan that was run.
OneStoreOnceStarted ==
  target \notin LazyComponents \/ (target = "uc05" /\ launched = "uc05") => NothingForgotten

\* No component that serves has put another provider in the place of the one
\* that was named, and one that cannot be built brings no other down and
\* answers nothing.
NeverFallsBack ==
  /\ \A w \in Callers : requests[w].pc = "done" =>
       /\ requests[w].bound = [s \in DOMAIN Registry[target] |-> env.names[s]]
       /\ target = "uc01" => \A s \in DOMAIN UC01_Adapters : env.names[s] = "mock"
  /\ launched = "harness" /\ process = "serving" =>
       \A c \in Component :
         app[c] = "failed" <=>
           /\ c # "uc05"
           /\ \E s \in DOMAIN Registry[c] :
                env.names[s] \notin Registry[c][s] \/ Refuses(c, env.names[s])
=============================================================================
