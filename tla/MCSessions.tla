------------------------------ MODULE MCSessions ------------------------------
(***************************************************************************)
(* What happens before the first answer, on small instances: the platform  *)
(* comes up (Deployment), a session is opened (UC-01), its learning        *)
(* context assembled (UC-02), its Socratic mode set (UC-05, with the       *)
(* in-memory stores of the shipped composition and two learners), and the  *)
(* stores that outlive the process are written (DurableStores).  None of   *)
(* these asks anything of another, so one behaviour is of one of them.     *)
(* The context is checked with one request and sources that do as they     *)
(* like, and with every request while the sources not in Few hang.         *)
(***************************************************************************)
EXTENDS ContextAssembly

CONSTANTS Actives,
          Attempts, Commands,
          Few,
          Environments, Callers, Never,
          Dialogues, Replies,
          Savers, Rows, MaxSaves, Half, NoRow

VARIABLES active,
          records, events, told, refused, job, step,                      \* the opening's
          env, launched, target, process, app, cached, requests, kept,    \* the platform's
          dialogues, mode, log, s_pc, s_req,                              \* the mode's
          table, disk, saves, saver, saving, on_disk                      \* the stores'

opening_vars == <<records, events, told, refused, job, step>>
platform_vars == <<env, launched, target, process, app, cached, requests, kept>>
dialogue_vars == <<dialogues, mode, log, s_pc, s_req>>
store_vars == <<table, disk, saves, saver, saving, on_disk>>

O == INSTANCE SessionOpening
D == INSTANCE Deployment
K == INSTANCE DurableStores WITH kept <- on_disk
S == INSTANCE SocraticService WITH
       None <- Absent, ExchangeCap <- 2, LoopTenths <- 8,
       LearnerQuestions <- {{1, 8}}, Questions <- {{1, 2, 3, 4}, {5, 6, 7}},
       Users <- Learners, DialogueIds <- Dialogues, Workers <- Replies,
       Intents <- {"substantive_response", "direct_answer_request", "off_topic"},
       MaxTurns <- 3, StoreYields <- FALSE, StoreMayFail <- FALSE,
       pc <- s_pc, req <- s_req

ASSUME OpeningAssumption == O!OpeningConstants
ASSUME ContextAssumption == ContextConstants
ASSUME DurableAssumption == K!DurableConstants
ASSUME DeploymentAssumption == D!DeploymentConstants
ASSUME ModeAssumption == Absent \notin S!ModeState

\* The types alone, to choose the commands from.
C == INSTANCE SessionOpening WITH Commands <- {}

MCCommands ==
  {c \in C!Command : c.gives \in {{}, {"course_id"}, {"course_id", "lesson_id"}, {"case_id"},
                                  {"lesson_id", "case_id"}}}

\* The registries alone, to choose the environments from.
T == INSTANCE Deployment WITH Environments <- {}

\* The default environment, with one setting changed at most.
Names(s) ==
  {"unregistered"} \cup
  (UNION {T!Registry[c][s] : c \in {d \in T!Component : s \in DOMAIN T!Registry[d]}})

MCFewEnvironments ==
  UNION {{[names |-> [T!Default EXCEPT ![x[1]] = x[2]], endpoint |-> e] :
            e \in {FALSE, x[2] \in {"configured", "http"}}} :
           x \in UNION {{s} \X Names(s) : s \in T!Setting}}

MCDefaultEnvironment == {[names |-> T!Default, endpoint |-> FALSE]}

SessionsInit ==
  /\ active \in Actives /\ O!OpeningInit
  /\ ContextInit
  /\ IF active = "platform" THEN D!DeploymentInit
     ELSE /\ env = Never /\ launched = Never /\ target = Never /\ process = Never
          /\ app = Never /\ cached = Never /\ requests = Never /\ kept = {}
  /\ S!Init
  /\ IF active = "stores" THEN K!DurableInit
     ELSE /\ table = Never /\ disk = Never /\ saves = 0
          /\ saver = Never /\ saving = Never /\ on_disk = {}

First == CHOOSE r \in Requests : TRUE

\* One request.
Alone == ContextNext /\ \A r \in Requests \ {First} : phase'[r] = "idle"

\* The sources not in Few are waited for until the budget is over.
Together ==
  /\ ContextNext
  /\ \A r \in Requests, n \in SourceName \ Few :
       calls'[r].results[n] \in {Pending, Failed("budget_exceeded")}

SessionsNext ==
  \/ /\ active = "opening" /\ O!OpeningNext
     /\ UNCHANGED <<active, context_vars, platform_vars, dialogue_vars, store_vars>>
  \/ /\ \/ active = "alone" /\ Alone
        \/ active = "together" /\ Together
     /\ UNCHANGED <<active, opening_vars, platform_vars, dialogue_vars, store_vars>>
  \/ /\ active = "platform" /\ D!DeploymentNext
     /\ UNCHANGED <<active, opening_vars, context_vars, dialogue_vars, store_vars>>
  \/ /\ active = "mode" /\ S!Next
     /\ UNCHANGED <<active, opening_vars, context_vars, platform_vars, store_vars>>
  \/ /\ active = "stores" /\ K!DurableNext
     /\ UNCHANGED <<active, opening_vars, context_vars, platform_vars, dialogue_vars>>

vars == <<active, opening_vars, context_vars, platform_vars, dialogue_vars, store_vars>>

\* The event loop runs what is ready, and the timer of the budget goes off;
\* nothing is asked of the sources.  asyncio.wait_for bounds a dialogue's provider
\* calls, its repositories return, and the event loop's ready queue is first in,
\* first out, so a request that can go on again and again does: strong fairness.
Fairness ==
  /\ \A r \in Requests :
       WF_vars(active \in {"alone", "together"} /\ (BudgetElapses(r) \/ BuildAndSave(r))
               /\ UNCHANGED <<active, opening_vars, platform_vars, dialogue_vars, store_vars>>)
  /\ \A w \in Replies :
       SF_vars(active = "mode" /\ S!Continue(w)
               /\ UNCHANGED <<active, opening_vars, context_vars, platform_vars, store_vars>>)

SessionsSpec == SessionsInit /\ [][SessionsNext]_vars /\ Fairness

\* Each one's own types.
SessionTypesOK ==
  /\ O!OpeningTypeOK
  /\ ContextTypeOK
  /\ active = "platform" => D!DeploymentTypeOK
  /\ active = "stores" => K!DurableTypeOK

\* SessionOpening's and DurableStores': what a client was told is what is
\* stored, and what was stored is not lost with the process.
AnswerIsOnRecord ==
  /\ O!OpenedIsRecorded /\ O!FailureIsRecorded
  /\ active = "stores" => K!SavedStaysSaved

\* Deployment's: no provider takes the place of the one that was named, and a
\* component has one set of stores from its start on.
ComesUpAsNamed == active = "platform" => D!NeverFallsBack /\ D!OneStoreOnceStarted

\* Deployment's, of uc05/composition.py.
NothingForgotten == active = "platform" => D!NothingForgotten

\* SocraticService's: a session belongs to one learner.
OnlyTheOwnerActs == S!OnlyTheOwnerActs

\* ContextAssembly's and SocraticService's: every request is answered.
EveryRequestEnds == EveryCallIsAnswered /\ S!RequestsEnd

=============================================================================
