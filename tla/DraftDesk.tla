----------------------------- MODULE DraftDesk -----------------------------
(***************************************************************************)
(* The AI draft assistant beside the builder's form.  The user picks tags  *)
(* and asks for a draft; the mock provider answers in the page, a real one *)
(* through the runner, which asks it under a timer that guards the wait    *)
(* for its headers and not the reading of its body.  Only Generate waits   *)
(* for the answer: the form, the tags and the Apply button of an older     *)
(* draft stay live meanwhile.                                              *)
(***************************************************************************)
EXTENDS BuiltAgents

CONSTANTS Opening,     \* the form the builder opens with
          Toggles,     \* intents and skills the user switches
          TagChoices,  \* scenario, capabilities, approval, brief and provider
          DefaultTags, \* those the panel opens with
          LlmDrafts,   \* what a real provider may draft
          Provider     \* the runner's environment: "disabled", "unconfigured", "ready"

Windows == {7, 30}                    \* rules.returnWindowDays
Handoffs == {None, "refunds", "risk"}  \* rules for handing over
Settings ==
  [name : Readings, version : Readings, intents : SUBSET Intents, skills : SUBSET Skills,
   window : Windows, handoff : Handoffs]
DraftedForms ==
  [name : {"string"}, intents : SUBSET Intents, skills : SUBSET Skills,
   window : Windows \cup {None}, handoff : Handoffs]
FormFields == {"name", "intents", "skills", "window", "handoff"}
Offers == [form : DraftedForms, diff : SUBSET FormFields, moved : BOOLEAN]
Questions == [phase : {"runner", "provider", "body"}, base : Settings]

ASSUME DeskAssumption ==
  /\ Opening \in Settings /\ FormIsValid(Opening) /\ DefaultTags \in TagChoices
  /\ \A t \in TagChoices :
       /\ t.provider \in {"mock", "real"}
       /\ t.brief \in {"blank", "plain", "days"}
  /\ \A d \in LlmDrafts : d.window \in Windows \cup {None} /\ d.handoff \in Handoffs
  /\ None \notin Offers \cup Questions

VARIABLES
  settings,    \* formState
  tags,        \* scenario, capabilities, strategies, brief and provider chosen
  offer,       \* the draft's form and the diff shown with it, or None
  generating,  \* the button says so
  asking,      \* the request to the runner and what its click knew, or None
  refused,     \* errorMessage is shown
  told         \* applyMessage is shown

draftVars == <<settings, tags, offer, generating, asking, refused, told>>

DraftTypeOK ==
  /\ settings \in Settings /\ tags \in TagChoices
  /\ offer \in Offers \cup {None} /\ asking \in Questions \cup {None}
  /\ generating \in BOOLEAN /\ refused \in BOOLEAN /\ told \in BOOLEAN

-----------------------------------------------------------------------------
(* validateFlowDraft, errors only, and the schema before it                 *)
DraftIssues(d) ==
  {k \in {"scenario", "intents", "skills", "states"} :
     CASE k = "scenario" -> d.scenario \notin {"ecommerce_support", "custom"}
       [] k = "intents" -> d.intents = {} \/ ~(d.intents \subseteq Intents)
       [] k = "skills" -> d.skills = {} \/ ~(d.skills \subseteq Skills)
       [] OTHER -> ~(d.used \subseteq d.skills) \/ ~(d.entered \subseteq d.states)}

(* flowDraftToBuilderFormConfig: a draft says nothing of the version.       *)
FormOf(d) ==
  [name |-> "string", intents |-> d.intents, skills |-> d.skills, window |-> d.window,
   handoff |-> d.handoff]

(* pickIntentIds and mockAiDraftProvider: capabilities the provider does    *)
(* not know are dropped, and one it knows may be no skill of the template.  *)
Capabilities == Skills \cup {"render_customer_reply"}
PickIntents(capabilities) ==
  LET picked == {i \in Intents : SkillFor[i] \in capabilities}
  IN IF picked = {} THEN {"shipping_query"} ELSE picked
MockDraft(t) ==
  LET known == t.capabilities \cap Capabilities
      used == IF known = {} THEN {"query_order"} ELSE known
  IN [scenario |-> t.scenario, intents |-> PickIntents(used), skills |-> used \cap Skills,
      window |-> IF t.brief = "days" THEN 7 ELSE 30,
      handoff |-> IF t.approval THEN "refunds" ELSE None,
      states |-> {"triage", "resolved", "handoff_human"},
      used |-> used \cap {"query_order", "create_support_ticket"}, entered |-> {}]

(* compareBuilderForms, and one that leaves out the handoff rules           *)
ForgetHandoff(current, drafted) ==
  {f \in FormFields \ {"handoff"} : current[f] # drafted[f]}
CompareBuilderForms(current, drafted) == {f \in FormFields : current[f] # drafted[f]}

(* applyFormToUiState: a rule the draft lacks, or has no number for, keeps  *)
(* the form's value; the draft's other fields replace the form's.           *)
Applied(prev, drafted) ==
  [prev EXCEPT !.name = drafted.name, !.intents = drafted.intents, !.skills = drafted.skills,
               !.window = IF drafted.window \in Windows THEN drafted.window ELSE @,
               !.handoff = drafted.handoff]

-----------------------------------------------------------------------------
(* A draft is shown with its difference from the form the click saw;        *)
(* `moved` tells whether the form was changed since.                        *)
Offered(d, base) ==
  [form |-> FormOf(d), diff |-> CompareBuilderForms(base, FormOf(d)),
   moved |-> base # settings]
SettleWith(d, base) ==
  IF DraftIssues(d) = {}
  THEN offer' = Offered(d, base) /\ refused' = FALSE
  ELSE refused' = TRUE /\ UNCHANGED offer
Moved(after) == IF offer = None THEN None
                ELSE [offer EXCEPT !.moved = @ \/ after # settings]

DraftInit ==
  /\ settings = Opening /\ tags = DefaultTags
  /\ offer = None /\ asking = None
  /\ generating = FALSE /\ refused = FALSE /\ told = FALSE

ChangeForm(after) ==
  /\ settings' = after
  /\ offer' = Moved(after)
Flip(S, x) == IF x \in S THEN S \ {x} ELSE S \cup {x}
EditSettings ==
  /\ \/ \E i \in Toggles \cap Intents :
          ChangeForm([settings EXCEPT !.intents = Flip(@, i)])
     \/ \E s \in Toggles \cap Skills :
          ChangeForm([settings EXCEPT !.skills = Flip(@, s)])
     \/ ChangeForm([settings EXCEPT !.window = IF @ = 7 THEN 30 ELSE 7])
  /\ UNCHANGED <<tags, generating, asking, refused, told>>

PickTags ==
  /\ \E t \in TagChoices \ {tags} : tags' = t
  /\ UNCHANGED <<settings, offer, generating, asking, refused, told>>

TagsPass == tags.capabilities # {} /\ tags.brief # "blank" /\ tags.scenario = "ecommerce_support"

(* onGenerateDraft: refused at once, answered by the mock in the page, or   *)
(* sent to the runner                                                       *)
Generate ==
  /\ ~generating
  /\ told' = FALSE
  /\ IF ~TagsPass
     THEN refused' = TRUE /\ UNCHANGED <<offer, generating, asking>>
     ELSE IF tags.provider = "mock"
          THEN SettleWith(MockDraft(tags), settings) /\ UNCHANGED <<generating, asking>>
          ELSE /\ generating' = TRUE /\ refused' = FALSE
               /\ asking' = [phase |-> "runner", base |-> settings]
               /\ UNCHANGED offer
  /\ UNCHANGED <<settings, tags>>

-----------------------------------------------------------------------------
Settled == asking # None /\ asking' = None /\ generating' = FALSE
RefuseDraft == Settled /\ refused' = TRUE /\ UNCHANGED offer
Reaches(phase) ==
  /\ asking' = [asking EXCEPT !.phase = phase]
  /\ UNCHANGED <<offer, generating, refused>>

(* buildAiDraftPreview: a provider that is disabled or not configured       *)
(* answers for itself, a ready one is asked.                                *)
RunnerTakes ==
  /\ asking # None /\ asking.phase = "runner"
  /\ IF Provider = "ready" THEN Reaches("provider") ELSE RefuseDraft

(* The provider's headers end the timer, whatever their status; until then  *)
(* the timer may end the request.                                           *)
HeadersArrive == asking # None /\ asking.phase = "provider" /\ Reaches("body")
TimerFires == asking # None /\ asking.phase = "provider" /\ RefuseDraft

(* The body is a draft that passes, one that does not, or no draft at all   *)
(* (another status, empty, not JSON, not a draft's fields).                 *)
BodyRead ==
  /\ asking # None /\ asking.phase = "body"
  /\ \/ \E d \in LlmDrafts : Settled /\ SettleWith(d, asking.base)
     \/ RefuseDraft

(* The runner is not running, or the page loses its answer.                 *)
Lost == RefuseDraft

RequestMoves ==
  /\ RunnerTakes \/ HeadersArrive \/ TimerFires \/ BodyRead \/ Lost
  /\ UNCHANGED <<settings, tags, told>>

(* onApply, while another draft is asked for too                            *)
ApplyDraft ==
  /\ offer # None
  /\ ChangeForm(Applied(settings, offer.form))
  /\ told' = TRUE
  /\ UNCHANGED <<tags, generating, asking, refused>>

DraftNext == EditSettings \/ PickTags \/ Generate \/ RequestMoves \/ ApplyDraft

DraftSpec == DraftInit /\ [][DraftNext]_draftVars

-----------------------------------------------------------------------------
(* What Apply would change of a form that nobody touched since the draft    *)
(* was asked for is listed beside the button, and every field listed but    *)
(* the rules gets the value shown (AiDraftPanel.tsx:107, draft-diff.ts:8).  *)
DiffTellsWhatApplyDoes ==
  offer # None /\ ~offer.moved =>
    LET after == Applied(settings, offer.form) IN
    /\ \A f \in FormFields : after[f] # settings[f] => f \in offer.diff
    /\ \A f \in offer.diff \ {"window"} : after[f] = offer.form[f]

(* Applying an offer, however the form was changed meanwhile, leaves a form *)
(* the builder makes a valid agent of (flow-draft-to-form.ts:16).           *)
OffersMakeAgents ==
  offer # None =>
    LET after == Applied(settings, offer.form)
    IN FormIsValid(after) /\ SpecIsValid(SpecOf(after))

(* The button waits exactly while a request is on its way                   *)
(* (AiDraftPanel.tsx:202).                                                  *)
GeneratingHasRequest == generating <=> asking # None

(* Every form makes agents that keep to it, from its text too; looked at    *)
(* once, where the desk stands as it opened.                                *)
Untouched ==
  settings = Opening /\ tags = DefaultTags /\ offer = None /\ ~generating /\ ~refused /\ ~told
FormsThatBuild ==
  [name : Readings, version : Readings, intents : SUBSET Intents \ {{}},
   skills : SUBSET Skills \ {{}}]
AgentsKeepForms ==
  Untouched => \A f \in FormsThatBuild : AgentKeepsForm(f) /\ TextSaysTheSame(f)

(* The four of them: what the panel says of a draft, and what comes of it   *)
(* (AiDraftPanel.tsx:107).                                                  *)
DraftsMakeAgents ==
  DiffTellsWhatApplyDoes /\ OffersMakeAgents /\ GeneratingHasRequest /\ AgentsKeepForms

=============================================================================
