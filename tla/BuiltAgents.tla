---------------------------- MODULE BuiltAgents ----------------------------
(***************************************************************************)
(* The agents the builder makes of its form: formConfigToAgentSpec, its    *)
(* validation, the text agentSpecToChineseDsl writes and what inspecting   *)
(* that text reads back, and the path a Run Preview takes through them.    *)
(* The actions' results are not followed: a context says which intent was  *)
(* asked and how risky the case is.                                        *)
(***************************************************************************)
EXTENDS Naturals, Sequences, FiniteSets, Absence

(* The one template, ecommerce-support                                      *)
Intents == {"shipping_query", "return_request", "refund_request", "handoff"}
SkillFor ==
  [shipping_query |-> "query_shipping_status", return_request |-> "create_return_request",
   refund_request |-> "create_refund_request", handoff |-> "create_support_ticket"]
Skills == {"query_order"} \cup {SkillFor[i] : i \in Intents}

(* How YAML reads a name that is written without quotes                     *)
Readings == {"string", "number"}

(* A form is refused unless it names an agent, an intent and a skill, and   *)
(* only what the template knows.                                            *)
FormIsValid(form) ==
  form.intents # {} /\ form.skills # {} /\ form.intents \subseteq Intents
    /\ form.skills \subseteq Skills

-----------------------------------------------------------------------------
(* buildStates: a state for every intent whose skill is selected too, and   *)
(* the two of the human desk when tickets can be made                       *)
Place ==
  [shipping_query |-> "query_shipping", return_request |-> "handle_return",
   refund_request |-> "handle_refund", handoff |-> "create_handoff_ticket"]
Tickets(form) == "create_support_ticket" \in form.skills
Served(form) ==
  {i \in form.intents \ {"handoff"} : SkillFor[i] \in form.skills}
    \cup {i \in {"handoff"} : Tickets(form)}

Unasked == [on |-> "always", value |-> None]
Asked(i) == [on |-> "intent", value |-> i]
RiskIsHigh == [on |-> "risk", value |-> "high"]
(* ctx.missing_info?.length > 0 is no expression the evaluator reads.       *)
Unreadable == [on |-> "unreadable", value |-> None]
Go(to, when) == [to |-> to, when |-> when]

Triage(form) ==
  LET Offer(i) == IF i \in Served(form) THEN <<Go(Place[i], Asked(i))>> ELSE <<>>
  IN Offer("shipping_query") \o Offer("return_request") \o Offer("refund_request")
       \o Offer("handoff") \o <<Go("resolved", Unasked)>>
Escalation(i) == IF i = "return_request" THEN Unreadable ELSE RiskIsHigh
AfterService(form, i) ==
  IF Tickets(form)
  THEN <<Go("create_handoff_ticket", Escalation(i)), Go("resolved", Unasked)>>
  ELSE <<Go("resolved", Unasked)>>

State(actions, transitions, kind) ==
  [actions |-> actions, transitions |-> transitions, kind |-> kind]
Lookup(form) == IF "query_order" \in form.skills THEN {"query_order"} ELSE {}
StateNames(form) ==
  {"triage", "resolved"} \cup {Place[i] : i \in Served(form)}
    \cup (IF Tickets(form) THEN {"handoff_human"} ELSE {})
ServiceOf(place) == CHOOSE i \in Intents : Place[i] = place

States(form) ==
  [s \in StateNames(form) |->
     CASE s = "triage" -> State(Lookup(form), Triage(form), "step")
       [] s = "resolved" -> State({}, <<>>, "final")
       [] s = "handoff_human" -> State({}, <<>>, "handoff")
       [] s = "create_handoff_ticket" ->
            State({"create_support_ticket"}, <<Go("handoff_human", Unasked)>>, "step")
       [] OTHER ->
            State(Lookup(form) \cup {SkillFor[ServiceOf(s)]},
                  AfterService(form, ServiceOf(s)), "step")]

SpecOf(form) ==
  [agent |-> form.name, version |-> form.version, intents |-> form.intents,
   missing |-> "empty list", initial |-> "triage", states |-> States(form),
   actions |-> form.skills]

(* validateGeneratedSpec                                                    *)
SpecIsValid(spec) ==
  LET states == spec.states IN
  /\ spec.initial \in DOMAIN states
  /\ \A s \in DOMAIN states :
       /\ states[s].actions \subseteq spec.actions
       /\ \A k \in DOMAIN states[s].transitions :
            states[s].transitions[k].to \in DOMAIN states
  /\ \E s \in DOMAIN states : states[s].kind \in {"final", "handoff"}

-----------------------------------------------------------------------------
(* The text of an agent read back by the inspector: a list without items    *)
(* comes back as null, and a name that reads as a number is no string any   *)
(* more, which the schema refuses.                                          *)
TextIsAccepted(spec) == spec.agent = "string" /\ spec.version = "string"
ReadBack(spec) == [spec EXCEPT !.missing = "null"]

-----------------------------------------------------------------------------
(* resolveRuntimeInput and the resolver: what a preview's context says was  *)
(* asked, and the intent the result reports                                 *)
AskedIn(input) == IF input.intent # None THEN input.intent ELSE input.issue
Matched(spec, input) ==
  IF AskedIn(input) \in spec.intents THEN AskedIn(input)
  ELSE IF Cardinality(spec.intents) = 1 THEN CHOOSE i \in spec.intents : TRUE
  ELSE None

Passes(when, input) ==
  CASE when.on = "always" -> TRUE
    [] when.on = "intent" -> AskedIn(input) = when.value
    [] when.on = "risk" -> input.risk = when.value
    [] OTHER -> FALSE

(* The first transition that passes is taken; the states a run is in, one   *)
(* after the other, until none does and it stays                            *)
Onward(spec, input, s) ==
  LET transitions == spec.states[s].transitions
      open == {k \in DOMAIN transitions : Passes(transitions[k].when, input)}
  IN IF open = {} THEN s
     ELSE transitions[CHOOSE k \in open : \A j \in open : k <= j].to
Longest == 5
Path(spec, input) ==
  LET walk[n \in 1..Longest] ==
        IF n = 1 THEN spec.initial ELSE Onward(spec, input, walk[n - 1])
  IN walk
Visited(spec, input) == {Path(spec, input)[n] : n \in 1..Longest}
Ended(spec, input) == spec.states[Path(spec, input)[Longest]].kind
Ran(spec, input) == UNION {spec.states[s].actions : s \in Visited(spec, input)}

Inputs ==
  [intent : Intents \cup {None, "other"}, issue : {None, "refund_request"},
   risk : {"low", "high"}]

-----------------------------------------------------------------------------
(* Whatever the form selects, the agent passes the builder's validation and *)
(* every run of it ends in a final or a handoff state; an intent it matched *)
(* is served where its skill is selected too, and skills with effects run   *)
(* for the intent that needs them only, tickets for high risk besides.      *)
AgentKeepsForm(form) ==
  LET spec == SpecOf(form) IN
  /\ SpecIsValid(spec)
  /\ \A input \in Inputs :
       LET asked == AskedIn(input)
           ran == Ran(spec, input)
       IN /\ Ended(spec, input) \in {"final", "handoff"}
          /\ asked \in Served(form) => SkillFor[asked] \in ran
          /\ \A i \in Intents \ {"handoff"} : SkillFor[i] \in ran => asked = i
          /\ "create_support_ticket" \in ran <=>
               /\ Tickets(form)
               /\ \/ asked = "handoff"
                  \/ asked \in Served(form) \ {"return_request"} /\ input.risk = "high"

(* The agent the preview runs from the text is the one it runs from the     *)
(* form: it takes the same path for every input, unless the text is refused *)
(* for a name that reads as a number.                                       *)
TextSaysTheSame(form) ==
  LET spec == SpecOf(form)
      read == ReadBack(spec)
  IN IF TextIsAccepted(spec)
     THEN /\ SpecIsValid(read)
          /\ \A input \in Inputs :
               /\ Path(read, input) = Path(spec, input)
               /\ Matched(read, input) = Matched(spec, input)
     ELSE "number" \in {form.name, form.version}

=============================================================================
