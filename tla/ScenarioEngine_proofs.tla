------------------------- MODULE ScenarioEngine_proofs -------------------------
(***************************************************************************)
(* Proofs about ScenarioEngine, for any document the validator admits, any *)
(* requests, evaluators and budgets: its types, the nesting of calls and   *)
(* returns, that a run is reported once and one way, that the engine       *)
(* implements MemoizedCalls, and which evidence bundles are accepted.      *)
(*                                                                         *)
(* The inductive invariant has six parts: types; the shape of one          *)
(* execution (which slot its visits, its slot and its stack are at, in     *)
(* each phase); what ledger, results and adapter say of it; who waits for  *)
(* what; whom the adapter knows the first invocation of a run by; and what *)
(* the trace and the audit record of a run say before and after its end.   *)
(* The shape is kept by lemmas about one record each. A step of an         *)
(* execution is then quiet, emitting events that end nothing, or the last. *)
(* For the evidence the summaries of an execution are counted against its  *)
(* visits, and its trace is followed for the failure of a slot.            *)
(***************************************************************************)
EXTENDS ScenarioEvidence, FiniteSetTheorems, TLAPS

(* The events an execution emits before its last one, and at any time.       *)
ProgressEvents ==
  {"started", "slot.started", "slot.completed", "slot.failed", "route.selected",
   "budget.exhausted", "binding.applied", "binding.failed"}
Events == ProgressEvents \cup Terminals

OutcomeNames == UNION {Outcomes[s] : s \in Slots}

Executions ==
  [phase : ScenarioPhases, slot : Slots, stack : Seq(Slots), visits : Seq(Slots),
   answer : SlotResults \cup {Unset}, outcome : OutcomeNames \cup {Unset},
   route : Routes \cup {Unset}, status : Statuses \cup {Unset},
   routes : Nat, bindings : Nat]

EngineTypes ==
  /\ turn \in Keys \cup {Nobody} /\ active \in Keys \cup {Nobody}
  /\ exec \in [Keys -> Executions]
  /\ ledger \in [Keys -> Requests \cup {Unset}]
  /\ results \in [Keys -> Statuses \cup {Unset}]
  /\ caller \in [Callers -> [request : Requests \cup {Unset},
                             answer : Statuses \cup {Unset, "conflict"}]]
  /\ traces \in [RunIds -> Seq(Events)]
  /\ audits \in [RunIds -> Statuses \cup {Unset}]

-----------------------------------------------------------------------------
(* The shape of one execution.                                               *)

Deciding == {"idle", "start", "before", "invoke"}
Visiting == {"slot", "project", "route", "routed", "effect"}
Leaving  == {"ending", "ended"}

Alternating(v) ==
  \A i \in 1 .. Len(v) : IF i % 2 = 1 THEN v[i] = Primary ELSE v[i] \in Callable

(* The primary with nobody waiting for it, or a slot it called.              *)
AtPrimary(x)    == x.slot = Primary /\ x.stack = <<>>
AtSupporting(x) == x.slot \in Callable /\ x.stack = <<x.slot>>

Shaped(x) ==
  /\ Alternating(x.visits)
  /\ x.phase = "idle" => x.visits = <<>>
  /\ x.phase \in Deciding =>
       IF Len(x.visits) % 2 = 0 THEN AtPrimary(x) ELSE AtSupporting(x)
  /\ x.phase \in Visiting =>
       /\ x.visits # <<>>
       /\ IF Len(x.visits) % 2 = 1 THEN AtPrimary(x) ELSE AtSupporting(x)
  /\ x.phase \in {"routed", "effect"} => x.route \in Routes /\ From[x.route] = x.slot
  /\ x.phase \in Leaving <=> x.status # Unset
  /\ x.status = "completed" => Len(x.visits) % 2 = 1

ShapeInv == \A k \in Keys : Shaped(exec[k])

-----------------------------------------------------------------------------
(* What the turn, the ledger and the results say of the executions.          *)
FlowInv ==
  /\ \A k \in Keys : ledger[k] = Unset <=> exec[k].phase = "idle"
  /\ \A k \in Keys : results[k] = IF exec[k].phase = "ended" THEN exec[k].status ELSE Unset
  /\ \A k \in Keys : active = k => exec[k].phase = "slot" /\ exec[k].answer = Unset

(* A caller who has asked waits for the request its key is bound to.         *)
CallerInv ==
  \A c \in Callers :
    /\ caller[c].request = Unset => caller[c].answer = Unset
    /\ caller[c].request # Unset /\ caller[c].answer = Unset =>
         BoundTo(caller[c].request)

(* The first visit of an execution that has not failed was invoked as its.   *)
FirstKey(k) == <<RunIdOf(k), 1, Primary, InputOf[ledger[k]]>>
Unfailed(x) == x.visits # <<>> /\ x.status # "failed"
               /\ ~ (x.phase = "slot" /\ x.answer = "failed")
InvokedInv ==
  /\ \A i, j \in invoked : i.key = j.key => i.owner = j.owner
  /\ \A k \in Keys : Unfailed(exec[k]) => [key |-> FirstKey(k), owner |-> k] \in invoked

(* A run nobody has brought has no events; that of one execution alone has   *)
(* no terminal event before its last, and the reports of it agree.           *)
NoTerminal(t) == \A i \in 1 .. Len(t) : t[i] \notin Terminals
EndsWith(t, e) ==
  t # <<>> /\ {i \in DOMAIN t : t[i] \in Terminals} = {Len(t)} /\ t[Len(t)] = e
ReportInv ==
  /\ \A r \in RunIds :
       (\A k \in Keys : ledger[k] # Unset => RunIdOf(k) # r) => traces[r] = <<>>
  /\ \A k \in Keys : ledger[k] # Unset /\ OwnRun(k) =>
       IF results[k] = Unset THEN NoTerminal(traces[RunIdOf(k)])
       ELSE /\ audits[RunIdOf(k)] = results[k]
            /\ EndsWith(traces[RunIdOf(k)], TerminalEvent(results[k]))

-----------------------------------------------------------------------------
(* How the shape of an execution is kept, one move of the loop at a time.    *)

LEMMA RouteShapes ==
  ASSUME NEW r \in Routes
  PROVE  /\ From[r] \in Slots
         /\ Effect[r] = "invoke_slot" => From[r] = Primary /\ Target[r] \in Callable
         /\ Effect[r] = "resume_caller" => From[r] # Primary
         /\ Effect[r] = "terminate" => From[r] = Primary
<1>1. From[r] \in Slots
  BY ParameterAssumption
<1>2. CASE Effect[r] = "invoke_slot"
  BY <1>1, <1>2, DocumentAssumption
<1>3. CASE Effect[r] = "resume_caller"
  BY <1>1, <1>3, DocumentAssumption
<1>4. CASE Effect[r] = "terminate"
  BY <1>1, <1>4, DocumentAssumption
<1> QED
  BY <1>1, <1>2, <1>3, <1>4

LEMMA Parity ==
  ASSUME NEW n \in Nat
  PROVE  n % 2 \in {0, 1} /\ ((n + 1) % 2 = 1 <=> n % 2 = 0)
OBVIOUS

(* An execution that only goes on to another phase.                          *)
LEMMA GoesOn ==
  ASSUME NEW x \in Executions, Shaped(x), NEW p \in ScenarioPhases,
         \/ x.phase \in Deciding /\ p \in Deciding \ {"idle"}
         \/ x.phase \in Visiting /\ p \in {"project"}
         \/ x.phase = "routed" /\ p = "effect"
         \/ x.phase = "ending" /\ p = "ended"
  PROVE  LET y == [x EXCEPT !.phase = p] IN y \in Executions /\ Shaped(y)
<1> DEFINE y == [x EXCEPT !.phase = p]
<1>1. /\ y \in Executions /\ y.phase = p /\ y.slot = x.slot /\ y.stack = x.stack
      /\ y.visits = x.visits /\ y.route = x.route /\ y.status = x.status
  BY DEF Executions
<1> HIDE DEF y
<1>2. Shaped(y)
  BY <1>1 DEF Shaped, Deciding, Visiting, Leaving, AtPrimary, AtSupporting, Alternating
<1> QED
  BY <1>1, <1>2 DEF y

(* It leaves the loop with a status; completed, only after a visit of the    *)
(* primary.                                                                  *)
LEMMA Leaves ==
  ASSUME NEW x \in Executions, Shaped(x), x.phase \notin Leaving,
         NEW s \in Statuses, s = "completed" => Len(x.visits) % 2 = 1
  PROVE  LET y == [x EXCEPT !.phase = "ending", !.status = s]
         IN  /\ y \in Executions /\ Shaped(y) /\ y.phase = "ending" /\ y.status = s
             /\ y.visits = x.visits /\ y.answer = x.answer
<1> DEFINE y == [x EXCEPT !.phase = "ending", !.status = s]
<1>1. /\ y \in Executions /\ y.phase = "ending" /\ y.slot = x.slot /\ y.stack = x.stack
      /\ y.visits = x.visits /\ y.route = x.route /\ y.status = s /\ y.answer = x.answer
  BY DEF Executions, ScenarioPhases
<1> HIDE DEF y
<1>2. s # Unset
  BY RequestAssumption
<1>3. Shaped(y)
  BY <1>1, <1>2 DEF Shaped, Deciding, Visiting, Leaving, Alternating
<1> QED
  BY <1>1, <1>3 DEF y

(* A visit more: the slot the execution is about to invoke.                  *)
LEMMA Visits ==
  ASSUME NEW x \in Executions, Shaped(x), x.phase = "invoke",
         NEW a \in SlotResults \cup {Unset}
  PROVE  LET y == Waiting(x, a)
         IN  /\ y \in Executions /\ Shaped(y)
             /\ y.phase = "slot" /\ y.answer = a /\ y.status = x.status
             /\ y.visits = Append(x.visits, x.slot)
<1> DEFINE y == Waiting(x, a)
<1>2. x.visits \in Seq(Slots) /\ x.slot \in Slots
  BY DEF Executions
<1>1. /\ y \in Executions /\ y.phase = "slot" /\ y.slot = x.slot /\ y.stack = x.stack
      /\ y.visits = Append(x.visits, x.slot) /\ y.answer = a /\ y.status = x.status
  <2> DEFINE v == Append(x.visits, x.slot)
  <2>1. v \in Seq(Slots)
    BY <1>2
  <2> HIDE DEF v
  <2>2. LET z == [x EXCEPT !.visits = v, !.phase = "slot", !.answer = a]
        IN  /\ z \in Executions /\ z.phase = "slot" /\ z.slot = x.slot /\ z.stack = x.stack
            /\ z.visits = v /\ z.answer = a /\ z.status = x.status
    BY <2>1 DEF Executions, ScenarioPhases
  <2> QED
    BY <2>2 DEF Waiting, v
<1> HIDE DEF y
<1> DEFINE n == Len(x.visits)
<1>3. n \in Nat /\ Len(y.visits) = n + 1 /\ y.visits # <<>> /\ y.visits[n + 1] = x.slot
      /\ \A i \in 1 .. n : y.visits[i] = x.visits[i]
  BY <1>1, <1>2
<1>4. IF n % 2 = 0 THEN AtPrimary(x) ELSE AtSupporting(x)
  BY DEF Shaped, Deciding
<1>5. Alternating(y.visits)
  <2>1. ASSUME NEW i \in 1 .. n + 1
        PROVE  IF i % 2 = 1 THEN y.visits[i] = Primary ELSE y.visits[i] \in Callable
    <3>1. CASE i \in 1 .. n
      BY <1>3, <3>1 DEF Shaped, Alternating
    <3>2. CASE i = n + 1
      BY <1>3, <1>4, <3>2, Parity DEF AtPrimary, AtSupporting
    <3> QED
      BY <2>1, <1>3, <3>1, <3>2
  <2> QED
    BY <1>3, <2>1 DEF Alternating
<1>6. IF Len(y.visits) % 2 = 1 THEN AtPrimary(y) ELSE AtSupporting(y)
  BY <1>1, <1>3, <1>4, Parity DEF AtPrimary, AtSupporting
<1>7. x.status = Unset /\ Unset # "completed"
  BY RequestAssumption DEF Shaped, Leaving, Statuses
<1>8. Shaped(y)
  BY <1>1, <1>3, <1>5, <1>6, <1>7 DEF Shaped, Deciding, Leaving
<1> QED
  BY <1>1, <1>8 DEF y

(* Its slot answers.                                                         *)
LEMMA SlotAnswers ==
  ASSUME NEW x \in Executions, Shaped(x), NEW a \in SlotResults
  PROVE  LET y == [x EXCEPT !.answer = a]
         IN  /\ y \in Executions /\ Shaped(y) /\ y.answer = a
             /\ y.phase = x.phase /\ y.visits = x.visits /\ y.status = x.status
<1> DEFINE y == [x EXCEPT !.answer = a]
<1>1. /\ y \in Executions /\ y.phase = x.phase /\ y.slot = x.slot /\ y.stack = x.stack
      /\ y.visits = x.visits /\ y.route = x.route /\ y.status = x.status /\ y.answer = a
  BY DEF Executions
<1> HIDE DEF y
<1>2. Shaped(y)
  BY <1>1 DEF Shaped, Deciding, Visiting, Leaving, AtPrimary, AtSupporting, Alternating
<1> QED
  BY <1>1, <1>2 DEF y

(* Its outcome is projected.                                                 *)
LEMMA Projects ==
  ASSUME NEW x \in Executions, Shaped(x), x.phase = "project", NEW o \in OutcomeNames
  PROVE  LET y == [x EXCEPT !.phase = "route", !.outcome = o]
         IN  /\ y \in Executions /\ Shaped(y)
             /\ y.phase = "route" /\ y.visits = x.visits /\ y.status = x.status
<1> DEFINE y == [x EXCEPT !.phase = "route", !.outcome = o]
<1>1. /\ y \in Executions /\ y.phase = "route" /\ y.slot = x.slot /\ y.stack = x.stack
      /\ y.visits = x.visits /\ y.status = x.status
  BY DEF Executions, ScenarioPhases
<1> HIDE DEF y
<1>2. Shaped(y)
  BY <1>1 DEF Shaped, Deciding, Visiting, Leaving, AtPrimary, AtSupporting, Alternating
<1> QED
  BY <1>1, <1>2 DEF y

(* A route of its slot is selected.                                          *)
LEMMA Selects ==
  ASSUME NEW x \in Executions, Shaped(x), x.phase = "route",
         NEW r \in Routes, From[r] = x.slot, NEW n \in Nat
  PROVE  LET y == Routed(x, r, n)
         IN  /\ y \in Executions /\ Shaped(y)
             /\ y.phase = "routed" /\ y.visits = x.visits /\ y.status = x.status
<1> DEFINE m == x.routes + n
           y == [x EXCEPT !.phase = "routed", !.route = r, !.routes = m]
<1>0. m \in Nat
  BY DEF Executions
<1> HIDE DEF m
<1>1. /\ y \in Executions /\ y.phase = "routed" /\ y.slot = x.slot /\ y.stack = x.stack
      /\ y.visits = x.visits /\ y.status = x.status /\ y.route = r
  BY <1>0 DEF Executions, ScenarioPhases
<1> HIDE DEF y
<1>2. Shaped(y)
  BY <1>1 DEF Shaped, Deciding, Visiting, Leaving, AtPrimary, AtSupporting, Alternating
<1> QED
  BY <1>1, <1>2 DEF y, m, Routed

(* The primary calls.                                                        *)
LEMMA SlotCalls ==
  ASSUME NEW x \in Executions, Shaped(x), x.phase = "effect", x.slot = Primary,
         NEW t \in Callable
  PROVE  LET y == Called(x, t)
         IN  /\ y \in Executions /\ Shaped(y)
             /\ y.phase = "before" /\ y.visits = x.visits /\ y.status = x.status
<1> DEFINE y == Called(x, t)
<1>0. t \in Slots /\ Primary \notin Callable
  BY ParameterAssumption
<1>1. /\ y \in Executions /\ y.phase = "before" /\ y.slot = t /\ y.stack = <<t>>
      /\ y.visits = x.visits /\ y.status = x.status
  <2> DEFINE w == <<t>>
  <2>1. w \in Seq(Slots)
    BY <1>0
  <2> HIDE DEF w
  <2>2. LET z == [x EXCEPT !.stack = w, !.slot = t, !.phase = "before"]
        IN  /\ z \in Executions /\ z.phase = "before" /\ z.slot = t /\ z.stack = w
            /\ z.visits = x.visits /\ z.status = x.status
    BY <1>0, <2>1 DEF Executions, ScenarioPhases
  <2> QED
    BY <2>2 DEF Called, w
<1> HIDE DEF y
<1>2. Len(x.visits) % 2 = 1 /\ Alternating(x.visits) /\ x.status = Unset
  BY <1>0 DEF Shaped, Visiting, Leaving, AtSupporting
<1>3. AtSupporting(y)
  BY <1>0, <1>1 DEF AtSupporting
<1>4. 1 # 0
  OBVIOUS
<1>5. Unset # "completed"
  BY RequestAssumption DEF Statuses
<1>6. Shaped(y)
  BY <1>1, <1>2, <1>3, <1>4, <1>5 DEF Shaped, Deciding, Visiting, Leaving
<1> QED
  BY <1>1, <1>6 DEF y

(* A called slot returns to the primary.                                     *)
LEMMA Returns ==
  ASSUME NEW x \in Executions, Shaped(x), x.phase = "effect", x.slot # Primary
  PROVE  LET y == Resumed(x)
         IN  /\ y \in Executions /\ Shaped(y)
             /\ y.phase = "before" /\ y.visits = x.visits /\ y.status = x.status
<1> DEFINE y == Resumed(x)
<1>0. Primary \in Slots /\ Bindings[x.slot] \in Nat
  BY ParameterAssumption DEF Executions
<1>1. /\ y \in Executions /\ y.phase = "before" /\ y.slot = Primary /\ y.stack = <<>>
      /\ y.visits = x.visits /\ y.status = x.status
  <2> DEFINE w == <<>>
             m == x.bindings + Bindings[x.slot]
  <2>1. w \in Seq(Slots) /\ m \in Nat
    BY <1>0 DEF Executions
  <2> HIDE DEF w, m
  <2>2. LET z == [x EXCEPT !.slot = Primary, !.stack = w, !.phase = "before",
                           !.bindings = m]
        IN  /\ z \in Executions /\ z.phase = "before" /\ z.slot = Primary /\ z.stack = w
            /\ z.visits = x.visits /\ z.status = x.status
    BY <1>0, <2>1 DEF Executions, ScenarioPhases
  <2> QED
    BY <2>2 DEF Resumed, w, m
<1> HIDE DEF y
<1>2. x.visits \in Seq(Slots) /\ Len(x.visits) % 2 = 0
  BY <1>0 DEF Executions, Shaped, Visiting, AtPrimary
<1>3. Shaped(y)
  BY <1>1, <1>2 DEF Shaped, Deciding, Visiting, Leaving, AtPrimary, Alternating
<1> QED
  BY <1>1, <1>3 DEF y

-----------------------------------------------------------------------------
(* What a step does to the execution that takes it. Quiet steps are all but  *)
(* the last of an execution: they emit events that end nothing.              *)

Going == (Deciding \ {"idle"}) \cup Visiting

MovesTo(k, y) ==
  /\ exec' = [exec EXCEPT ![k] = y]
  /\ y \in Executions /\ Shaped(y)

EmitsProgress(k) == traces' = traces \/ \E e \in Seq(ProgressEvents) : EmitAll(k, e)

Quiet(k) ==
  /\ \E y : MovesTo(k, y) /\ y.phase \in Going \cup {"ending"}
  /\ exec[k].phase \in Going
  /\ UNCHANGED <<ledger, caller, results, audits>>
  /\ EmitsProgress(k)

(* It neither sends the adapter anything nor hears from it.                  *)
Unsent(k) ==
  /\ UNCHANGED <<active, invoked>>
  /\ exec[k].phase # "slot" \/ exec[k].answer # Unset
  /\ Unfailed(exec'[k]) => Unfailed(exec[k])

LEMMA Moved ==
  ASSUME EngineTypes, NEW k \in Keys, NEW y, exec' = [exec EXCEPT ![k] = y]
  PROVE  exec'[k] = y /\ \A j \in Keys \ {k} : exec'[j] = exec[j]
BY DEF EngineTypes

LEMMA LeaveSteps ==
  ASSUME EngineTypes, ShapeInv, NEW k \in Keys, exec[k].phase \in Going,
         NEW s \in Statuses, s = "completed" => Len(exec[k].visits) % 2 = 1,
         Leave(k, s)
  PROVE  /\ \E y : MovesTo(k, y) /\ y.phase \in Going \cup {"ending"}
         /\ s = "failed" \/ exec[k].phase # "slot" =>
              (Unfailed(exec'[k]) => Unfailed(exec[k]))
<1> DEFINE x == exec[k]
           y == [x EXCEPT !.phase = "ending", !.status = s]
<1>1. x \in Executions /\ Shaped(x) /\ x.phase \notin Leaving
  BY DEF EngineTypes, ShapeInv, Going, Deciding, Visiting, Leaving
<1>2. /\ y \in Executions /\ Shaped(y) /\ y.phase = "ending" /\ y.status = s
      /\ y.visits = x.visits /\ y.answer = x.answer
  BY <1>1, Leaves
<1>3. exec' = [exec EXCEPT ![k] = y]
  BY DEF Leave
<1>4. exec'[k] = y
  BY <1>3, Moved
<1>5. x.status = Unset /\ Unset # "failed"
  BY <1>1, RequestAssumption DEF Shaped, Statuses
<1> HIDE DEF y
<1>6. ASSUME s = "failed" \/ x.phase # "slot", Unfailed(y) PROVE Unfailed(x)
  BY <1>2, <1>5, <1>6 DEF Unfailed
<1>7. MovesTo(k, y) /\ y.phase \in Going \cup {"ending"}
  BY <1>2, <1>3 DEF MovesTo
<1> QED
  BY <1>4, <1>6, <1>7

LEMMA GotoSteps ==
  ASSUME EngineTypes, ShapeInv, NEW k \in Keys, NEW p \in Going,
         \/ exec[k].phase \in Deciding /\ p \in Deciding \ {"idle"}
         \/ exec[k].phase = "slot" /\ exec[k].answer # "failed" /\ p = "project"
         \/ exec[k].phase = "routed" /\ p = "effect",
         Goto(k, p)
  PROVE  /\ \E y : MovesTo(k, y) /\ y.phase \in Going \cup {"ending"}
         /\ Unfailed(exec'[k]) => Unfailed(exec[k])
<1> DEFINE x == exec[k]
           y == [x EXCEPT !.phase = p]
<1>1. x \in Executions /\ Shaped(x) /\ p \in ScenarioPhases
  BY DEF EngineTypes, ShapeInv, Going, Deciding, Visiting, ScenarioPhases
<1>2. y \in Executions /\ Shaped(y)
  BY <1>1, GoesOn DEF Visiting
<1>3. y.phase = p /\ y.status = x.status /\ y.visits = x.visits
  BY <1>1 DEF Executions
<1>4. exec' = [exec EXCEPT ![k] = y]
  BY DEF Goto
<1>5. exec'[k] = y
  BY <1>4, Moved
<1> HIDE DEF y
<1>6. ASSUME Unfailed(y) PROVE Unfailed(x)
  BY <1>3, <1>6 DEF Unfailed, Deciding
<1>7. MovesTo(k, y) /\ y.phase \in Going \cup {"ending"}
  BY <1>2, <1>3, <1>4 DEF MovesTo
<1> QED
  BY <1>5, <1>6, <1>7

LEMMA OverlaySteps ==
  ASSUME EngineTypes, ShapeInv, NEW k \in Keys, StartOverlays(k) \/ SlotOverlays(k)
  PROVE  Quiet(k) /\ Unsent(k)
<1>1. exec[k].phase \in Going /\ exec[k].phase \in Deciding /\ exec[k].phase # "slot"
  BY DEF StartOverlays, SlotOverlays, At, Going, Deciding
<1>2. PICK d \in OverlayDecisions :
        IF d = "allow" THEN \E p \in {"before", "invoke"} : Goto(k, p)
        ELSE Leave(k, Overruled(d))
  BY DEF StartOverlays, SlotOverlays
<1>3. /\ \E y : MovesTo(k, y) /\ y.phase \in Going \cup {"ending"}
      /\ Unfailed(exec'[k]) => Unfailed(exec[k])
  <2>1. CASE d = "allow"
    <3>1. PICK p \in {"before", "invoke"} : Goto(k, p)
      BY <1>2, <2>1
    <3> QED
      BY <1>1, <3>1, GotoSteps DEF Going, Deciding
  <2>2. CASE d # "allow"
    <3>1. Overruled(d) \in Statuses /\ Overruled(d) # "completed"
      BY DEF Overruled, Statuses
    <3> QED
      BY <1>1, <1>2, <2>2, <3>1, LeaveSteps
  <2> QED
    BY <2>1, <2>2
<1> QED
  BY <1>1, <1>3 DEF StartOverlays, SlotOverlays, Quiet, Unsent, EmitsProgress

(* It goes on with an outcome, or fails for want of one.                     *)
LEMMA ProjectSteps ==
  ASSUME EngineTypes, ShapeInv, NEW k \in Keys, ProjectOutcome(k)
  PROVE  Quiet(k) /\ Unsent(k)
<1> DEFINE x == exec[k]
<1>1. x.phase = "project" /\ x \in Executions /\ Shaped(x) /\ x.phase \in Going
  BY DEF ProjectOutcome, At, EngineTypes, ShapeInv, Going, Visiting
<1>2. CASE \E o \in Outcomes[x.slot] :
             exec' = [exec EXCEPT ![k] = [@ EXCEPT !.phase = "route", !.outcome = o]]
  <2>1. PICK o \in Outcomes[x.slot] :
          exec' = [exec EXCEPT ![k] = [@ EXCEPT !.phase = "route", !.outcome = o]]
    BY <1>2
  <2> DEFINE y == [x EXCEPT !.phase = "route", !.outcome = o]
  <2>2. o \in OutcomeNames
    BY <1>1 DEF OutcomeNames, Executions
  <2>3. /\ y \in Executions /\ Shaped(y)
        /\ y.phase = "route" /\ y.visits = x.visits /\ y.status = x.status
    BY <1>1, <2>2, Projects
  <2>4. exec' = [exec EXCEPT ![k] = y]
    BY <2>1
  <2>5. exec'[k] = y
    BY <2>4, Moved
  <2> HIDE DEF y
  <2>6. MovesTo(k, y) /\ y.phase \in Going
    BY <2>3, <2>4 DEF MovesTo, Going, Visiting
  <2>7. Unfailed(y) => Unfailed(x)
    BY <1>1, <2>3 DEF Unfailed
  <2> QED
    BY <1>1, <2>5, <2>6, <2>7 DEF ProjectOutcome, Quiet, Unsent, EmitsProgress
<1>3. CASE Leave(k, "failed")
  BY <1>1, <1>3, LeaveSteps
     DEF ProjectOutcome, Quiet, Unsent, EmitsProgress, Statuses
<1> QED
  BY <1>2, <1>3 DEF ProjectOutcome

(* Steps that fail the execution, whatever they emit before.                 *)
LEMMA FailingSteps ==
  ASSUME EngineTypes, ShapeInv, NEW k \in Keys,
         \/ ExhaustSlots(k) \/ FailSlot(k) \/ ExhaustRoutes(k) \/ MissBindingSource(k)
         \/ ExhaustBindings(k) \/ FailClosed(k)
  PROVE  Quiet(k) /\ Unsent(k)
<1>1. Leave(k, "failed")
  BY DEF ExhaustSlots, FailSlot, ExhaustRoutes, MissBindingSource, ExhaustBindings,
         FailClosed
<1>2. exec[k].phase \in Going /\ (exec[k].phase # "slot" \/ exec[k].answer = "failed")
  BY DEF ExhaustSlots, FailSlot, ExhaustRoutes, MissBindingSource, ExhaustBindings,
         FailClosed, AtEffect, At, Going, Visiting, Deciding
<1>3. UNCHANGED <<ledger, caller, results, audits, active, invoked>>
  BY DEF ExhaustSlots, FailSlot, ExhaustRoutes, MissBindingSource, ExhaustBindings,
         FailClosed
<1>4. EmitsProgress(k)
  <2>0. /\ <<"budget.exhausted">> \in Seq(ProgressEvents)
        /\ FailureEvents \in Seq(ProgressEvents)
    BY DEF FailureEvents, ProgressEvents
  <2>1. CASE ExhaustSlots(k) \/ ExhaustRoutes(k) \/ FailSlot(k) \/ FailClosed(k)
    BY <2>0, <2>1 DEF ExhaustSlots, ExhaustRoutes, FailSlot, FailClosed, EmitsProgress
  <2>2. ASSUME NEW n \in Nat PROVE Applied(n) \in Seq(ProgressEvents)
    BY <2>2 DEF Applied, ProgressEvents
  <2>3. CASE MissBindingSource(k)
    <3>1. PICK n \in 0 .. Bindings[exec[k].slot] - 1 :
            EmitAll(k, Applied(n) \o <<"binding.failed">>)
      BY <2>3 DEF MissBindingSource
    <3>2. /\ Applied(n) \in Seq(ProgressEvents)
          /\ <<"binding.failed">> \in Seq(ProgressEvents)
      BY <2>2 DEF ProgressEvents
    <3>3. Applied(n) \o <<"binding.failed">> \in Seq(ProgressEvents)
      BY <3>2
    <3> QED
      BY <3>1, <3>3 DEF EmitsProgress
  <2>4. CASE ExhaustBindings(k)
    <3>1. PICK n \in 0 .. BindingRoom(k) :
            EmitAll(k, Applied(n) \o <<"budget.exhausted", "binding.failed">>)
      BY <2>4 DEF ExhaustBindings
    <3>2. /\ Applied(n) \in Seq(ProgressEvents)
          /\ <<"budget.exhausted", "binding.failed">> \in Seq(ProgressEvents)
      BY <2>2 DEF ProgressEvents
    <3>3. Applied(n) \o <<"budget.exhausted", "binding.failed">> \in Seq(ProgressEvents)
      BY <3>2
    <3> QED
      BY <3>1, <3>3 DEF EmitsProgress
  <2> QED
    BY <2>1, <2>3, <2>4
<1>5. /\ \E y : MovesTo(k, y) /\ y.phase \in Going \cup {"ending"}
      /\ Unfailed(exec'[k]) => Unfailed(exec[k])
  BY <1>1, <1>2, LeaveSteps DEF Statuses
<1>6. Unset # "failed"
  BY RequestAssumption DEF Statuses
<1> QED
  BY <1>2, <1>3, <1>4, <1>5, <1>6 DEF Quiet, Unsent

LEMMA SelectSteps ==
  ASSUME EngineTypes, ShapeInv, NEW k \in Keys, SelectRoute(k)
  PROVE  Quiet(k) /\ Unsent(k)
<1> DEFINE x == exec[k]
           n == Cardinality(Candidates(k))
<1>1. x.phase = "route" /\ x \in Executions /\ Shaped(x) /\ x.phase \in Going
  BY DEF SelectRoute, At, EngineTypes, ShapeInv, Going, Visiting
<1>2. n \in Nat
  <2>1. Candidates(k) \subseteq Routes
    BY DEF Candidates
  <2> QED
    BY <2>1, FS_Subset, FS_CardinalityType, ParameterAssumption
<1> HIDE DEF n
<1>3. PICK matched \in SUBSET Candidates(k) :
        IF Cardinality(Highest(matched)) = 1
        THEN \E r \in Highest(matched) :
               exec' = [exec EXCEPT ![k] = Routed(@, r, n)]
        ELSE Leave(k, "failed")
  BY DEF SelectRoute, n
<1>4. CASE Cardinality(Highest(matched)) = 1
  <2>1. PICK r \in Highest(matched) :
          exec' = [exec EXCEPT ![k] = Routed(@, r, n)]
    BY <1>3, <1>4
  <2>2. r \in Routes /\ From[r] = x.slot
    BY DEF Highest, Candidates
  <2> DEFINE y == Routed(x, r, n)
  <2>3. /\ y \in Executions /\ Shaped(y)
        /\ y.phase = "routed" /\ y.visits = x.visits /\ y.status = x.status
    BY <1>1, <1>2, <2>2, Selects
  <2>4. exec' = [exec EXCEPT ![k] = y]
    BY <2>1
  <2>5. exec'[k] = y
    BY <2>4, Moved
  <2> HIDE DEF y
  <2>6. MovesTo(k, y) /\ y.phase \in Going
    BY <2>3, <2>4 DEF MovesTo, Going, Visiting
  <2>7. Unfailed(y) => Unfailed(x)
    BY <1>1, <2>3 DEF Unfailed
  <2> QED
    BY <1>1, <2>5, <2>6, <2>7 DEF SelectRoute, Quiet, Unsent, EmitsProgress
<1>5. CASE Cardinality(Highest(matched)) # 1
  <2>1. Leave(k, "failed")
    BY <1>3, <1>5
  <2> QED
    BY <1>1, <2>1, LeaveSteps DEF SelectRoute, Quiet, Unsent, EmitsProgress, Statuses
<1> QED
  BY <1>4, <1>5

LEMMA RouteOverlaySteps ==
  ASSUME EngineTypes, ShapeInv, NEW k \in Keys, RouteOverlays(k)
  PROVE  Quiet(k) /\ Unsent(k)
<1>1. exec[k].phase = "routed" /\ exec[k].phase \in Going
  BY DEF RouteOverlays, At, Going, Visiting
<1>2. PICK d \in OverlayDecisions :
        IF d = "allow" THEN Goto(k, "effect") /\ EmitAll(k, <<"route.selected">>)
        ELSE Leave(k, Overruled(d)) /\ UNCHANGED traces
  BY DEF RouteOverlays
<1>3. /\ \E y : MovesTo(k, y) /\ y.phase \in Going \cup {"ending"}
      /\ Unfailed(exec'[k]) => Unfailed(exec[k])
      /\ EmitsProgress(k)
  <2>1. CASE d = "allow"
    <3>1. <<"route.selected">> \in Seq(ProgressEvents)
      BY DEF ProgressEvents
    <3>2. EmitsProgress(k)
      BY <1>2, <2>1, <3>1 DEF EmitsProgress
    <3> QED
      BY <1>1, <1>2, <2>1, <3>2, GotoSteps DEF Going, Visiting
  <2>2. CASE d # "allow"
    <3>1. Overruled(d) \in Statuses /\ Overruled(d) # "completed"
      BY DEF Overruled, Statuses
    <3> QED
      BY <1>1, <1>2, <2>2, <3>1, LeaveSteps DEF EmitsProgress
  <2> QED
    BY <2>1, <2>2
<1> QED
  BY <1>1, <1>3 DEF RouteOverlays, Quiet, Unsent

(* At an effect the stack is what the route that asks for it expects.        *)
LEMMA EffectsFit ==
  ASSUME EngineTypes, ShapeInv, NEW k \in Keys, exec[k].phase = "effect"
  PROVE  LET x == exec[k] IN
         /\ x \in Executions /\ Shaped(x) /\ x.phase \in Going /\ x.route \in Routes
         /\ Effect[x.route] = "invoke_slot" => AtPrimary(x) /\ Target[x.route] \in Callable
         /\ Effect[x.route] = "resume_caller" => x.slot # Primary /\ AtSupporting(x)
         /\ Effect[x.route] = "terminate" => AtPrimary(x) /\ Len(x.visits) % 2 = 1
<1> DEFINE x == exec[k]
<1>1. x \in Executions /\ Shaped(x) /\ x.phase \in Going
  BY DEF EngineTypes, ShapeInv, Going, Visiting
<1>2. x.route \in Routes /\ From[x.route] = x.slot
  BY <1>1 DEF Shaped
<1>3. IF Len(x.visits) % 2 = 1 THEN AtPrimary(x) ELSE AtSupporting(x)
  BY <1>1 DEF Shaped, Visiting
<1>4. Primary \notin Callable
  BY ParameterAssumption
<1> HIDE DEF x
<1> QED
  BY <1>1, <1>2, <1>3, <1>4, RouteShapes DEF AtPrimary, AtSupporting, x

LEMMA CallSteps ==
  ASSUME EngineTypes, ShapeInv, NEW k \in Keys, CallSupporting(k)
  PROVE  Quiet(k) /\ Unsent(k)
<1> DEFINE x == exec[k]
           y == Called(x, Target[x.route])
<1>1. /\ x \in Executions /\ Shaped(x) /\ x.phase = "effect" /\ x.phase \in Going
      /\ x.slot = Primary /\ Target[x.route] \in Callable
  BY EffectsFit DEF CallSupporting, AtEffect, At, AtPrimary
<1>2. CASE MayCall(k)
  <2>1. exec' = [exec EXCEPT ![k] = y]
    BY <1>2 DEF CallSupporting
  <2>2. /\ y \in Executions /\ Shaped(y)
        /\ y.phase = "before" /\ y.visits = x.visits /\ y.status = x.status
    BY <1>1, SlotCalls
  <2>3. exec'[k] = y
    BY <2>1, Moved
  <2> HIDE DEF y
  <2>4. MovesTo(k, y) /\ y.phase \in Going
    BY <2>1, <2>2 DEF MovesTo, Going, Deciding
  <2>5. Unfailed(y) => Unfailed(x)
    BY <1>1, <2>2 DEF Unfailed
  <2> QED
    BY <1>1, <2>3, <2>4, <2>5 DEF CallSupporting, Quiet, Unsent, EmitsProgress
<1>3. CASE ~ MayCall(k)
  <2>1. Leave(k, "failed")
    BY <1>3 DEF CallSupporting
  <2> QED
    BY <1>1, <2>1, LeaveSteps DEF CallSupporting, Quiet, Unsent, EmitsProgress, Statuses
<1> QED
  BY <1>2, <1>3

LEMMA ReturnSteps ==
  ASSUME EngineTypes, ShapeInv, NEW k \in Keys, ResumeCaller(k)
  PROVE  Quiet(k) /\ Unsent(k)
<1> DEFINE x == exec[k]
           y == Resumed(x)
<1>1. /\ x \in Executions /\ Shaped(x) /\ x.phase = "effect" /\ x.phase \in Going
      /\ x.slot # Primary
  BY EffectsFit DEF ResumeCaller, AtEffect, At
<1>2. CASE MayResume(k)
  <2>1. exec' = [exec EXCEPT ![k] = y]
    BY <1>2 DEF ResumeCaller
  <2>2. /\ y \in Executions /\ Shaped(y)
        /\ y.phase = "before" /\ y.visits = x.visits /\ y.status = x.status
    BY <1>1, Returns
  <2>3. exec'[k] = y
    BY <2>1, Moved
  <2> HIDE DEF y
  <2>4. MovesTo(k, y) /\ y.phase \in Going
    BY <2>1, <2>2 DEF MovesTo, Going, Deciding
  <2>5. Unfailed(y) => Unfailed(x)
    BY <1>1, <2>2 DEF Unfailed
  <2>6. EmitsProgress(k)
    <3>1. PICK n \in 0 .. Bindings[x.slot] : EmitAll(k, Applied(n))
      BY <1>2 DEF ResumeCaller
    <3>2. Applied(n) \in Seq(ProgressEvents)
      BY DEF Applied, ProgressEvents
    <3> QED
      BY <3>1, <3>2 DEF EmitsProgress
  <2> QED
    BY <1>1, <2>3, <2>4, <2>5, <2>6 DEF ResumeCaller, Quiet, Unsent
<1>3. CASE ~ MayResume(k)
  <2>1. Leave(k, "failed") /\ UNCHANGED traces
    BY <1>3 DEF ResumeCaller
  <2> QED
    BY <1>1, <2>1, LeaveSteps DEF ResumeCaller, Quiet, Unsent, EmitsProgress, Statuses
<1> QED
  BY <1>2, <1>3

LEMMA EndingSteps ==
  ASSUME EngineTypes, ShapeInv, NEW k \in Keys, Terminate(k) \/ RequestHandoff(k)
  PROVE  Quiet(k) /\ Unsent(k)
<1> DEFINE x == exec[k]
<1>1. /\ x.phase = "effect" /\ x.phase \in Going
      /\ Terminate(k) => Len(x.visits) % 2 = 1
  BY EffectsFit DEF Terminate, RequestHandoff, AtEffect, At
<1>2. \E s \in Statuses : Leave(k, s) /\ (s = "completed" => Len(x.visits) % 2 = 1)
  <2>1. CASE RequestHandoff(k)
    BY <2>1 DEF RequestHandoff, Statuses
  <2>2. CASE Terminate(k) /\ MayTerminate(k)
    <3>1. PICK d \in OverlayDecisions :
            Leave(k, IF d = "allow" THEN "completed" ELSE Overruled(d))
      BY <2>2 DEF Terminate
    <3>2. (IF d = "allow" THEN "completed" ELSE Overruled(d)) \in Statuses
      BY DEF Overruled, Statuses
    <3> QED
      BY <1>1, <2>2, <3>1, <3>2
  <2>3. CASE Terminate(k) /\ ~ MayTerminate(k)
    BY <1>1, <2>3 DEF Terminate, Statuses
  <2> QED
    BY <2>1, <2>2, <2>3
<1> QED
  BY <1>1, <1>2, LeaveSteps DEF Terminate, RequestHandoff, Quiet, Unsent, EmitsProgress

LEMMA ResumeSteps ==
  ASSUME EngineTypes, ShapeInv, NEW k \in Keys, ResumeWithSlot(k)
  PROVE  Quiet(k) /\ Unsent(k)
<1>1. /\ exec[k].phase = "slot" /\ exec[k].phase \in Going /\ Goto(k, "project")
      /\ exec[k].answer # "failed" /\ exec[k].answer # Unset
  BY RequestAssumption DEF ResumeWithSlot, Going, Visiting, Statuses
<1>2. /\ \E y : MovesTo(k, y) /\ y.phase \in Going \cup {"ending"}
      /\ Unfailed(exec'[k]) => Unfailed(exec[k])
  BY <1>1, GotoSteps DEF Going, Visiting
<1>3. <<"slot.completed">> \in Seq(ProgressEvents)
  BY DEF ProgressEvents
<1> QED
  BY <1>1, <1>2, <1>3 DEF ResumeWithSlot, Quiet, Unsent, EmitsProgress

(* A slot invocation: k waits for answer a.                                  *)
InvokesWith(k, a) ==
  /\ exec[k].phase = "invoke"
  /\ exec' = [exec EXCEPT ![k] = Waiting(@, a)]
  /\ EmitAll(k, <<"slot.started">>)
  /\ UNCHANGED <<ledger, caller, results, audits>>

LEMMA InvokeSteps ==
  ASSUME EngineTypes, ShapeInv, NEW k \in Keys, NEW a \in SlotResults \cup {Unset},
         InvokesWith(k, a)
  PROVE  /\ Quiet(k) /\ exec'[k].phase = "slot" /\ exec'[k].answer = a
         /\ a = "failed" => ~ Unfailed(exec'[k])
         /\ \/ Unfailed(exec[k])
            \/ /\ Len(exec[k].visits) = 0 /\ exec[k].slot = Primary
<1> DEFINE x == exec[k]
           y == Waiting(x, a)
<1>1. /\ x \in Executions /\ Shaped(x) /\ x.phase = "invoke" /\ x.phase \in Going
  BY DEF InvokesWith, EngineTypes, ShapeInv, Going, Deciding
<1>2. /\ y \in Executions /\ Shaped(y)
      /\ y.phase = "slot" /\ y.answer = a /\ y.status = x.status
      /\ y.visits = Append(x.visits, x.slot)
  BY <1>1, Visits
<1>3. exec' = [exec EXCEPT ![k] = y]
  BY DEF InvokesWith
<1>4. exec'[k] = y
  BY <1>3, Moved
<1> HIDE DEF y
<1>5. MovesTo(k, y) /\ y.phase \in Going
  BY <1>2, <1>3 DEF MovesTo, Going, Visiting
<1>6. <<"slot.started">> \in Seq(ProgressEvents)
  BY DEF ProgressEvents
<1>7. Quiet(k)
  BY <1>1, <1>5, <1>6 DEF InvokesWith, Quiet, EmitsProgress
<1>8. x.status = Unset /\ Unset # "failed"
  BY <1>1, RequestAssumption DEF Shaped, Leaving, Statuses
<1>9. CASE x.visits # <<>>
  BY <1>1, <1>2, <1>4, <1>7, <1>8, <1>9 DEF Unfailed
<1>10. CASE x.visits = <<>>
  <2>1. Len(x.visits) = 0 /\ 0 % 2 = 0
    BY <1>10
  <2>2. x.slot = Primary
    BY <1>1, <2>1 DEF Shaped, Deciding, AtPrimary
  <2> QED
    BY <1>2, <1>4, <1>7, <2>1, <2>2 DEF Unfailed
<1> QED
  BY <1>9, <1>10

LEMMA FinishSteps ==
  ASSUME EngineTypes, ShapeInv, FlowInv, NEW k \in Keys, FinishSlot(k)
  PROVE  /\ Quiet(k) /\ exec'[k].phase = "slot"
         /\ Unfailed(exec'[k]) => Unfailed(exec[k])
<1> DEFINE x == exec[k]
<1>1. /\ x \in Executions /\ Shaped(x) /\ x.phase = "slot" /\ x.answer = Unset
      /\ x.phase \in Going
  BY DEF FinishSlot, EngineTypes, ShapeInv, FlowInv, Going, Visiting
<1>2. PICK a \in SlotStatuses : exec' = [exec EXCEPT ![k].answer = a]
  BY DEF FinishSlot
<1>3. a \in SlotResults
  BY ParameterAssumption
<1> DEFINE y == [x EXCEPT !.answer = a]
<1>4. /\ y \in Executions /\ Shaped(y) /\ y.answer = a
      /\ y.phase = x.phase /\ y.visits = x.visits /\ y.status = x.status
  BY <1>1, <1>3, SlotAnswers
<1>5. exec' = [exec EXCEPT ![k] = y]
  BY <1>2
<1>6. exec'[k] = y
  BY <1>5, Moved
<1> HIDE DEF y
<1>7. MovesTo(k, y)
  BY <1>4, <1>5 DEF MovesTo
<1>8. Unset # "failed"
  BY RequestAssumption DEF Statuses
<1> QED
  BY <1>1, <1>4, <1>6, <1>7, <1>8 DEF FinishSlot, Quiet, EmitsProgress, Unfailed

(* The last step of an execution.                                            *)
LEMMA EndSteps ==
  ASSUME EngineTypes, ShapeInv, NEW k \in Keys, EndScenario(k)
  PROVE  /\ \E y : MovesTo(k, y)
         /\ exec[k].phase = "ending" /\ exec'[k].phase = "ended"
         /\ exec'[k].status = exec[k].status /\ exec[k].status \in Statuses
         /\ Unfailed(exec'[k]) => Unfailed(exec[k])
<1> DEFINE x == exec[k]
           y == [x EXCEPT !.phase = "ended"]
<1>1. x \in Executions /\ Shaped(x) /\ x.phase = "ending" /\ "ended" \in ScenarioPhases
  BY DEF EndScenario, At, EngineTypes, ShapeInv, ScenarioPhases
<1>2. y \in Executions /\ Shaped(y)
  BY <1>1, GoesOn
<1>3. y.phase = "ended" /\ y.status = x.status /\ y.visits = x.visits
  BY <1>1 DEF Executions
<1>4. exec' = [exec EXCEPT ![k] = y]
  BY DEF EndScenario, Goto
<1>5. exec'[k] = y
  BY <1>4, Moved
<1> HIDE DEF y
<1>6. MovesTo(k, y)
  BY <1>2, <1>4 DEF MovesTo
<1>7. x.status \in Statuses
  BY <1>1 DEF Executions, Shaped, Leaving
<1> QED
  BY <1>1, <1>3, <1>5, <1>6, <1>7 DEF Unfailed

(* Every step of an execution is one of these.                               *)
LEMMA StepKinds ==
  ASSUME EngineTypes, ShapeInv, FlowInv, NEW k \in Keys, Step(k)
  PROVE  \/ Quiet(k) /\ Unsent(k)
         \/ Quiet(k) /\ RefuseSlot(k)
         \/ Quiet(k) /\ InvokeSlot(k)
         \/ Quiet(k) /\ FinishSlot(k)
         \/ EndScenario(k)
<1>1. CASE StartOverlays(k) \/ SlotOverlays(k)
  BY <1>1, OverlaySteps
<1>2. CASE \/ ExhaustSlots(k) \/ FailSlot(k) \/ ExhaustRoutes(k) \/ MissBindingSource(k)
           \/ ExhaustBindings(k) \/ FailClosed(k)
  BY <1>2, FailingSteps
<1>3. CASE RefuseSlot(k)
  <2>1. InvokesWith(k, Refusal) /\ Refusal \in SlotResults
    BY <1>3 DEF RefuseSlot, InvokesWith, At, Refusal, SlotResults
  <2> QED
    BY <1>3, <2>1, InvokeSteps
<1>4. CASE InvokeSlot(k)
  <2>1. InvokesWith(k, Unset)
    BY <1>4 DEF InvokeSlot, InvokesWith, At
  <2> QED
    BY <1>4, <2>1, InvokeSteps
<1>5. CASE FinishSlot(k)
  BY <1>5, FinishSteps
<1>6. CASE ResumeWithSlot(k) \/ ProjectOutcome(k) \/ SelectRoute(k) \/ RouteOverlays(k)
  BY <1>6, ResumeSteps, ProjectSteps, SelectSteps, RouteOverlaySteps
<1>7. CASE CallSupporting(k) \/ ResumeCaller(k) \/ Terminate(k) \/ RequestHandoff(k)
  BY <1>7, CallSteps, ReturnSteps, EndingSteps
<1>8. CASE EndScenario(k)
  BY <1>8
<1> QED
  BY <1>1, <1>2, <1>3, <1>4, <1>5, <1>6, <1>7, <1>8 DEF Step

(* A step of one execution leaves the others, and what they are bound to.    *)
LEMMA StepsAreOwn ==
  ASSUME EngineTypes, ShapeInv, FlowInv, NEW k \in Keys, Step(k)
  PROVE  /\ \E y : MovesTo(k, y)
         /\ \A j \in Keys \ {k} : exec'[j] = exec[j]
         /\ UNCHANGED <<ledger, caller>>
         /\ exec[k].phase \notin {"idle", "ended"} /\ exec'[k].phase # "idle"
<1>1. CASE Quiet(k)
  BY <1>1, Moved DEF Quiet, MovesTo, Going, Deciding, Visiting
<1>2. CASE EndScenario(k)
  BY <1>2, EndSteps, Moved DEF EndScenario, MovesTo
<1> QED
  BY <1>1, <1>2, StepKinds

-----------------------------------------------------------------------------
(* The start of an execution.                                                *)
LEMMA StartFacts ==
  ASSUME EngineTypes, ShapeInv, FlowInv, NEW c \in Callers, NEW q \in Requests,
         StartScenario(c, q)
  PROVE  LET k == KeyOf[q] IN
         /\ k \in Keys /\ RunOf[q] \in RunIds /\ q # Unset /\ ledger[k] = Unset
         /\ \E y : MovesTo(k, y)
         /\ \A j \in Keys \ {k} : exec'[j] = exec[j] /\ ledger'[j] = ledger[j]
         /\ ledger'[k] = q /\ exec[k].phase = "idle" /\ exec'[k].phase = "start"
         /\ exec'[k].visits = exec[k].visits /\ exec'[k].status = exec[k].status
         /\ exec'[k].answer = exec[k].answer
         /\ traces' = [traces EXCEPT ![RunOf[q]] = Append(@, "started")]
<1> DEFINE k == KeyOf[q]
           y == [exec[k] EXCEPT !.phase = "start"]
<1>1. k \in Keys /\ RunOf[q] \in RunIds /\ q # Unset
  BY RequestAssumption DEF RunIds
<1>2. /\ ledger[k] = Unset /\ exec[k].phase = "idle"
      /\ exec[k] \in Executions /\ Shaped(exec[k])
  BY <1>1 DEF StartScenario, FlowInv, ShapeInv, EngineTypes
<1>3. exec' = [exec EXCEPT ![k] = y]
  BY DEF StartScenario
<1>4. "start" \in ScenarioPhases /\ "start" \in Deciding \ {"idle"} /\ "idle" \in Deciding
  BY DEF ScenarioPhases, Deciding
<1>5. y \in Executions /\ Shaped(y)
  BY <1>2, <1>4, GoesOn
<1>6. /\ y.phase = "start" /\ y.visits = exec[k].visits /\ y.status = exec[k].status
      /\ y.answer = exec[k].answer
  BY <1>2 DEF Executions
<1> HIDE DEF y
<1>7. exec'[k] = y /\ \A j \in Keys \ {k} : exec'[j] = exec[j]
  BY <1>1, <1>3, Moved
<1>8. ledger'[k] = q /\ \A j \in Keys \ {k} : ledger'[j] = ledger[j]
  BY <1>1 DEF StartScenario, EngineTypes
<1>9. MovesTo(k, y)
  BY <1>3, <1>5 DEF MovesTo
<1> QED
  BY <1>1, <1>2, <1>6, <1>7, <1>8, <1>9 DEF StartScenario

(* A caller asks, or is answered: nothing changes but what it was told.      *)
Tells(c) ==
  /\ caller[c].request = Unset \/ caller[c].answer = Unset
  /\ UNCHANGED <<turn, exec, ledger, results, traces, audits, active, invoked>>

LEMMA NextKinds ==
  ASSUME [ScenarioNext]_scenarioVars
  PROVE  \/ \E c \in Callers : Tells(c) /\ ((\E q \in Requests : ConflictScenario(c, q)
                                                               \/ JoinScenario(c, q))
                                            \/ AnswerCaller(c))
         \/ \E c \in Callers, q \in Requests : StartScenario(c, q)
         \/ \E k \in Keys : Step(k)
         \/ UNCHANGED scenarioVars
<1>1. CASE ScenarioNext
  <2>1. ASSUME NEW c \in Callers, NEW q \in Requests,
               ConflictScenario(c, q) \/ JoinScenario(c, q)
        PROVE  Tells(c)
    BY <2>1 DEF ConflictScenario, JoinScenario, MayRun, Tells
  <2>2. ASSUME NEW c \in Callers, AnswerCaller(c) PROVE Tells(c)
    BY <2>2 DEF AnswerCaller, Tells
  <2> QED
    BY <1>1, <2>1, <2>2 DEF ScenarioNext, Ask
<1> QED
  BY <1>1

LEMMA TypesKept ==
  ASSUME EngineTypes, ShapeInv, FlowInv, [ScenarioNext]_scenarioVars
  PROVE  EngineTypes' /\ ShapeInv'
<1>1. ASSUME NEW k \in Keys, \E y : MovesTo(k, y)
      PROVE  exec' \in [Keys -> Executions] /\ ShapeInv'
  BY <1>1, Moved DEF EngineTypes, ShapeInv, MovesTo
<1> DEFINE Told == Statuses \cup {Unset, "conflict"}
           CallerTypes == [request : Requests \cup {Unset}, answer : Told]
<1>2. ASSUME NEW c \in Callers, NEW q \in Requests, NEW a \in Told, Asked(c, q, a)
      PROVE  caller' \in [Callers -> CallerTypes]
  BY <1>2 DEF Asked, EngineTypes
<1>3. CASE \E c \in Callers : Tells(c) /\ ((\E q \in Requests : ConflictScenario(c, q)
                                                             \/ JoinScenario(c, q))
                                           \/ AnswerCaller(c))
  <2>1. PICK c \in Callers : Tells(c) /\ ((\E q \in Requests : ConflictScenario(c, q)
                                                             \/ JoinScenario(c, q))
                                          \/ AnswerCaller(c))
    BY <1>3
  <2>2. caller' \in [Callers -> CallerTypes]
    <3>1. CASE \E q \in Requests : ConflictScenario(c, q) \/ JoinScenario(c, q)
      BY <1>2, <3>1 DEF ConflictScenario, JoinScenario
    <3>2. CASE AnswerCaller(c)
      <4>1. results[KeyOf[caller[c].request]] \in Statuses
        <5>1. caller[c].request \in Requests
          BY <3>2 DEF AnswerCaller, EngineTypes
        <5> QED
          BY <3>2, <5>1, RequestAssumption DEF AnswerCaller, EngineTypes
      <4> DEFINE a == results[KeyOf[caller[c].request]]
      <4>2. caller' = [caller EXCEPT ![c].answer = a]
        BY <3>2 DEF AnswerCaller
      <4>3. a \in Told
        BY <4>1
      <4> HIDE DEF a
      <4> QED
        BY <4>2, <4>3 DEF EngineTypes
    <3> QED
      BY <2>1, <3>1, <3>2
  <2> QED
    BY <2>1, <2>2 DEF Tells, EngineTypes, ShapeInv
<1>4. CASE \E c \in Callers, q \in Requests : StartScenario(c, q)
  <2>1. PICK c \in Callers, q \in Requests : StartScenario(c, q)
    BY <1>4
  <2>2. /\ KeyOf[q] \in Keys /\ RunOf[q] \in RunIds /\ \E y : MovesTo(KeyOf[q], y)
        /\ traces' = [traces EXCEPT ![RunOf[q]] = Append(@, "started")]
    BY <2>1, StartFacts
  <2>3. exec' \in [Keys -> Executions] /\ ShapeInv'
    BY <1>1, <2>2
  <2>4. caller' \in [Callers -> CallerTypes]
    BY <1>2, <2>1 DEF StartScenario
  <2>5. traces' \in [RunIds -> Seq(Events)]
    <3>1. "started" \in Events
      BY DEF Events, ProgressEvents
    <3>2. Append(traces[RunOf[q]], "started") \in Seq(Events)
      BY <2>2, <3>1 DEF EngineTypes
    <3> QED
      BY <2>2, <3>2 DEF EngineTypes
  <2> QED
    BY <2>1, <2>2, <2>3, <2>4, <2>5 DEF StartScenario, EngineTypes
<1>5. CASE \E k \in Keys : Step(k)
  <2>1. PICK k \in Keys : Step(k)
    BY <1>5
  <2>2. exec' \in [Keys -> Executions] /\ ShapeInv' /\ UNCHANGED <<ledger, caller>>
        /\ exec[k].phase # "idle"
    BY <1>1, <2>1, StepsAreOwn
  <2>3. RunIdOf(k) \in RunIds
    BY <2>2 DEF RunIdOf, RunIds, FlowInv, EngineTypes
  <2>4. turn' \in Keys \cup {Nobody} /\ active' \in Keys \cup {Nobody}
    BY <2>1 DEF Step, EngineTypes, StartOverlays, SlotOverlays, ExhaustSlots, RefuseSlot,
       InvokeSlot, FinishSlot, FailSlot, ResumeWithSlot, ProjectOutcome, ExhaustRoutes,
       SelectRoute, RouteOverlays, CallSupporting, ResumeCaller, MissBindingSource,
       ExhaustBindings, Terminate, RequestHandoff, FailClosed, EndScenario
  <2>5. ASSUME NEW e \in Seq(Events), EmitAll(k, e)
        PROVE  traces' \in [RunIds -> Seq(Events)]
    <3>1. traces[RunIdOf(k)] \o e \in Seq(Events)
      BY <2>3, <2>5 DEF EngineTypes
    <3> QED
      BY <2>3, <2>5, <3>1 DEF EmitAll, EngineTypes
  <2>6. CASE Quiet(k)
    <3>1. traces' \in [RunIds -> Seq(Events)]
      <4>1. ASSUME NEW e \in Seq(ProgressEvents) PROVE e \in Seq(Events)
        BY <4>1 DEF Events
      <4> QED
        BY <2>5, <2>6, <4>1 DEF Quiet, EmitsProgress, EngineTypes
    <3> QED
      BY <2>2, <2>4, <2>6, <3>1 DEF Quiet, EngineTypes
  <2>7. CASE EndScenario(k)
    <3>1. exec[k].status \in Statuses
      BY <2>7, EndSteps
    <3>2. TerminalEvent(exec[k].status) \in Events
      BY <3>1 DEF TerminalEvent, Statuses, Events, Terminals
    <3>3. traces' \in [RunIds -> Seq(Events)]
      <4>1. <<TerminalEvent(exec[k].status)>> \in Seq(Events)
        BY <3>2
      <4> QED
        BY <2>5, <2>7, <4>1 DEF EndScenario
    <3>4. /\ results' \in [Keys -> Statuses \cup {Unset}]
          /\ audits' \in [RunIds -> Statuses \cup {Unset}]
      BY <2>3, <2>7, <3>1 DEF EndScenario, EngineTypes
    <3> QED
      BY <2>2, <2>4, <3>3, <3>4 DEF EngineTypes
  <2> QED
    BY <2>1, <2>6, <2>7, StepKinds
<1>6. CASE UNCHANGED scenarioVars
  BY <1>6 DEF scenarioVars, EngineTypes, ShapeInv
<1> QED
  BY <1>3, <1>4, <1>5, <1>6, NextKinds

LEMMA FlowKept ==
  ASSUME EngineTypes, ShapeInv, FlowInv, [ScenarioNext]_scenarioVars
  PROVE  FlowInv'
<1>1. CASE \E c \in Callers : Tells(c)
  BY <1>1 DEF Tells, FlowInv
<1>2. CASE \E c \in Callers, q \in Requests : StartScenario(c, q)
  <2>1. PICK c \in Callers, q \in Requests : StartScenario(c, q)
    BY <1>2
  <2> DEFINE k == KeyOf[q]
  <2>2. /\ k \in Keys /\ q # Unset /\ ledger'[k] = q /\ exec'[k].phase = "start"
        /\ exec[k].phase = "idle"
        /\ \A j \in Keys \ {k} : exec'[j] = exec[j] /\ ledger'[j] = ledger[j]
    BY <2>1, StartFacts
  <2>3. results' = results /\ active' = active
    BY <2>1 DEF StartScenario
  <2> HIDE DEF k
  <2> QED
    BY <2>2, <2>3 DEF FlowInv
<1>3. CASE \E k \in Keys : Step(k)
  <2>1. PICK k \in Keys : Step(k)
    BY <1>3
  <2>2. /\ \A j \in Keys \ {k} : exec'[j] = exec[j]
        /\ UNCHANGED ledger
        /\ exec[k].phase \notin {"idle", "ended"} /\ exec'[k].phase # "idle"
    BY <2>1, StepsAreOwn
  <2>3. \A j \in Keys : (ledger[j] = Unset <=> exec[j].phase = "idle")'
    BY <2>2 DEF FlowInv
  <2>4. \A j \in Keys :
          (results[j] = IF exec[j].phase = "ended" THEN exec[j].status ELSE Unset)'
    <3>1. CASE Quiet(k)
      <4>1. exec'[k].phase # "ended" /\ results' = results
        BY <3>1, Moved DEF Quiet, MovesTo, Going, Deciding, Visiting
      <4> QED
        BY <2>2, <4>1 DEF FlowInv
    <3>2. CASE EndScenario(k)
      <4>1. exec'[k].phase = "ended" /\ exec'[k].status = exec[k].status
        BY <3>2, EndSteps
      <4>2. results'[k] = exec[k].status /\ \A j \in Keys \ {k} : results'[j] = results[j]
        BY <3>2 DEF EndScenario, EngineTypes
      <4> QED
        BY <2>2, <4>1, <4>2 DEF FlowInv
    <3> QED
      BY <2>1, <3>1, <3>2, StepKinds
  <2>5. \A j \in Keys : (active = j => exec[j].phase = "slot" /\ exec[j].answer = Unset)'
    <3>1. CASE Unsent(k) \/ RefuseSlot(k) \/ EndScenario(k)
      <4>1. active' = active
        BY <3>1 DEF Unsent, RefuseSlot, EndScenario
      <4>2. active # k
        <5>1. exec[k].phase # "slot" \/ exec[k].answer # Unset
          BY <3>1 DEF Unsent, RefuseSlot, EndScenario, At
        <5> QED
          BY <5>1 DEF FlowInv
      <4> QED
        BY <2>2, <4>1, <4>2 DEF FlowInv
    <3>2. CASE InvokeSlot(k)
      <4>1. InvokesWith(k, Unset) /\ active' = k
        BY <3>2 DEF InvokeSlot, InvokesWith, At
      <4>2. exec'[k].phase = "slot" /\ exec'[k].answer = Unset
        BY <4>1, InvokeSteps
      <4> QED
        BY <4>1, <4>2
    <3>3. CASE FinishSlot(k)
      BY <3>3, RequestAssumption DEF FinishSlot
    <3> QED
      BY <2>1, <3>1, <3>2, <3>3, StepKinds
  <2> QED
    BY <2>3, <2>4, <2>5 DEF FlowInv
<1>4. CASE UNCHANGED scenarioVars
  BY <1>4 DEF scenarioVars, FlowInv
<1> QED
  BY <1>1, <1>2, <1>3, <1>4, NextKinds

LEMMA CallersKept ==
  ASSUME EngineTypes, ShapeInv, FlowInv, CallerInv, [ScenarioNext]_scenarioVars
  PROVE  CallerInv'
<1> DEFINE Waits(c) ==
      /\ caller[c].request = Unset => caller[c].answer = Unset
      /\ caller[c].request # Unset /\ caller[c].answer = Unset =>
           BoundTo(caller[c].request)
<1>1. \A c \in Callers : Waits(c)
  BY DEF CallerInv
<1>2. ASSUME NEW c \in Callers, NEW q \in Requests, NEW a, Asked(c, q, a),
             a = Unset => ledger'[KeyOf[q]] = q,
             \A r \in Requests : BoundTo(r) => ledger'[KeyOf[r]] = r
      PROVE  CallerInv'
  <2>1. /\ caller'[c] = [request |-> q, answer |-> a]
        /\ \A d \in Callers \ {c} : caller'[d] = caller[d]
    BY <1>2 DEF Asked, EngineTypes
  <2>2. ASSUME NEW d \in Callers PROVE Waits(d)'
    <3>1. CASE d = c
      <4>1. q # Unset
        BY RequestAssumption
      <4> QED
        BY <1>2, <2>1, <3>1, <4>1 DEF BoundTo
    <3>2. CASE d # c
      <4>1. caller'[d] = caller[d] /\ caller[d].request \in Requests \cup {Unset}
        BY <2>1, <3>2 DEF EngineTypes
      <4> QED
        BY <1>1, <1>2, <4>1 DEF BoundTo
    <3> QED
      BY <3>1, <3>2
  <2> QED
    BY <2>2 DEF CallerInv
<1>3. CASE \E c \in Callers, q \in Requests : ConflictScenario(c, q)
  <2>1. PICK c \in Callers, q \in Requests : ConflictScenario(c, q)
    BY <1>3
  <2>2. Asked(c, q, "conflict") /\ "conflict" # Unset /\ ledger' = ledger
    BY <2>1, RequestAssumption DEF ConflictScenario
  <2> QED
    BY <1>2, <2>2 DEF BoundTo
<1>4. CASE \E c \in Callers, q \in Requests : JoinScenario(c, q)
  BY <1>2, <1>4 DEF JoinScenario, BoundTo
<1>5. CASE \E c \in Callers, q \in Requests : StartScenario(c, q)
  <2>1. PICK c \in Callers, q \in Requests : StartScenario(c, q)
    BY <1>5
  <2>2. /\ q # Unset /\ ledger[KeyOf[q]] = Unset /\ ledger'[KeyOf[q]] = q
        /\ \A j \in Keys \ {KeyOf[q]} : ledger'[j] = ledger[j]
    BY <2>1, StartFacts
  <2>3. Asked(c, q, Unset)
    BY <2>1 DEF StartScenario
  <2>4. ASSUME NEW r \in Requests, BoundTo(r) PROVE ledger'[KeyOf[r]] = r
    <3>1. r # Unset /\ KeyOf[r] \in Keys
      BY RequestAssumption
    <3> QED
      BY <2>2, <2>4, <3>1 DEF BoundTo
  <2> QED
    BY <1>2, <2>2, <2>3, <2>4
<1>6. CASE \E c \in Callers : AnswerCaller(c)
  <2>1. PICK c \in Callers : AnswerCaller(c)
    BY <1>6
  <2> DEFINE a == results[KeyOf[caller[c].request]]
  <2>2. a # Unset /\ caller[c].request # Unset /\ ledger' = ledger
        /\ caller' = [caller EXCEPT ![c].answer = a]
    BY <2>1 DEF AnswerCaller
  <2> HIDE DEF a
  <2>3. /\ caller'[c].answer = a /\ caller'[c].request = caller[c].request
        /\ \A d \in Callers \ {c} : caller'[d] = caller[d]
    BY <2>2 DEF EngineTypes
  <2> QED
    BY <1>1, <2>2, <2>3 DEF CallerInv, BoundTo
<1>7. CASE \E k \in Keys : Step(k)
  BY <1>7, StepsAreOwn DEF CallerInv, BoundTo
<1>8. CASE UNCHANGED scenarioVars
  BY <1>8 DEF scenarioVars, CallerInv, BoundTo
<1> QED
  BY <1>3, <1>4, <1>5, <1>6, <1>7, <1>8, NextKinds

(* What the adapter is told of an invocation it has no owner of.             *)
LEMMA KnownKept ==
  ASSUME InvokedInv, NEW k \in Keys, ~ Conflicts(k), Known(k)
  PROVE  \A i, j \in invoked' : i.key = j.key => i.owner = j.owner
<1> DEFINE n == InvocationKey(k)
           m == [key |-> n, owner |-> k]
<1>1. \A i \in invoked : i.key = n => i.owner = k
  BY DEF Conflicts
<1>2. invoked' = invoked \cup {m}
  BY DEF Known
<1>3. m.key = n /\ m.owner = k
  OBVIOUS
<1> HIDE DEF n, m
<1> QED
  BY <1>1, <1>2, <1>3 DEF InvokedInv

LEMMA InvokedKept ==
  ASSUME EngineTypes, ShapeInv, FlowInv, InvokedInv, [ScenarioNext]_scenarioVars
  PROVE  InvokedInv'
<1> DEFINE Brought(k) == [key |-> FirstKey(k), owner |-> k] \in invoked
<1>1. CASE \E c \in Callers : Tells(c)
  BY <1>1 DEF Tells, InvokedInv, FirstKey, RunIdOf
<1>2. CASE \E c \in Callers, q \in Requests : StartScenario(c, q)
  <2>1. PICK c \in Callers, q \in Requests : StartScenario(c, q)
    BY <1>2
  <2> DEFINE k == KeyOf[q]
  <2>2. /\ k \in Keys /\ exec[k].phase = "idle" /\ ledger[k] = Unset
        /\ exec'[k].visits = exec[k].visits /\ exec'[k].status = exec[k].status
        /\ \A j \in Keys \ {k} : exec'[j] = exec[j] /\ ledger'[j] = ledger[j]
    BY <2>1, StartFacts
  <2>3. invoked' = invoked
    BY <2>1 DEF StartScenario
  <2>4. exec[k].visits = <<>>
    BY <2>2 DEF ShapeInv, Shaped
  <2> HIDE DEF k
  <2>5. ASSUME NEW j \in Keys, Unfailed(exec'[j]) PROVE Brought(j)'
    <3>1. j # k
      BY <2>2, <2>4, <2>5 DEF Unfailed
    <3>2. exec'[j] = exec[j] /\ ledger'[j] = ledger[j]
      BY <2>2, <3>1
    <3> QED
      BY <2>3, <2>5, <3>2 DEF InvokedInv, FirstKey, RunIdOf
  <2> QED
    BY <2>3, <2>5 DEF InvokedInv
<1>3. CASE \E k \in Keys : Step(k)
  <2>1. PICK k \in Keys : Step(k)
    BY <1>3
  <2>2. /\ \A j \in Keys \ {k} : exec'[j] = exec[j]
        /\ UNCHANGED ledger
    BY <2>1, StepsAreOwn
  <2>3. ASSUME invoked \subseteq invoked', Unfailed(exec'[k]) => Brought(k)'
        PROVE  \A j \in Keys : Unfailed(exec'[j]) => Brought(j)'
    <3>1. ASSUME NEW j \in Keys, j # k, Unfailed(exec'[j]) PROVE Brought(j)'
      BY <2>2, <2>3, <3>1 DEF InvokedInv, FirstKey, RunIdOf
    <3> QED
      BY <2>3, <3>1
  <2>4. CASE Unsent(k) \/ FinishSlot(k) \/ EndScenario(k)
    <3>1. invoked' = invoked
      BY <2>4 DEF Unsent, FinishSlot, EndScenario
    <3>2. Unfailed(exec'[k]) => Unfailed(exec[k])
      BY <2>4, FinishSteps, EndSteps DEF Unsent
    <3>3. Unfailed(exec'[k]) => Brought(k)'
      BY <2>2, <3>1, <3>2 DEF InvokedInv, FirstKey, RunIdOf
    <3> QED
      BY <2>3, <3>1, <3>3 DEF InvokedInv
  <2>5. CASE RefuseSlot(k)
    <3>1. ~ Unfailed(exec'[k])
      <4>1. InvokesWith(k, Refusal) /\ Refusal \in SlotResults /\ Refusal = "failed"
        BY <2>5 DEF RefuseSlot, InvokesWith, At, Refusal, SlotResults
      <4> QED
        BY <4>1, InvokeSteps
    <3>2. \A i, j \in invoked' : i.key = j.key => i.owner = j.owner
      BY <2>5, KnownKept DEF RefuseSlot, InvokedInv
    <3>3. invoked \subseteq invoked'
      BY <2>5 DEF RefuseSlot, Known
    <3> QED
      BY <2>3, <3>1, <3>2, <3>3 DEF InvokedInv
  <2>6. CASE InvokeSlot(k)
    <3>1. InvokesWith(k, Unset)
      BY <2>6 DEF InvokeSlot, InvokesWith, At
    <3>2. \/ Unfailed(exec[k])
          \/ Len(exec[k].visits) = 0 /\ exec[k].slot = Primary
      BY <3>1, InvokeSteps
    <3>3. invoked' = invoked \cup {[key |-> InvocationKey(k), owner |-> k]}
      BY <2>6 DEF InvokeSlot, Known
    <3>4. Brought(k)'
      <4>1. FirstKey(k)' = FirstKey(k)
        BY <2>2 DEF FirstKey, RunIdOf
      <4>2. CASE Unfailed(exec[k])
        BY <3>3, <4>1, <4>2 DEF InvokedInv
      <4>3. CASE Len(exec[k].visits) = 0 /\ exec[k].slot = Primary
        <5>1. InvocationKey(k) = FirstKey(k)
          BY <4>3 DEF InvocationKey, FirstKey
        <5> QED
          BY <3>3, <4>1, <5>1
      <4> QED
        BY <3>2, <4>2, <4>3
    <3>5. \A i, j \in invoked' : i.key = j.key => i.owner = j.owner
      BY <2>6, KnownKept DEF InvokeSlot
    <3> QED
      BY <2>3, <3>3, <3>4, <3>5 DEF InvokedInv
  <2> QED
    BY <2>1, <2>4, <2>5, <2>6, StepKinds
<1>4. CASE UNCHANGED scenarioVars
  BY <1>4 DEF scenarioVars, InvokedInv, FirstKey, RunIdOf
<1> QED
  BY <1>1, <1>2, <1>3, <1>4, NextKinds

-----------------------------------------------------------------------------
(* Traces: what a run's events say when progress is added, and at the end.   *)
LEMMA ProgressEndsNothing ==
  ASSUME NEW t \in Seq(Events), NoTerminal(t), NEW e \in Seq(ProgressEvents)
  PROVE  NoTerminal(t \o e)
<1>1. ProgressEvents \cap Terminals = {}
  BY DEF ProgressEvents, Terminals
<1>2. e \in Seq(Events)
  BY DEF Events
<1>3. ASSUME NEW i \in 1 .. Len(t \o e) PROVE (t \o e)[i] \notin Terminals
  <2>1. Len(t \o e) = Len(t) + Len(e) /\ Len(t) \in Nat /\ Len(e) \in Nat
    BY <1>2
  <2>2. CASE i \in 1 .. Len(t)
    <3>1. (t \o e)[i] = t[i]
      BY <1>2, <2>2
    <3> QED
      BY <2>2, <3>1 DEF NoTerminal
  <2>3. CASE i \notin 1 .. Len(t)
    <3>1. i - Len(t) \in 1 .. Len(e)
      BY <1>3, <2>1, <2>3
    <3>2. (t \o e)[i] = e[i - Len(t)]
      BY <1>2, <1>3, <2>1, <2>3
    <3>3. e[i - Len(t)] \in ProgressEvents
      BY <3>1
    <3> QED
      BY <1>1, <3>2, <3>3
  <2> QED
    BY <2>2, <2>3
<1> QED
  BY <1>3 DEF NoTerminal

LEMMA TerminalEnds ==
  ASSUME NEW t \in Seq(Events), NoTerminal(t), NEW e \in Terminals
  PROVE  EndsWith(t \o <<e>>, e)
<1> DEFINE u == t \o <<e>>
           n == Len(t)
<1>1. e \in Events
  BY DEF Events
<1>2. /\ n \in Nat /\ Len(u) = n + 1 /\ u[n + 1] = e /\ u # <<>> /\ DOMAIN u = 1 .. n + 1
      /\ \A i \in 1 .. n : u[i] = t[i]
  BY <1>1
<1> HIDE DEF u
<1>3. \A i \in 1 .. n : u[i] \notin Terminals
  BY <1>2 DEF NoTerminal
<1>4. {i \in DOMAIN u : u[i] \in Terminals} = {n + 1}
  BY <1>2, <1>3
<1> QED
  BY <1>2, <1>4 DEF EndsWith, u

(* A step tells of its own run only.                                         *)
LEMMA StepsTellOwnRun ==
  ASSUME EngineTypes, ShapeInv, FlowInv, NEW k \in Keys, Step(k), NEW r \in RunIds,
         r # RunIdOf(k)
  PROVE  traces'[r] = traces[r] /\ audits'[r] = audits[r]
<1>1. CASE Quiet(k)
  BY <1>1 DEF Quiet, EmitsProgress, EmitAll, EngineTypes
<1>2. CASE EndScenario(k)
  BY <1>2 DEF EndScenario, EmitAll, EngineTypes
<1> QED
  BY <1>1, <1>2, StepKinds

Silent(r) == (\A k \in Keys : ledger[k] # Unset => RunIdOf(k) # r) => traces[r] = <<>>
Agrees(k) ==
  ledger[k] # Unset /\ OwnRun(k) =>
    IF results[k] = Unset THEN NoTerminal(traces[RunIdOf(k)])
    ELSE /\ audits[RunIdOf(k)] = results[k]
         /\ EndsWith(traces[RunIdOf(k)], TerminalEvent(results[k]))

LEMMA ReportsKept ==
  ASSUME EngineTypes, ShapeInv, FlowInv, ReportInv, [ScenarioNext]_scenarioVars
  PROVE  ReportInv'
<1>0. (\A r \in RunIds : Silent(r)) /\ (\A k \in Keys : Agrees(k))
  BY DEF ReportInv, Silent, Agrees
<1>a. SUFFICES (\A r \in RunIds : Silent(r)') /\ (\A k \in Keys : Agrees(k)')
  BY DEF ReportInv, Silent, Agrees
<1>1. CASE \E c \in Callers : Tells(c)
  BY <1>0, <1>1 DEF Tells, Silent, Agrees, OwnRun, RunIdOf
<1>2. CASE \E c \in Callers, q \in Requests : StartScenario(c, q)
  <2>1. PICK c \in Callers, q \in Requests : StartScenario(c, q)
    BY <1>2
  <2> DEFINE k == KeyOf[q]
  <2>2. /\ k \in Keys /\ RunOf[q] \in RunIds /\ q # Unset /\ ledger[k] = Unset
        /\ \A j \in Keys \ {k} : ledger'[j] = ledger[j]
        /\ ledger'[k] = q /\ exec[k].phase = "idle"
        /\ traces' = [traces EXCEPT ![RunOf[q]] = Append(@, "started")]
    BY <2>1, StartFacts
  <2>3. results' = results /\ audits' = audits /\ results[k] = Unset
    <3>1. results[k] = Unset
      BY <2>2 DEF FlowInv
    <3> QED
      BY <2>1, <3>1 DEF StartScenario
  <2> HIDE DEF k
  <2>4. /\ traces'[RunOf[q]] = Append(traces[RunOf[q]], "started")
        /\ \A r \in RunIds \ {RunOf[q]} : traces'[r] = traces[r]
    BY <2>2 DEF EngineTypes
  <2>5. RunIdOf(k)' = RunOf[q] /\ \A j \in Keys \ {k} : RunIdOf(j)' = RunIdOf(j)
    BY <2>2 DEF RunIdOf
  <2>6. ASSUME NEW r \in RunIds PROVE Silent(r)'
    <3>1. CASE r = RunOf[q]
      BY <2>2, <2>5, <3>1 DEF Silent
    <3>2. CASE r # RunOf[q]
      <4>1. traces'[r] = traces[r]
        BY <2>4, <3>2
      <4>2. ASSUME \A j \in Keys : ledger'[j] # Unset => RunIdOf(j)' # r
            PROVE  \A j \in Keys : ledger[j] # Unset => RunIdOf(j) # r
        BY <2>2, <2>5, <4>2
      <4> QED
        BY <1>0, <4>1, <4>2 DEF Silent
    <3> QED
      BY <3>1, <3>2
  <2>7. ASSUME NEW j \in Keys PROVE Agrees(j)'
    <3>1. CASE j = k
      <4>1. ASSUME OwnRun(k)' PROVE NoTerminal(traces'[RunOf[q]])
        <5>1. \A i \in Keys : ledger[i] # Unset => RunIdOf(i) # RunOf[q]
          BY <2>2, <2>5, <4>1 DEF OwnRun
        <5>2. traces[RunOf[q]] = <<>>
          BY <1>0, <2>2, <5>1 DEF Silent
        <5>3. traces'[RunOf[q]] = <<"started">>
          BY <2>4, <5>2
        <5> QED
          BY <5>3 DEF NoTerminal, Terminals
      <4> QED
        BY <2>3, <2>5, <3>1, <4>1 DEF Agrees
    <3>2. CASE j # k
      <4>1. ASSUME ledger'[j] # Unset, OwnRun(j)'
            PROVE  /\ ledger[j] # Unset /\ OwnRun(j) /\ RunIdOf(j)' = RunIdOf(j)
                   /\ RunIdOf(j) \in RunIds \ {RunOf[q]}
        <5>1. ledger[j] # Unset /\ RunIdOf(j)' = RunIdOf(j)
          BY <2>2, <2>5, <3>2, <4>1
        <5>2. RunIdOf(j) # RunOf[q]
          BY <2>2, <2>5, <3>2, <4>1 DEF OwnRun
        <5>3. OwnRun(j)
          BY <2>2, <2>5, <3>2, <4>1 DEF OwnRun
        <5>4. RunIdOf(j) \in RunIds
          BY <5>1 DEF RunIdOf, RunIds, EngineTypes
        <5> QED
          BY <5>1, <5>2, <5>3, <5>4
      <4>2. ASSUME ledger'[j] # Unset, OwnRun(j)'
            PROVE  traces'[RunIdOf(j)'] = traces[RunIdOf(j)]
        BY <2>4, <4>1, <4>2
      <4> QED
        BY <1>0, <2>3, <4>1, <4>2 DEF Agrees
    <3> QED
      BY <3>1, <3>2
  <2> QED
    BY <2>6, <2>7
<1>3. CASE \E k \in Keys : Step(k)
  <2>1. PICK k \in Keys : Step(k)
    BY <1>3
  <2>2. UNCHANGED ledger /\ exec[k].phase \notin {"idle", "ended"}
    BY <2>1, StepsAreOwn
  <2>3. /\ ledger[k] # Unset /\ results[k] = Unset
    BY <2>2 DEF FlowInv
  <2>4. RunIdOf(k) \in RunIds
    BY <2>3 DEF RunIdOf, RunIds, EngineTypes
  <2>5. \A j \in Keys : RunIdOf(j)' = RunIdOf(j) /\ OwnRun(j)' = OwnRun(j)
    BY <2>2 DEF RunIdOf, OwnRun
  <2>6. \A j \in Keys \ {k} : results'[j] = results[j]
    BY <2>1, StepKinds DEF Quiet, EndScenario, EngineTypes
  <2>7. ASSUME NEW r \in RunIds PROVE Silent(r)'
    <3>1. CASE r = RunIdOf(k)
      BY <2>2, <2>3, <2>5, <3>1 DEF Silent
    <3>2. CASE r # RunIdOf(k)
      <4>1. traces'[r] = traces[r]
        BY <2>1, <3>2, StepsTellOwnRun
      <4> QED
        BY <1>0, <2>2, <2>5, <4>1 DEF Silent
    <3> QED
      BY <3>1, <3>2
  <2>8. ASSUME NEW j \in Keys, j # k PROVE Agrees(j)'
    <3>1. ASSUME ledger[j] # Unset, OwnRun(j)
          PROVE  /\ traces'[RunIdOf(j)] = traces[RunIdOf(j)]
                 /\ audits'[RunIdOf(j)] = audits[RunIdOf(j)]
      <4>1. RunIdOf(j) \in RunIds /\ RunIdOf(j) # RunIdOf(k)
        BY <2>3, <2>8, <3>1 DEF RunIdOf, RunIds, OwnRun, EngineTypes
      <4> QED
        BY <2>1, <4>1, StepsTellOwnRun
    <3> QED
      BY <1>0, <2>2, <2>5, <2>6, <2>8, <3>1 DEF Agrees
  <2>9. Agrees(k)'
    <3> DEFINE t == traces[RunIdOf(k)]
    <3>1. t \in Seq(Events)
      BY <2>4 DEF EngineTypes
    <3>2. SUFFICES ASSUME OwnRun(k) PROVE Agrees(k)'
      BY <2>5 DEF Agrees
    <3>3. NoTerminal(t)
      BY <1>0, <2>3, <3>2 DEF Agrees
    <3>4. CASE Quiet(k)
      <4>1. results' = results
        BY <3>4 DEF Quiet
      <4>2. NoTerminal(traces'[RunIdOf(k)])
        <5>1. CASE traces' = traces
          BY <3>3, <5>1
        <5>2. CASE \E e \in Seq(ProgressEvents) : EmitAll(k, e)
          <6>1. PICK e \in Seq(ProgressEvents) : EmitAll(k, e)
            BY <5>2
          <6>2. traces'[RunIdOf(k)] = t \o e
            BY <2>4, <6>1 DEF EmitAll, EngineTypes
          <6> QED
            BY <3>1, <3>3, <6>2, ProgressEndsNothing
        <5> QED
          BY <3>4, <5>1, <5>2 DEF Quiet, EmitsProgress
      <4> QED
        BY <2>3, <2>5, <4>1, <4>2 DEF Agrees
    <3>5. CASE EndScenario(k)
      <4> DEFINE s == exec[k].status
      <4>1. s \in Statuses /\ s # Unset
        BY <3>5, EndSteps, RequestAssumption
      <4>2. TerminalEvent(s) \in Terminals
        BY <4>1 DEF TerminalEvent, Statuses, Terminals
      <4>3. /\ results'[k] = s /\ audits'[RunIdOf(k)] = s
            /\ traces'[RunIdOf(k)] = t \o <<TerminalEvent(s)>>
        BY <2>4, <3>5 DEF EndScenario, EmitAll, EngineTypes
      <4>4. EndsWith(traces'[RunIdOf(k)], TerminalEvent(s))
        BY <3>1, <3>3, <4>2, <4>3, TerminalEnds
      <4> QED
        BY <2>5, <4>1, <4>3, <4>4 DEF Agrees
    <3> QED
      BY <2>1, <3>4, <3>5, StepKinds
  <2> QED
    BY <2>7, <2>8, <2>9
<1>4. CASE UNCHANGED scenarioVars
  BY <1>0, <1>4 DEF scenarioVars, Silent, Agrees, OwnRun, RunIdOf
<1> QED
  BY <1>1, <1>2, <1>3, <1>4, NextKinds

-----------------------------------------------------------------------------
EngineInv ==
  EngineTypes /\ ShapeInv /\ FlowInv /\ CallerInv /\ InvokedInv /\ ReportInv

LEMMA InitInv == ScenarioInit => EngineInv
<1> SUFFICES ASSUME ScenarioInit PROVE EngineInv
  OBVIOUS
<1>1. Unstarted \in Executions
  <2>1. Primary \in Slots /\ <<>> \in Seq(Slots) /\ 0 \in Nat
    BY ParameterAssumption
  <2> QED
    BY <2>1 DEF Unstarted, Executions, ScenarioPhases
<1>2. Shaped(Unstarted)
  BY RequestAssumption
     DEF Unstarted, Shaped, Alternating, Deciding, Visiting, Leaving, AtPrimary, Statuses
<1>3. EngineTypes
  BY <1>1 DEF ScenarioInit, EngineTypes
<1>4. ShapeInv
  BY <1>2 DEF ScenarioInit, ShapeInv
<1>5. FlowInv
  BY RequestAssumption DEF ScenarioInit, FlowInv, Unstarted
<1>6. CallerInv
  BY DEF ScenarioInit, CallerInv
<1>7. InvokedInv
  BY DEF ScenarioInit, InvokedInv, Unfailed, Unstarted
<1>8. ReportInv
  BY DEF ScenarioInit, ReportInv
<1> QED
  BY <1>3, <1>4, <1>5, <1>6, <1>7, <1>8 DEF EngineInv

LEMMA NextInv == EngineInv /\ [ScenarioNext]_scenarioVars => EngineInv'
BY TypesKept, FlowKept, CallersKept, InvokedKept, ReportsKept DEF EngineInv

LEMMA AlwaysEngineInv == ScenarioSpec => []EngineInv
BY InitInv, NextInv, PTL DEF ScenarioSpec

-----------------------------------------------------------------------------
(* The locals of execute, the ledger, the results, the audit records and the *)
(* turn of the engine stay well typed.                                       *)
THEOREM EngineTypeCorrect == ScenarioSpec => []ScenarioTypeOK
<1>1. EngineInv => ScenarioTypeOK
  BY DEF EngineInv, EngineTypes, Executions, ScenarioTypeOK
<1> QED
  BY <1>1, AlwaysEngineInv, PTL

LEMMA InvNests == EngineInv => CallsNest
<1>1. ASSUME EngineInv PROVE CallReturn
  <2>1. ASSUME NEW k \in Keys
        PROVE  LET v == exec[k].visits
               IN  /\ \A i \in DOMAIN v :
                        IF i % 2 = 1 THEN v[i] = Primary ELSE v[i] \in Callable
                   /\ results[k] = "completed" => Len(v) % 2 = 1
    <3>1. exec[k].visits \in Seq(Slots) /\ Shaped(exec[k])
      BY <1>1 DEF EngineInv, EngineTypes, Executions, ShapeInv
    <3>2. results[k] = "completed" => exec[k].status = "completed"
      BY <1>1, RequestAssumption DEF EngineInv, FlowInv, Statuses
    <3>3. DOMAIN exec[k].visits = 1 .. Len(exec[k].visits)
      BY <3>1
    <3> QED
      BY <3>1, <3>2, <3>3 DEF Shaped, Alternating
  <2> QED
    BY <2>1 DEF CallReturn
<1>2. ASSUME EngineInv PROVE CallStackFits
  <2>1. ASSUME NEW k \in Keys
        PROVE  /\ AtEffect(k, "resume_caller") => MayResume(k)
               /\ AtEffect(k, "terminate") => MayTerminate(k)
               /\ AtEffect(k, "invoke_slot") /\ exec[k].route \in Resolvable => MayCall(k)
    BY <1>2, EffectsFit DEF EngineInv, AtEffect, At, MayResume, MayTerminate, MayCall,
                            AtPrimary, AtSupporting
  <2> QED
    BY <2>1 DEF CallStackFits
<1> QED
  BY <1>1, <1>2 DEF CallsNest

(* Calls and returns nest, for any document the validator admits, any        *)
(* evaluators and budgets: the primary and the slots it called alternate,    *)
(* and the engine's call-return checks never fail a run.                     *)
THEOREM CallsAlwaysNest == ScenarioSpec => []CallsNest
BY InvNests, AlwaysEngineInv, PTL

(* A run is reported once and one way: its result, its audit record and the  *)
(* last event of its trace agree where its identifier is its own, and a      *)
(* request repeated under another key does not complete a second time.       *)
THEOREM RunsAlwaysReportOnce == ScenarioSpec => []RunsReportOnce
<1>1. ASSUME EngineInv PROVE ReportsAgree
  <2>1. ASSUME NEW k \in Keys, results[k] # Unset, OwnRun(k)
        PROVE  LET t == traces[RunIdOf(k)]
               IN  /\ audits[RunIdOf(k)] = results[k]
                   /\ {i \in DOMAIN t : t[i] \in Terminals} = {Len(t)}
                   /\ t[Len(t)] = TerminalEvent(results[k])
    <3>1. ledger[k] # Unset
      BY <1>1, <2>1 DEF EngineInv, FlowInv
    <3> QED
      BY <1>1, <2>1, <3>1 DEF EngineInv, ReportInv, EndsWith
  <2> QED
    BY <2>1 DEF ReportsAgree
<1>2. ASSUME EngineInv PROVE RunCompletesOnce
  <2>1. ASSUME NEW k \in Keys, results[k] = "completed"
        PROVE  [key |-> FirstKey(k), owner |-> k] \in invoked
    <3>1. exec[k].phase = "ended" /\ exec[k].status = "completed"
      BY <1>2, <2>1, RequestAssumption DEF EngineInv, FlowInv, Statuses
    <3>2. exec[k].visits \in Seq(Slots) /\ Len(exec[k].visits) % 2 = 1
      BY <1>2, <3>1 DEF EngineInv, EngineTypes, Executions, ShapeInv, Shaped
    <3>3. exec[k].visits # <<>>
      <4>1. Len(<<>>) = 0 /\ 0 % 2 # 1
        OBVIOUS
      <4> QED
        BY <3>2, <4>1
    <3> QED
      <4>1. Unfailed(exec[k])
        BY <3>1, <3>3 DEF Unfailed
      <4> QED
        BY <1>2, <4>1 DEF EngineInv, InvokedInv
  <2>2. ASSUME NEW j \in Keys, NEW k \in Keys, j # k,
               results[j] = "completed", results[k] = "completed",
               RunIdOf(j) = RunIdOf(k), InputOf[ledger[j]] = InputOf[ledger[k]]
        PROVE  FALSE
    <3> DEFINE m == [key |-> FirstKey(j), owner |-> j]
               n == [key |-> FirstKey(k), owner |-> k]
    <3>1. m \in invoked /\ n \in invoked
      BY <2>1, <2>2
    <3>2. m.key = n.key /\ m.owner = j /\ n.owner = k
      BY <2>2 DEF FirstKey
    <3> HIDE DEF m, n
    <3> QED
      BY <1>2, <2>2, <3>1, <3>2 DEF EngineInv, InvokedInv
  <2> QED
    BY <2>2 DEF RunCompletesOnce
<1>3. EngineInv => RunsReportOnce
  BY <1>1, <1>2 DEF RunsReportOnce
<1> QED
  BY <1>3, AlwaysEngineInv, PTL

-----------------------------------------------------------------------------
(* The refinement of MemoizedCalls. What callers were given:                 *)
Given == [c \in Callers |-> IF caller[c].answer \in Statuses
                            THEN <<caller[c].request, caller[c].answer>> ELSE Unset]

(* A caller who is refused, or waits, has been given nothing.                *)
LEMMA AskedGivesNothing ==
  ASSUME EngineTypes, CallerInv, NEW c \in Callers, NEW q \in Requests,
         NEW a \in {Unset, "conflict"}, caller[c].request = Unset, Asked(c, q, a)
  PROVE  Given' = Given
<1>1. Unset \notin Statuses /\ a \notin Statuses
  BY RequestAssumption DEF Statuses
<1>2. caller[c].answer = Unset
  BY DEF CallerInv
<1>3. caller'[c].answer = a /\ \A d \in Callers \ {c} : caller'[d] = caller[d]
  BY DEF Asked, EngineTypes
<1>4. ASSUME NEW d \in Callers
      PROVE  (IF caller'[d].answer \in Statuses
              THEN <<caller'[d].request, caller'[d].answer>> ELSE Unset)
             = (IF caller[d].answer \in Statuses
                THEN <<caller[d].request, caller[d].answer>> ELSE Unset)
  BY <1>1, <1>2, <1>3, <1>4
<1> QED
  BY <1>4 DEF Given

(* The engine starts as the memo does.                                       *)
LEMMA InitIsMemoInit == ScenarioInit => Memo!MemoInit
<1>1. Unset \notin Statuses
  BY RequestAssumption
<1> QED
  BY <1>1 DEF ScenarioInit, Memo!MemoInit

(* Every step of the engine is a step of the memo, or changes nothing of it. *)
LEMMA StepIsMemoStep ==
  ASSUME EngineInv, [ScenarioNext]_scenarioVars
  PROVE  [Memo!MemoNext]_(Memo!memoVars)
<1>0. EngineTypes /\ ShapeInv /\ FlowInv /\ CallerInv
  BY DEF EngineInv
<1> DEFINE Stays == ledger' = ledger /\ results' = results /\ Given' = Given
<1>1. ASSUME Stays PROVE [Memo!MemoNext]_(Memo!memoVars)
  BY <1>1 DEF Given, Memo!memoVars
<1>2. CASE \E c \in Callers, q \in Requests : ConflictScenario(c, q) \/ JoinScenario(c, q)
  <2>1. PICK c \in Callers, q \in Requests : ConflictScenario(c, q) \/ JoinScenario(c, q)
    BY <1>2
  <2>2. /\ caller[c].request = Unset /\ ledger' = ledger /\ results' = results
        /\ Asked(c, q, "conflict") \/ Asked(c, q, Unset)
    BY <2>1 DEF ConflictScenario, JoinScenario, MayRun
  <2>3. Given' = Given
    BY <1>0, <2>2, AskedGivesNothing
  <2> QED
    BY <1>1, <2>2, <2>3
<1>3. CASE \E c \in Callers, q \in Requests : StartScenario(c, q)
  <2>1. PICK c \in Callers, q \in Requests : StartScenario(c, q)
    BY <1>3
  <2>2. /\ caller[c].request = Unset /\ results' = results /\ Asked(c, q, Unset)
        /\ ledger[KeyOf[q]] = Unset /\ ledger' = [ledger EXCEPT ![KeyOf[q]] = q]
    BY <2>1 DEF StartScenario, MayRun
  <2>3. Given' = Given
    BY <1>0, <2>2, AskedGivesNothing
  <2>4. Memo!Bind(q)
    BY <2>2, <2>3 DEF Memo!Bind, Given
  <2> QED
    BY <2>4 DEF Memo!MemoNext
<1>4. CASE \E c \in Callers : AnswerCaller(c)
  <2>1. PICK c \in Callers : AnswerCaller(c)
    BY <1>4
  <2>0. PICK q \in Requests : q = caller[c].request
    BY <1>0, <2>1 DEF AnswerCaller, EngineTypes
  <2> DEFINE a == results[KeyOf[q]]
  <2>2. /\ q # Unset /\ caller[c].answer = Unset /\ a # Unset
        /\ caller' = [caller EXCEPT ![c].answer = a]
        /\ ledger' = ledger /\ results' = results
    BY <2>0, <2>1 DEF AnswerCaller
  <2>3. BoundTo(q) /\ KeyOf[q] \in Keys
    BY <1>0, <2>0, <2>2, RequestAssumption DEF CallerInv
  <2>4. a \in Statuses /\ Unset \notin Statuses
    BY <1>0, <2>2, <2>3, RequestAssumption DEF EngineTypes
  <2> HIDE DEF a
  <2>5. /\ caller'[c].answer = a /\ caller'[c].request = q
        /\ \A d \in Callers \ {c} : caller'[d] = caller[d]
    BY <1>0, <2>0, <2>2 DEF EngineTypes
  <2>6. Given[c] = Unset
    BY <2>2, <2>4 DEF Given
  <2>7. ASSUME NEW d \in Callers
        PROVE  (IF caller'[d].answer \in Statuses
                THEN <<caller'[d].request, caller'[d].answer>> ELSE Unset)
               = [Given EXCEPT ![c] = <<q, a>>][d]
    BY <2>4, <2>5 DEF Given
  <2>8. Given' = [Given EXCEPT ![c] = <<q, a>>]
    BY <2>7 DEF Given
  <2>9. Memo!Give(c, q)
    BY <2>2, <2>3, <2>6, <2>8 DEF Memo!Give, Given, BoundTo, a
  <2> QED
    BY <2>9 DEF Memo!MemoNext
<1>5. CASE \E k \in Keys : Step(k)
  <2>1. PICK k \in Keys : Step(k)
    BY <1>5
  <2>2. UNCHANGED <<ledger, caller>> /\ exec[k].phase \notin {"idle", "ended"}
    BY <1>0, <2>1, StepsAreOwn
  <2>3. Given' = Given
    BY <2>2 DEF Given
  <2>4. CASE Quiet(k)
    BY <1>1, <2>2, <2>3, <2>4 DEF Quiet
  <2>5. CASE EndScenario(k)
    <3>1. ledger[k] # Unset /\ results[k] = Unset
      BY <1>0, <2>2 DEF FlowInv
    <3>2. \E x \in Statuses : results' = [results EXCEPT ![k] = x]
      BY <1>0, <2>5, EndSteps DEF EndScenario
    <3>3. Memo!Resolve(k)
      BY <2>2, <2>3, <3>1, <3>2 DEF Memo!Resolve, Given
    <3> QED
      BY <3>3 DEF Memo!MemoNext
  <2> QED
    BY <1>0, <2>1, <2>4, <2>5, StepKinds
<1>6. CASE UNCHANGED scenarioVars
  BY <1>1, <1>6 DEF scenarioVars, Given
<1> QED
  BY <1>2, <1>3, <1>4, <1>5, <1>6, NextKinds

(* One execution per key, for the first request that brings it, and its      *)
(* result for all who repeat that request while it runs or after it ended.   *)
THEOREM OneScenarioAlwaysPerKey == ScenarioSpec => OneScenarioPerKey
<1>1. EngineInv /\ [ScenarioNext]_scenarioVars => [Memo!MemoNext]_(Memo!memoVars)
  BY StepIsMemoStep
<1> QED
  BY <1>1, InitIsMemoInit, AlwaysEngineInv, PTL DEF ScenarioSpec, OneScenarioPerKey, Memo!MemoSpec

-----------------------------------------------------------------------------
(* The evidence: what a step of an execution does to its visits, to the      *)
(* answer it got and to its trace, which is all its summaries depend on.     *)
CalmEvents == Events \ {"slot.failed"}
EmitsCalm(k) == traces' = traces \/ \E e \in Seq(CalmEvents) : EmitAll(k, e)

InSlot == {"slot", "project"}

Keeps(k, p) ==
  /\ exec'[k].phase = p
  /\ exec'[k].visits = exec[k].visits /\ exec'[k].answer = exec[k].answer

(* Outside of slot invocations; at the start of one, when its answer comes,  *)
(* when the execution hears of a failure or an answer, and when it projects. *)
Apart(k) ==
  /\ exec[k].phase \notin InSlot
  /\ \E p \in ScenarioPhases \ InSlot :
       Keeps(k, p) /\ (exec[k].phase \in Leaving => p \in Leaving)
  /\ EmitsCalm(k)
Awaits(k) ==
  /\ exec[k].phase = "invoke" /\ exec'[k].phase = "slot"
  /\ exec'[k].visits = Append(exec[k].visits, exec[k].slot)
  /\ EmitsCalm(k)
Answered(k) ==
  /\ exec[k].phase = "slot" /\ exec'[k].phase = "slot"
  /\ exec'[k].visits = exec[k].visits
  /\ traces' = traces
HearsFailure(k) ==
  /\ exec[k].phase = "slot" /\ exec[k].answer = "failed" /\ Keeps(k, "ending")
  /\ EmitAll(k, <<"slot.failed">>)
HearsAnswer(k) ==
  /\ exec[k].phase = "slot" /\ exec[k].answer # "failed" /\ Keeps(k, "project")
  /\ EmitsCalm(k)
Projected(k) ==
  /\ exec[k].phase = "project" /\ \E p \in {"route", "ending"} : Keeps(k, p)
  /\ exec'[k].phase = "route" => exec'[k].outcome \in OutcomeNames
  /\ traces' = traces

LEMMA GotoKeeps ==
  ASSUME EngineTypes, NEW k \in Keys, NEW p, Goto(k, p)
  PROVE  Keeps(k, p)
<1> DEFINE y == [exec[k] EXCEPT !.phase = p]
<1>1. exec[k] \in Executions
  BY DEF EngineTypes
<1>2. y.phase = p /\ y.visits = exec[k].visits /\ y.answer = exec[k].answer
  BY <1>1 DEF Executions
<1>3. exec' = [exec EXCEPT ![k] = y]
  BY DEF Goto
<1> HIDE DEF y
<1>4. exec'[k] = y
  BY <1>3, Moved
<1> QED
  BY <1>2, <1>4 DEF Keeps

LEMMA LeaveKeeps ==
  ASSUME EngineTypes, NEW k \in Keys, NEW s, Leave(k, s)
  PROVE  Keeps(k, "ending")
<1> DEFINE y == [exec[k] EXCEPT !.phase = "ending", !.status = s]
<1>1. exec[k] \in Executions
  BY DEF EngineTypes
<1>2. y.phase = "ending" /\ y.visits = exec[k].visits /\ y.answer = exec[k].answer
  BY <1>1 DEF Executions
<1>3. exec' = [exec EXCEPT ![k] = y]
  BY DEF Leave
<1> HIDE DEF y
<1>4. exec'[k] = y
  BY <1>3, Moved
<1> QED
  BY <1>2, <1>4 DEF Keeps

LEMMA LeavesApart ==
  ASSUME EngineTypes, NEW k \in Keys, NEW s, Leave(k, s),
         exec[k].phase \notin InSlot, EmitsCalm(k)
  PROVE  Apart(k)
BY LeaveKeeps DEF Apart, InSlot, Leaving, ScenarioPhases

LEMMA CalmlyApplied ==
  ASSUME NEW n \in Nat
  PROVE  /\ Applied(n) \in Seq(CalmEvents)
         /\ Applied(n) \o <<"binding.failed">> \in Seq(CalmEvents)
         /\ Applied(n) \o <<"budget.exhausted", "binding.failed">> \in Seq(CalmEvents)
<1>1. /\ Applied(n) \in Seq(CalmEvents)
      /\ <<"binding.failed">> \in Seq(CalmEvents)
      /\ <<"budget.exhausted", "binding.failed">> \in Seq(CalmEvents)
  BY DEF Applied, CalmEvents, Events, ProgressEvents
<1> QED
  BY <1>1

(* Steps that decide, evaluate and route have nothing to do with a slot.     *)
LEMMA DecidesApart ==
  ASSUME EngineTypes, NEW k \in Keys,
         \/ StartOverlays(k) \/ SlotOverlays(k) \/ ExhaustSlots(k) \/ ExhaustRoutes(k)
         \/ RouteOverlays(k)
  PROVE  Apart(k)
<1>1. exec[k].phase \in {"start", "before", "invoke", "route", "routed"}
  BY DEF StartOverlays, SlotOverlays, ExhaustSlots, ExhaustRoutes, RouteOverlays, At
<1>2. EmitsCalm(k)
  <2>1. /\ <<"budget.exhausted">> \in Seq(CalmEvents)
        /\ <<"route.selected">> \in Seq(CalmEvents)
    BY DEF CalmEvents, Events, ProgressEvents
  <2> QED
    BY <2>1 DEF EmitsCalm, StartOverlays, SlotOverlays, ExhaustSlots, ExhaustRoutes,
                RouteOverlays
<1>3. (\E p \in {"before", "invoke", "effect"} : Goto(k, p)) \/ \E s : Leave(k, s)
  BY DEF StartOverlays, SlotOverlays, ExhaustSlots, ExhaustRoutes, RouteOverlays
<1>4. CASE \E p \in {"before", "invoke", "effect"} : Goto(k, p)
  <2>1. PICK p \in {"before", "invoke", "effect"} : Goto(k, p)
    BY <1>4
  <2>2. Keeps(k, p) /\ p \in ScenarioPhases \ InSlot
    BY <2>1, GotoKeeps DEF ScenarioPhases, InSlot
  <2>3. exec[k].phase \notin Leaving /\ exec[k].phase \notin InSlot
    BY <1>1 DEF Leaving, InSlot
  <2> QED
    BY <1>2, <2>2, <2>3 DEF Apart
<1>5. CASE \E s : Leave(k, s)
  BY <1>1, <1>2, <1>5, LeavesApart DEF InSlot
<1> QED
  BY <1>3, <1>4, <1>5

LEMMA SelectsApart ==
  ASSUME EngineTypes, NEW k \in Keys, SelectRoute(k)
  PROVE  Apart(k)
<1> DEFINE n == Cardinality(Candidates(k))
<1>1. /\ exec[k].phase = "route" /\ traces' = traces
      /\ exec[k] \in Executions
  BY DEF SelectRoute, At, EngineTypes
<1>2. (\E r : exec' = [exec EXCEPT ![k] = Routed(@, r, n)]) \/ Leave(k, "failed")
  BY DEF SelectRoute
<1>3. CASE \E r : exec' = [exec EXCEPT ![k] = Routed(@, r, n)]
  <2>1. PICK r : exec' = [exec EXCEPT ![k] = Routed(@, r, n)]
    BY <1>3
  <2> DEFINE y == Routed(exec[k], r, n)
  <2>2. y.phase = "routed" /\ y.visits = exec[k].visits /\ y.answer = exec[k].answer
    BY <1>1 DEF Executions, Routed
  <2>3. exec' = [exec EXCEPT ![k] = y]
    BY <2>1
  <2> HIDE DEF y
  <2>4. exec'[k] = y
    BY <2>3, Moved
  <2>5. Keeps(k, "routed")
    BY <2>2, <2>4 DEF Keeps
  <2> QED
    BY <1>1, <2>5 DEF Apart, EmitsCalm, InSlot, Leaving, ScenarioPhases
<1>4. CASE Leave(k, "failed")
  BY <1>1, <1>4, LeavesApart DEF EmitsCalm, InSlot
<1> QED
  BY <1>2, <1>3, <1>4

LEMMA EffectsApart ==
  ASSUME EngineTypes, NEW k \in Keys,
         \/ CallSupporting(k) \/ ResumeCaller(k) \/ MissBindingSource(k)
         \/ ExhaustBindings(k) \/ Terminate(k) \/ RequestHandoff(k) \/ FailClosed(k)
  PROVE  Apart(k)
<1>1. exec[k].phase = "effect" /\ exec[k] \in Executions
  BY DEF CallSupporting, ResumeCaller, MissBindingSource, ExhaustBindings, Terminate,
         RequestHandoff, FailClosed, AtEffect, At, EngineTypes
<1>2. EmitsCalm(k)
  <2>1. Bindings[exec[k].slot] \in Nat
    BY <1>1, ParameterAssumption DEF Executions
  <2>2. CASE ResumeCaller(k)
    <3>1. UNCHANGED traces \/ \E n \in 0 .. Bindings[exec[k].slot] : EmitAll(k, Applied(n))
      BY <2>2 DEF ResumeCaller
    <3> QED
      BY <2>1, <3>1, CalmlyApplied DEF EmitsCalm
  <2>3. CASE MissBindingSource(k)
    <3>1. \E n \in Nat : EmitAll(k, Applied(n) \o <<"binding.failed">>)
      BY <2>1, <2>3 DEF MissBindingSource
    <3> QED
      BY <3>1, CalmlyApplied DEF EmitsCalm
  <2>4. CASE ExhaustBindings(k)
    <3>1. \E n \in Nat : EmitAll(k, Applied(n) \o <<"budget.exhausted", "binding.failed">>)
      BY <2>4 DEF ExhaustBindings
    <3> QED
      BY <3>1, CalmlyApplied DEF EmitsCalm
  <2>5. CASE CallSupporting(k) \/ Terminate(k) \/ RequestHandoff(k) \/ FailClosed(k)
    BY <2>5 DEF CallSupporting, Terminate, RequestHandoff, FailClosed, EmitsCalm
  <2> QED
    BY <2>2, <2>3, <2>4, <2>5
<1>3. \/ \E s : Leave(k, s)
      \/ exec' = [exec EXCEPT ![k] = Called(@, Target[exec[k].route])]
      \/ exec' = [exec EXCEPT ![k] = Resumed(@)]
  BY DEF CallSupporting, ResumeCaller, MissBindingSource, ExhaustBindings, Terminate,
         RequestHandoff, FailClosed
<1>4. CASE \E s : Leave(k, s)
  BY <1>1, <1>2, <1>4, LeavesApart DEF InSlot
<1>5. ASSUME NEW y, exec' = [exec EXCEPT ![k] = y], y.phase = "before",
             y.visits = exec[k].visits, y.answer = exec[k].answer
      PROVE  Apart(k)
  <2>1. exec'[k] = y
    BY <1>5, Moved
  <2>2. Keeps(k, "before")
    BY <1>5, <2>1 DEF Keeps
  <2> QED
    BY <1>1, <1>2, <2>2 DEF Apart, InSlot, Leaving, ScenarioPhases
<1>6. CASE exec' = [exec EXCEPT ![k] = Called(@, Target[exec[k].route])]
  <2> DEFINE y == Called(exec[k], Target[exec[k].route])
  <2>1. y.phase = "before" /\ y.visits = exec[k].visits /\ y.answer = exec[k].answer
    BY <1>1 DEF Executions, Called
  <2>2. exec' = [exec EXCEPT ![k] = y]
    BY <1>6
  <2> HIDE DEF y
  <2> QED
    BY <1>5, <2>1, <2>2
<1>7. CASE exec' = [exec EXCEPT ![k] = Resumed(@)]
  <2> DEFINE y == Resumed(exec[k])
  <2>1. y.phase = "before" /\ y.visits = exec[k].visits /\ y.answer = exec[k].answer
    BY <1>1 DEF Executions, Resumed
  <2>2. exec' = [exec EXCEPT ![k] = y]
    BY <1>7
  <2> HIDE DEF y
  <2> QED
    BY <1>5, <2>1, <2>2
<1> QED
  BY <1>3, <1>4, <1>6, <1>7

LEMMA EndsApart ==
  ASSUME EngineTypes, ShapeInv, NEW k \in Keys, EndScenario(k)
  PROVE  Apart(k)
<1>1. exec[k].phase = "ending" /\ Keeps(k, "ended")
  BY GotoKeeps DEF EndScenario, At
<1>2. TerminalEvent(exec[k].status) \in CalmEvents
  BY EndSteps DEF TerminalEvent, Statuses, CalmEvents, Events, ProgressEvents, Terminals
<1>3. <<TerminalEvent(exec[k].status)>> \in Seq(CalmEvents)
  BY <1>2
<1> QED
  BY <1>1, <1>3 DEF EndScenario, EmitsCalm, Apart, InSlot, Leaving, ScenarioPhases

(* What the steps of a slot invocation do.                                   *)
LEMMA SlotSteps ==
  ASSUME EngineTypes, ShapeInv, FlowInv, NEW k \in Keys
  PROVE  /\ RefuseSlot(k) \/ InvokeSlot(k) => Awaits(k)
         /\ FinishSlot(k) => Answered(k)
         /\ FailSlot(k) => HearsFailure(k)
         /\ ResumeWithSlot(k) => HearsAnswer(k)
<1> DEFINE x == exec[k]
<1>1. x \in Executions
  BY DEF EngineTypes
<1>2. ASSUME RefuseSlot(k) \/ InvokeSlot(k) PROVE Awaits(k)
  <2>1. PICK a : exec' = [exec EXCEPT ![k] = Waiting(@, a)]
    BY <1>2 DEF RefuseSlot, InvokeSlot
  <2> DEFINE y == Waiting(x, a)
  <2>2. y.phase = "slot" /\ y.visits = Append(x.visits, x.slot)
    BY <1>1 DEF Executions, Waiting
  <2>3. exec' = [exec EXCEPT ![k] = y]
    BY <2>1
  <2> HIDE DEF y
  <2>4. exec'[k] = y
    BY <2>3, Moved
  <2>5. <<"slot.started">> \in Seq(CalmEvents)
    BY DEF CalmEvents, Events, ProgressEvents
  <2> QED
    BY <1>2, <2>2, <2>4, <2>5 DEF RefuseSlot, InvokeSlot, At, Awaits, EmitsCalm
<1>3. ASSUME FinishSlot(k) PROVE Answered(k)
  <2>1. PICK a : exec' = [exec EXCEPT ![k].answer = a]
    BY <1>3 DEF FinishSlot
  <2> DEFINE y == [x EXCEPT !.answer = a]
  <2>2. y.phase = x.phase /\ y.visits = x.visits
    BY <1>1 DEF Executions
  <2>3. exec' = [exec EXCEPT ![k] = y]
    BY <2>1
  <2> HIDE DEF y
  <2>4. exec'[k] = y
    BY <2>3, Moved
  <2> QED
    BY <1>3, <2>2, <2>4 DEF FinishSlot, FlowInv, Answered
<1>4. ASSUME FailSlot(k) PROVE HearsFailure(k)
  BY <1>4, LeaveKeeps DEF FailSlot, FailureEvents, HearsFailure
<1>5. ASSUME ResumeWithSlot(k) PROVE HearsAnswer(k)
  <2>1. <<"slot.completed">> \in Seq(CalmEvents)
    BY DEF CalmEvents, Events, ProgressEvents
  <2> QED
    BY <1>5, <2>1, GotoKeeps DEF ResumeWithSlot, HearsAnswer, EmitsCalm
<1> QED
  BY <1>2, <1>3, <1>4, <1>5

LEMMA ProjectsOnce ==
  ASSUME EngineTypes, NEW k \in Keys, ProjectOutcome(k)
  PROVE  Projected(k)
<1> DEFINE x == exec[k]
<1>1. x.phase = "project" /\ x \in Executions
  BY DEF ProjectOutcome, At, EngineTypes
<1>2. CASE \E o \in Outcomes[x.slot] :
             exec' = [exec EXCEPT ![k] = [@ EXCEPT !.phase = "route", !.outcome = o]]
  <2>1. PICK o \in Outcomes[x.slot] :
          exec' = [exec EXCEPT ![k] = [@ EXCEPT !.phase = "route", !.outcome = o]]
    BY <1>2
  <2> DEFINE y == [x EXCEPT !.phase = "route", !.outcome = o]
  <2>2. /\ y.phase = "route" /\ y.visits = x.visits /\ y.answer = x.answer
        /\ y.outcome = o
    BY <1>1 DEF Executions
  <2>3. o \in OutcomeNames
    BY <1>1 DEF OutcomeNames, Executions
  <2>4. exec' = [exec EXCEPT ![k] = y]
    BY <2>1
  <2>5. exec'[k] = y
    BY <2>4, Moved
  <2> HIDE DEF y
  <2> QED
    BY <1>1, <2>2, <2>3, <2>5 DEF ProjectOutcome, Projected, Keeps
<1>3. CASE Leave(k, "failed")
  <2>1. Keeps(k, "ending")
    BY <1>3, LeaveKeeps
  <2> QED
    BY <1>1, <2>1 DEF ProjectOutcome, Projected, Keeps
<1> QED
  BY <1>2, <1>3 DEF ProjectOutcome

LEMMA SlotMoves ==
  ASSUME EngineTypes, ShapeInv, FlowInv, NEW k \in Keys, Step(k)
  PROVE  \/ Apart(k) \/ Awaits(k) \/ Answered(k)
         \/ HearsFailure(k) \/ HearsAnswer(k) \/ Projected(k)
<1>1. CASE \/ RefuseSlot(k) \/ InvokeSlot(k) \/ FinishSlot(k) \/ FailSlot(k)
           \/ ResumeWithSlot(k) \/ ProjectOutcome(k)
  BY <1>1, SlotSteps, ProjectsOnce
<1>2. CASE \/ StartOverlays(k) \/ SlotOverlays(k) \/ ExhaustSlots(k) \/ ExhaustRoutes(k)
           \/ RouteOverlays(k)
  BY <1>2, DecidesApart
<1>3. CASE SelectRoute(k)
  BY <1>3, SelectsApart
<1>4. CASE \/ CallSupporting(k) \/ ResumeCaller(k) \/ MissBindingSource(k)
           \/ ExhaustBindings(k) \/ Terminate(k) \/ RequestHandoff(k) \/ FailClosed(k)
  BY <1>4, EffectsApart
<1>5. CASE EndScenario(k)
  BY <1>5, EndsApart
<1> QED
  BY <1>1, <1>2, <1>3, <1>4, <1>5 DEF Step

-----------------------------------------------------------------------------
(* The summaries of an execution: one for each slot it visited but the one   *)
(* it is in and one that failed. Its trace tells of its start, and of a slot *)
(* that failed.                                                              *)
SlotSummaries == [index : Nat, slot : Slots, outcome : OutcomeNames \cup {Unset}]

FailedSlot(x)   == x.phase \in Leaving /\ x.answer = "failed"
Unsummarized(x) == x.phase \in InSlot \/ FailedSlot(x)

Numbered(x, s) ==
  /\ Len(x.visits) = Len(s) + (IF Unsummarized(x) THEN 1 ELSE 0)
  /\ \A i \in 1 .. Len(s) : s[i].index = i
  /\ x.answer = "failed" => x.phase \in {"slot"} \cup Leaving

FailureTold(t) == \E i \in 1 .. Len(t) : t[i] = "slot.failed"
Began(t)       == t # <<>> /\ t[1] = "started"
ToldOf(k) ==
  ledger[k] # Unset /\ OwnRun(k) =>
    /\ Began(traces[RunIdOf(k)])
    /\ FailureTold(traces[RunIdOf(k)]) <=> FailedSlot(exec[k])

SummaryInv ==
  /\ summaries \in [Keys -> Seq(SlotSummaries)]
  /\ \A k \in Keys : Numbered(exec[k], summaries[k])
  /\ \A k \in Keys : ToldOf(k)

LEMMA TellsCalmly ==
  ASSUME NEW t \in Seq(Events), Began(t), NEW e \in Seq(CalmEvents)
  PROVE  Began(t \o e) /\ (FailureTold(t \o e) <=> FailureTold(t))
<1> DEFINE u == t \o e
<1>1. e \in Seq(Events)
  BY DEF CalmEvents
<1>2. /\ Len(u) = Len(t) + Len(e) /\ Len(t) \in Nat /\ Len(e) \in Nat /\ Len(t) > 0
      /\ u \in Seq(Events) /\ \A i \in 1 .. Len(t) : u[i] = t[i]
      /\ \A i \in 1 .. Len(u) : i > Len(t) => u[i] = e[i - Len(t)]
  BY <1>1 DEF Began
<1>3. Began(u)
  BY <1>2 DEF Began
<1>4. ASSUME NEW i \in 1 .. Len(u), u[i] = "slot.failed" PROVE FailureTold(t)
  <2>1. CASE i <= Len(t)
    BY <1>2, <1>4, <2>1 DEF FailureTold
  <2>2. CASE i > Len(t)
    <3>1. i - Len(t) \in 1 .. Len(e) /\ u[i] = e[i - Len(t)]
      BY <1>2, <1>4, <2>2
    <3>2. e[i - Len(t)] \in CalmEvents
      BY <3>1
    <3> QED
      BY <1>4, <3>1, <3>2 DEF CalmEvents
  <2> QED
    BY <1>2, <2>1, <2>2
<1>5. ASSUME NEW i \in 1 .. Len(t), t[i] = "slot.failed" PROVE FailureTold(u)
  BY <1>2, <1>5 DEF FailureTold
<1> HIDE DEF u
<1>6. FailureTold(u) <=> FailureTold(t)
  BY <1>4, <1>5 DEF FailureTold
<1> QED
  BY <1>3, <1>6 DEF u

LEMMA TellsFailure ==
  ASSUME NEW t \in Seq(Events), Began(t)
  PROVE  Began(t \o <<"slot.failed">>) /\ FailureTold(t \o <<"slot.failed">>)
<1> DEFINE u == t \o <<"slot.failed">>
<1>1. /\ Len(t) \in Nat /\ Len(t) > 0 /\ Len(u) = Len(t) + 1 /\ u # <<>>
      /\ u[Len(u)] = "slot.failed" /\ u[1] = t[1]
  BY DEF Began
<1> HIDE DEF u
<1>2. Began(u) /\ FailureTold(u)
  BY <1>1 DEF Began, FailureTold
<1> QED
  BY <1>2 DEF u

LEMMA OthersKeepSummaries ==
  ASSUME EngineTypes, SummaryInv, summaries' = [k \in Keys |-> Summarized(k)],
         NEW k \in Keys, exec'[k].phase = exec[k].phase \/ exec[k].phase # "project"
  PROVE  summaries'[k] = summaries[k]
BY DEF Summarized, Projecting

(* A step keeps the summaries of its execution in number.                    *)
LEMMA NumbersKept ==
  ASSUME EngineTypes, ShapeInv, FlowInv, SummaryInv, NEW k \in Keys, Step(k),
         summaries' = [j \in Keys |-> Summarized(j)]
  PROVE  summaries'[k] \in Seq(SlotSummaries) /\ Numbered(exec'[k], summaries'[k])
<1> DEFINE x == exec[k]
           y == exec'[k]
           s == summaries[k]
<1>1. /\ s \in Seq(SlotSummaries) /\ Numbered(x, s)
      /\ x \in Executions /\ x.visits \in Seq(Slots) /\ x.slot \in Slots
  BY DEF SummaryInv, EngineTypes, Executions
<1>2. Len(x.visits) \in Nat /\ Len(s) \in Nat
  BY <1>1
<1>3. x.phase # "project" => summaries'[k] = s
  BY OthersKeepSummaries
<1>4. CASE Apart(k)
  <2>1. x.phase \notin InSlot /\ y.visits = x.visits /\ y.answer = x.answer
        /\ y.phase \notin InSlot /\ (x.phase \in Leaving => y.phase \in Leaving)
    BY <1>4 DEF Apart, Keeps
  <2>2. x.answer = "failed" => x.phase \in Leaving
    BY <1>1, <2>1 DEF Numbered, InSlot
  <2>3. Unsummarized(y) <=> Unsummarized(x)
    BY <2>1, <2>2 DEF Unsummarized, FailedSlot
  <2>4. summaries'[k] = s
    BY <1>3, <2>1 DEF InSlot
  <2> HIDE DEF x, y, s
  <2> QED
    BY <1>1, <2>1, <2>2, <2>3, <2>4 DEF Numbered, y, s
<1>5. CASE Awaits(k)
  <2>1. /\ x.phase = "invoke" /\ y.phase = "slot" /\ y.visits = Append(x.visits, x.slot)
        /\ summaries'[k] = s
    BY <1>3, <1>5 DEF Awaits
  <2>2. Unsummarized(y) /\ ~ Unsummarized(x)
    BY <2>1 DEF Unsummarized, FailedSlot, InSlot, Leaving
  <2>3. Len(y.visits) = Len(x.visits) + 1
    BY <1>1, <2>1
  <2> HIDE DEF x, y, s
  <2> QED
    BY <1>1, <1>2, <2>1, <2>2, <2>3 DEF Numbered, y, s
<1>6. CASE Answered(k) \/ HearsFailure(k) \/ HearsAnswer(k)
  <2>1. /\ x.phase = "slot" /\ y.visits = x.visits /\ summaries'[k] = s
        /\ Unsummarized(y) /\ Unsummarized(x)
        /\ y.answer = "failed" => y.phase \in {"slot"} \cup Leaving
    BY <1>3, <1>6 DEF Answered, HearsFailure, HearsAnswer, Keeps, Unsummarized, FailedSlot,
                      InSlot, Leaving
  <2> HIDE DEF x, y, s
  <2> QED
    BY <1>1, <2>1 DEF Numbered, y, s
<1>7. CASE Projected(k)
  <2> DEFINE m == Summary(k)
  <2>1. /\ x.phase = "project" /\ y.phase \in {"route", "ending"}
        /\ y.visits = x.visits /\ y.answer = x.answer
        /\ y.phase = "route" => y.outcome \in OutcomeNames
    BY <1>7 DEF Projected, Keeps
  <2>2. x.answer # "failed"
    BY <1>1, <2>1 DEF Numbered, Leaving
  <2>3. Unsummarized(x) /\ ~ Unsummarized(y)
    BY <2>1, <2>2 DEF Unsummarized, FailedSlot, InSlot, Leaving
  <2>4. m \in SlotSummaries /\ m.index = Len(x.visits)
    BY <1>1, <1>2, <2>1 DEF Summary, SlotSummaries
  <2>5. summaries'[k] = Append(s, m)
    BY <2>1 DEF Summarized, Projecting
  <2>6. Len(x.visits) = Len(s) + 1 /\ \A i \in 1 .. Len(s) : s[i].index = i
    BY <1>1, <2>3 DEF Numbered
  <2> HIDE DEF x, y, s, m
  <2>7. /\ Append(s, m) \in Seq(SlotSummaries) /\ Len(Append(s, m)) = Len(s) + 1
        /\ \A i \in 1 .. Len(s) : Append(s, m)[i] = s[i]
        /\ Append(s, m)[Len(s) + 1] = m
    BY <1>1, <2>4
  <2>8. \A i \in 1 .. Len(Append(s, m)) : Append(s, m)[i].index = i
    BY <1>2, <2>4, <2>6, <2>7
  <2> QED
    BY <1>2, <2>1, <2>2, <2>3, <2>5, <2>6, <2>7, <2>8 DEF Numbered, y
<1> QED
  BY <1>4, <1>5, <1>6, <1>7, SlotMoves

(* A step tells of a failed slot when the execution leaves because of it.    *)
LEMMA ToldKept ==
  ASSUME EngineTypes, ShapeInv, FlowInv, SummaryInv, NEW k \in Keys, Step(k), OwnRun(k)
  PROVE  /\ Began(traces'[RunIdOf(k)])
         /\ FailureTold(traces'[RunIdOf(k)]) <=> FailedSlot(exec'[k])
<1> DEFINE x == exec[k]
           y == exec'[k]
           t == traces[RunIdOf(k)]
           u == traces'[RunIdOf(k)]
<1>1. ledger[k] # Unset
  BY StepsAreOwn DEF FlowInv
<1>2. RunIdOf(k) \in RunIds /\ t \in Seq(Events)
  <2>1. RunIdOf(k) \in RunIds
    BY <1>1 DEF RunIdOf, RunIds, EngineTypes
  <2> QED
    BY <2>1 DEF EngineTypes
<1>3. Began(t) /\ (FailureTold(t) <=> FailedSlot(x)) /\ Numbered(x, summaries[k])
  BY <1>1 DEF SummaryInv, ToldOf
<1>4. ASSUME EmitsCalm(k) PROVE Began(u) /\ (FailureTold(u) <=> FailureTold(t))
  <2>1. CASE traces' = traces
    BY <1>3, <2>1
  <2>2. CASE \E e \in Seq(CalmEvents) : EmitAll(k, e)
    <3>1. PICK e \in Seq(CalmEvents) : EmitAll(k, e)
      BY <2>2
    <3>2. u = t \o e
      BY <1>2, <3>1 DEF EmitAll, EngineTypes
    <3> QED
      BY <1>2, <1>3, <3>2, TellsCalmly
  <2> QED
    BY <1>4, <2>1, <2>2 DEF EmitsCalm
<1>5. CASE HearsFailure(k)
  <2>1. EmitAll(k, <<"slot.failed">>) /\ FailedSlot(y)
    BY <1>5 DEF HearsFailure, Keeps, FailedSlot, Leaving
  <2>2. u = t \o <<"slot.failed">>
    BY <1>2, <2>1 DEF EmitAll, EngineTypes
  <2> QED
    BY <1>2, <1>3, <2>1, <2>2, TellsFailure
<1>6. CASE Apart(k) \/ Awaits(k) \/ Answered(k) \/ HearsAnswer(k) \/ Projected(k)
  <2>1. EmitsCalm(k)
    BY <1>6 DEF Apart, Awaits, Answered, HearsAnswer, Projected, EmitsCalm
  <2>2. FailedSlot(y) <=> FailedSlot(x)
    <3>1. CASE Apart(k)
      <4>1. /\ x.phase \notin InSlot /\ y.answer = x.answer
            /\ x.phase \in Leaving => y.phase \in Leaving
        BY <3>1 DEF Apart, Keeps
      <4> QED
        BY <1>3, <4>1 DEF Numbered, FailedSlot, InSlot
    <3>2. CASE Awaits(k) \/ Answered(k) \/ HearsAnswer(k)
      BY <3>2 DEF Awaits, Answered, HearsAnswer, Keeps, FailedSlot, Leaving
    <3>3. CASE Projected(k)
      <4>1. x.phase = "project" /\ y.answer = x.answer
        BY <3>3 DEF Projected, Keeps
      <4> QED
        BY <1>3, <4>1 DEF Numbered, FailedSlot, Leaving
    <3> QED
      BY <1>6, <3>1, <3>2, <3>3
  <2> QED
    BY <1>3, <1>4, <2>1, <2>2
<1> QED
  BY <1>5, <1>6, SlotMoves

LEMMA SummariesKept ==
  ASSUME EngineInv, SummaryInv,
         \/ ScenarioNext /\ summaries' = [k \in Keys |-> Summarized(k)]
         \/ UNCHANGED evidenceVars
  PROVE  SummaryInv'
<1>0. EngineTypes /\ ShapeInv /\ FlowInv /\ ReportInv
  BY DEF EngineInv
<1>a. SUFFICES /\ summaries' \in [Keys -> Seq(SlotSummaries)]
               /\ \A k \in Keys : Numbered(exec'[k], summaries'[k])
               /\ \A k \in Keys : ToldOf(k)'
  BY DEF SummaryInv
<1>1. /\ summaries \in [Keys -> Seq(SlotSummaries)]
      /\ \A k \in Keys : Numbered(exec[k], summaries[k]) /\ ToldOf(k)
  BY DEF SummaryInv
<1>2. CASE UNCHANGED evidenceVars
  BY <1>1, <1>2 DEF evidenceVars, scenarioVars, ToldOf, OwnRun, RunIdOf
<1>3. CASE ScenarioNext /\ summaries' = [k \in Keys |-> Summarized(k)]
  <2>1. summaries' = [k \in Keys |-> Summarized(k)]
    BY <1>3
  <2>2. ASSUME NEW k \in Keys, exec'[k].phase = exec[k].phase \/ exec[k].phase # "project"
        PROVE  summaries'[k] = summaries[k]
    BY <1>0, <2>1, <2>2, OthersKeepSummaries
  <2>3. ASSUME \A k \in Keys : summaries'[k] \in Seq(SlotSummaries)
        PROVE  summaries' \in [Keys -> Seq(SlotSummaries)]
    BY <2>1, <2>3
  <2>4. CASE \E c \in Callers : Tells(c)
    <3>1. UNCHANGED <<exec, ledger, traces>>
      BY <2>4 DEF Tells
    <3>2. \A k \in Keys : summaries'[k] = summaries[k]
      BY <2>2, <3>1
    <3> QED
      BY <1>1, <2>3, <3>1, <3>2 DEF ToldOf, OwnRun, RunIdOf
  <2>5. CASE \E c \in Callers, q \in Requests : StartScenario(c, q)
    <3>1. PICK c \in Callers, q \in Requests : StartScenario(c, q)
      BY <2>5
    <3> DEFINE k == KeyOf[q]
    <3>2. /\ k \in Keys /\ RunOf[q] \in RunIds /\ q # Unset /\ ledger[k] = Unset
          /\ \A j \in Keys \ {k} : exec'[j] = exec[j] /\ ledger'[j] = ledger[j]
          /\ ledger'[k] = q /\ exec[k].phase = "idle" /\ exec'[k].phase = "start"
          /\ exec'[k].visits = exec[k].visits /\ exec'[k].answer = exec[k].answer
          /\ traces' = [traces EXCEPT ![RunOf[q]] = Append(@, "started")]
      BY <1>0, <3>1, StartFacts
    <3> HIDE DEF k
    <3>3. \A j \in Keys : summaries'[j] = summaries[j]
      BY <2>2, <3>2
    <3>4. /\ traces'[RunOf[q]] = Append(traces[RunOf[q]], "started")
          /\ \A r \in RunIds \ {RunOf[q]} : traces'[r] = traces[r]
      BY <1>0, <3>2 DEF EngineTypes
    <3>5. RunIdOf(k)' = RunOf[q] /\ \A j \in Keys \ {k} : RunIdOf(j)' = RunIdOf(j)
      BY <3>2 DEF RunIdOf
    <3>6. exec[k].answer # "failed"
      BY <1>1, <3>2 DEF Numbered, Leaving
    <3>7. Numbered(exec'[k], summaries[k])
      BY <1>1, <3>2, <3>6 DEF Numbered, Unsummarized, FailedSlot, InSlot, Leaving
    <3>8. ToldOf(k)'
      <4>1. ASSUME OwnRun(k)' PROVE traces'[RunOf[q]] = <<"started">>
        <5>1. \A i \in Keys : ledger[i] # Unset => RunIdOf(i) # RunOf[q]
          BY <3>2, <3>5, <4>1 DEF OwnRun
        <5>2. traces[RunOf[q]] = <<>>
          BY <1>0, <3>2, <5>1 DEF ReportInv
        <5> QED
          BY <3>4, <5>2
      <4>2. Began(<<"started">>) /\ ~ FailureTold(<<"started">>)
        BY DEF Began, FailureTold
      <4>3. ~ FailedSlot(exec'[k])
        BY <3>2 DEF FailedSlot, Leaving
      <4> QED
        BY <3>5, <4>1, <4>2, <4>3 DEF ToldOf
    <3>9. ASSUME NEW j \in Keys, j # k PROVE ToldOf(j)'
      <4>1. ASSUME ledger'[j] # Unset, OwnRun(j)'
            PROVE  /\ ledger[j] # Unset /\ OwnRun(j) /\ RunIdOf(j)' = RunIdOf(j)
                   /\ RunIdOf(j) \in RunIds \ {RunOf[q]}
        <5>1. ledger[j] # Unset /\ RunIdOf(j)' = RunIdOf(j)
          BY <3>2, <3>5, <3>9, <4>1
        <5>2. RunIdOf(j) # RunOf[q]
          BY <3>2, <3>5, <3>9, <4>1 DEF OwnRun
        <5>3. OwnRun(j)
          BY <3>2, <3>5, <3>9, <4>1 DEF OwnRun
        <5>4. RunIdOf(j) \in RunIds
          BY <1>0, <5>1 DEF RunIdOf, RunIds, EngineTypes
        <5> QED
          BY <5>1, <5>2, <5>3, <5>4
      <4>2. ASSUME ledger'[j] # Unset, OwnRun(j)'
            PROVE  traces'[RunIdOf(j)'] = traces[RunIdOf(j)]
        BY <3>4, <4>1, <4>2
      <4>3. exec'[j] = exec[j]
        BY <3>2, <3>9
      <4> QED
        BY <1>1, <4>1, <4>2, <4>3 DEF ToldOf
    <3>10. \A j \in Keys : Numbered(exec'[j], summaries'[j]) /\ ToldOf(j)'
      BY <1>1, <3>2, <3>3, <3>7, <3>8, <3>9
    <3> QED
      BY <1>1, <2>3, <3>3, <3>10
  <2>6. CASE \E k \in Keys : Step(k)
    <3>1. PICK k \in Keys : Step(k)
      BY <2>6
    <3>2. /\ \A j \in Keys \ {k} : exec'[j] = exec[j]
          /\ UNCHANGED ledger /\ exec[k].phase \notin {"idle", "ended"}
      BY <1>0, <3>1, StepsAreOwn
    <3>3. \A j \in Keys : RunIdOf(j)' = RunIdOf(j) /\ OwnRun(j)' = OwnRun(j)
      BY <3>2 DEF RunIdOf, OwnRun
    <3>4. \A j \in Keys \ {k} : summaries'[j] = summaries[j]
      BY <2>2, <3>2
    <3>5. summaries'[k] \in Seq(SlotSummaries) /\ Numbered(exec'[k], summaries'[k])
      BY <1>0, <2>1, <3>1, NumbersKept
    <3>6. ToldOf(k)'
      BY <1>0, <3>1, <3>3, ToldKept DEF ToldOf
    <3>7. ASSUME NEW j \in Keys, j # k PROVE ToldOf(j)'
      <4>1. ASSUME ledger[j] # Unset, OwnRun(j)
            PROVE  traces'[RunIdOf(j)] = traces[RunIdOf(j)]
        <5>1. ledger[k] # Unset
          BY <1>0, <3>2 DEF FlowInv
        <5>2. RunIdOf(j) \in RunIds /\ RunIdOf(j) # RunIdOf(k)
          BY <1>0, <3>7, <4>1, <5>1 DEF RunIdOf, RunIds, OwnRun, EngineTypes
        <5> QED
          BY <1>0, <3>1, <5>2, StepsTellOwnRun
      <4> QED
        BY <1>1, <3>2, <3>3, <3>7, <4>1 DEF ToldOf
    <3>8. \A j \in Keys : Numbered(exec'[j], summaries'[j]) /\ ToldOf(j)'
      BY <1>1, <3>2, <3>4, <3>5, <3>6, <3>7
    <3>9. \A j \in Keys : summaries'[j] \in Seq(SlotSummaries)
      BY <1>1, <3>4, <3>5
    <3> QED
      BY <2>3, <3>8, <3>9
  <2>7. CASE UNCHANGED scenarioVars
    <3>1. UNCHANGED <<exec, ledger, traces>>
      BY <2>7 DEF scenarioVars
    <3>2. \A k \in Keys : summaries'[k] = summaries[k]
      BY <2>2, <3>1
    <3> QED
      BY <1>1, <2>3, <3>1, <3>2 DEF ToldOf, OwnRun, RunIdOf
  <2> QED
    BY <1>3, <2>4, <2>5, <2>6, <2>7, NextKinds
<1> QED
  BY <1>2, <1>3

LEMMA InitSummaries == EvidenceInit => SummaryInv
<1> SUFFICES ASSUME EvidenceInit PROVE SummaryInv
  OBVIOUS
<1>1. summaries = [k \in Keys |-> <<>>]
  BY DEF EvidenceInit
<1>2. \A k \in Keys : exec[k] = Unstarted /\ ledger[k] = Unset
  BY DEF EvidenceInit, ScenarioInit
<1>3. Numbered(Unstarted, <<>>)
  BY RequestAssumption
     DEF Numbered, Unstarted, Unsummarized, FailedSlot, InSlot, Leaving, Statuses
<1> QED
  BY <1>1, <1>2, <1>3 DEF SummaryInv, ToldOf

LEMMA AlwaysSummaries == EvidenceSpec => [](EngineInv /\ SummaryInv)
<1>1. EvidenceInit => EngineInv /\ SummaryInv
  BY InitInv, InitSummaries DEF EvidenceInit
<1>2. ASSUME EngineInv /\ SummaryInv, [EvidenceNext]_evidenceVars
      PROVE  EngineInv' /\ SummaryInv'
  <2>1. [ScenarioNext]_scenarioVars
    BY <1>2 DEF EvidenceNext, evidenceVars
  <2>2. SummaryInv'
    BY <1>2, SummariesKept DEF EvidenceNext
  <2> QED
    BY <1>2, <2>1, <2>2, NextInv
<1> QED
  BY <1>1, <1>2, PTL DEF EvidenceSpec

LEMMA AcceptedUnlessFailed ==
  ASSUME EngineInv, SummaryInv, NEW k \in Keys, results[k] # Unset, OwnRun(k)
  PROVE  EvidenceAccepted(k) <=>
           \A i \in DOMAIN traces[RunIdOf(k)] : traces[RunIdOf(k)][i] # "slot.failed"
<1> DEFINE t == traces[RunIdOf(k)]
           s == summaries[k]
           v == exec[k].visits
           b == Bundle(k)
<1>1. /\ exec[k].phase = "ended" /\ ledger[k] # Unset
      /\ exec[k] \in Executions /\ results[k] \in Statuses
  BY DEF EngineInv, FlowInv, EngineTypes
<1>2. t \in Seq(Events) /\ s \in Seq(SlotSummaries)
  <2>1. RunIdOf(k) \in RunIds
    BY <1>1 DEF EngineInv, RunIdOf, RunIds, EngineTypes
  <2> QED
    BY <2>1 DEF EngineInv, EngineTypes, SummaryInv
<1>3. Numbered(exec[k], s) /\ Began(t) /\ (FailureTold(t) <=> FailedSlot(exec[k]))
  BY <1>1 DEF SummaryInv, ToldOf
<1>4. EndsWith(t, TerminalEvent(results[k]))
  BY <1>1 DEF EngineInv, ReportInv
<1>5. TerminalEvent(results[k]) # "started"
  BY <1>1 DEF TerminalEvent, Statuses
<1>6. DOMAIN t = 1 .. Len(t) /\ Len(t) \in Nat /\ DOMAIN s = 1 .. Len(s) /\ Len(s) \in Nat
  BY <1>2
<1>7. /\ b.status = results[k] /\ b.invocations = s /\ b.projections = Projections(k)
      /\ b.timeline = Timeline(k) /\ b.slotInvocations = Len(v)
  BY DEF Bundle
<1>8. Timeline(k).events = t /\ Timeline(k).evidence \subseteq Projections(k)
  BY DEF Timeline
<1>9. \A p \in Projections(k) : \E i \in DOMAIN s : s[i] = p
  BY DEF Projections
<1> HIDE DEF t, s, v, b
<1>10. TimelineValid(b)
  <2>1. t # <<>> /\ t[1] = "started" /\ t[Len(t)] = TerminalEvent(results[k])
    BY <1>3, <1>4 DEF Began, EndsWith
  <2>2. Len(t) # 0 /\ Len(t) # 1
    BY <1>2, <1>5, <2>1
  <2> QED
    BY <1>6, <1>7, <1>8, <2>1, <2>2 DEF TimelineValid
<1>11. \A p \in b.projections \cup b.timeline.evidence : Resolves(b, p)
  BY <1>7, <1>8, <1>9 DEF Resolves
<1>12. \A i \in DOMAIN b.invocations : b.invocations[i].index = i
  BY <1>3, <1>6, <1>7 DEF Numbered
<1>13. ReferencesValid(b) <=> Len(v) = Len(s)
  BY <1>7, <1>11, <1>12 DEF ReferencesValid
<1>14. Len(v) = Len(s) <=> ~ FailedSlot(exec[k])
  <2>1. Unsummarized(exec[k]) <=> FailedSlot(exec[k])
    BY <1>1 DEF Unsummarized, InSlot
  <2>2. Len(v) = Len(s) + (IF FailedSlot(exec[k]) THEN 1 ELSE 0)
    BY <1>3, <2>1 DEF Numbered, v
  <2>3. CASE FailedSlot(exec[k])
    <3>1. Len(v) = Len(s) + 1 /\ Len(s) \in Nat
      BY <1>6, <2>2, <2>3
    <3>2. Len(v) # Len(s)
      BY <3>1
    <3> QED
      BY <2>3, <3>2
  <2>4. CASE ~ FailedSlot(exec[k])
    BY <1>6, <2>2, <2>4
  <2> QED
    BY <2>3, <2>4
<1>15. FailureTold(t) <=> ~ \A i \in DOMAIN t : t[i] # "slot.failed"
  BY <1>6 DEF FailureTold
<1> QED
  BY <1>3, <1>10, <1>13, <1>14, <1>15 DEF EvidenceAccepted, b, t

(* Calls and returns nest in a run whose evidence is kept, and the bundle    *)
(* made of a run that has ended is accepted exactly when no slot of it       *)
(* failed, whatever the outcomes, denials and budgets, for any document and  *)
(* any number of runs at a time.                                             *)
THEOREM ScenariosAlwaysTold == EvidenceSpec => []ScenariosAreTold
<1>1. ASSUME EngineInv, SummaryInv PROVE EvidenceUnlessSlotFailed
  BY <1>1, AcceptedUnlessFailed DEF EvidenceUnlessSlotFailed
<1>2. EngineInv /\ SummaryInv => ScenariosAreTold
  BY <1>1, InvNests DEF ScenariosAreTold
<1> QED
  BY <1>2, AlwaysSummaries, PTL

=============================================================================
