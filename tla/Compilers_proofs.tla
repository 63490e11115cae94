---------------------------- MODULE Compilers_proofs ----------------------------
(* Proofs about the compilers: what OrchestratorCompiler makes of a plan and  *)
(* a compile profile, CompositionCompiler of a plan and what a host supports, *)
(* and how the agents the rule compiler makes of pack configurations run      *)
(* (CompiledAgents).  The components share no state.                          *)
EXTENDS OrchestratorCompiler, CompositionCompiler, CompiledAgents,
        FiniteSetTheorems, SequenceTheorems, WellFoundedInduction, TLAPS

(* Sequences, a member at a time.                                            *)
LEMMA AppendKeeps ==
  ASSUME NEW T, NEW s \in Seq(T), NEW e \in T
  PROVE  Append(s, e) \in Seq(T)
OBVIOUS

LEMMA FrontKeeps ==
  ASSUME NEW T, NEW s \in Seq(T), s # <<>>
  PROVE  Front(s) \in Seq(T)
<1>1. Len(s) \in Nat /\ Len(s) - 1 \in Nat /\ 1 .. Len(s) - 1 \subseteq 1 .. Len(s)
  OBVIOUS
<1>2. \A i \in 1 .. Len(s) : s[i] \in T
  OBVIOUS
<1>3. Front(s) = [i \in 1 .. Len(s) - 1 |-> s[i]]
  BY <1>1 DEF Front
<1> QED
  BY <1>1, <1>2, <1>3

(* A set of naturals with a member has a least one, and one of members of    *)
(* 1 .. n a greatest.                                                        *)
LEMMA LeastExists ==
  ASSUME NEW S \in SUBSET Nat, S # {}
  PROVE  \E i \in S : \A j \in S : i <= j
<1> DEFINE R == OpToRel(<, Nat)
<1>1. IsWellFoundedOn(R, Nat)
  BY NatLessThanWellFounded
<1> HIDE DEF R
<1>2. PICK i \in S : \A j \in S : ~ (<<j, i>> \in R)
  BY <1>1, WFMin
<1>3. ASSUME NEW j \in S PROVE i <= j
  <2>1. ~ (j < i)
    BY <1>2 DEF R, OpToRel
  <2> QED
    BY <2>1
<1> QED
  BY <1>3

LEMMA MaxIsGreatest ==
  ASSUME NEW n \in Nat, NEW S, S \subseteq 1 .. n, S # {}
  PROVE  Max(S) \in S
<1> DEFINE D == {n - i : i \in S}
<1>1. \A i \in S : n - i \in Nat /\ n - i \in D
  OBVIOUS
<1>2. \A x \in D : \E i \in S : x = n - i
  OBVIOUS
<1>3. D \in SUBSET Nat /\ D # {}
  BY <1>1, <1>2
<1> HIDE DEF D
<1>4. PICK x \in D : \A y \in D : x <= y
  BY <1>3, LeastExists
<1>5. PICK i \in S : x = n - i
  BY <1>2
<1>6. \A j \in S : n - i <= n - j
  BY <1>1, <1>4, <1>5
<1>7. \A j \in S : i >= j
  BY <1>6
<1> QED
  BY <1>7 DEF Max

-----------------------------------------------------------------------------
(* OrchestratorCompiler: for any slots, routes, profiles, bindings and        *)
(* terminals.                                                                 *)

(* What the first validators have found of a plan and its profile.           *)
FirstAccepts(p, routes, bindings) ==
  PlanAccepted(routes, bindings) /\ ProfileIssue(p, routes) = "none"

(* What the last compilation answered is still of the plan and the profile   *)
(* as they are.                                                              *)
AnswerIsCurrent ==
  /\ compiled.ok =>
       /\ FirstAccepts(profile, plan, links)
       /\ SuppliedIssue(supplied, plan, links) = "none"
       /\ DocumentAccepted(Bound(profile, plan, links), plan, links)
       /\ compiled.routes = BoundRoutes(profile, plan) /\ compiled.bindings = links
  /\ compiled.code = "document invalid" =>
       /\ FirstAccepts(profile, plan, links)
       /\ ~DocumentAccepted(Bound(profile, plan, links), plan, links)

OrchestratorInv == OrchestratorTypeOK /\ AnswerIsCurrent

LEMMA IdsAre ==
  ASSUME NEW routes PROVE
    /\ DOMAIN Ids(routes) = DOMAIN routes
    /\ \A i \in DOMAIN routes : Ids(routes)[i] = routes[i].id
BY DEF Ids

(* A route, and the member of a profile it is bound with.                    *)
BoundWith(p, routes, k, m) ==
  /\ p.routes[m].id = routes[k].id
  /\ BoundRoutes(p, routes)[k].id = routes[k].id
  /\ BoundRoutes(p, routes)[k].from = routes[k].from
  /\ BoundRoutes(p, routes)[k].outcome = p.routes[m].outcome
  /\ BoundRoutes(p, routes)[k].priority = p.routes[m].priority
  /\ BoundRoutes(p, routes)[k].effect = p.routes[m].effect

(* One member of a profile the first validator accepts is the one a route   *)
(* of the plan is bound with.                                                *)
LEMMA RouteIsBoundOnce ==
  ASSUME NEW p, NEW routes, p.routes \in Seq(RouteProfiles), routes \in Seq(PlanRoutes),
         ToSet(Ids(routes)) = ToSet(Ids(p.routes)), NEW k \in DOMAIN routes
  PROVE  \E m \in DOMAIN p.routes : BoundWith(p, routes, k, m)
<1> DEFINE S == {j \in DOMAIN p.routes : p.routes[j].id = routes[k].id}
<1>1. routes[k].id \in ToSet(Ids(routes))
  BY IdsAre DEF ToSet
<1>2. PICK j \in DOMAIN Ids(p.routes) : Ids(p.routes)[j] = routes[k].id
  BY <1>1 DEF ToSet
<1>3. j \in S
  BY <1>2, IdsAre
<1>4. Len(p.routes) \in Nat /\ DOMAIN p.routes = 1 .. Len(p.routes)
  OBVIOUS
<1>5. Max(S) \in S
  <2>1. S \subseteq 1 .. Len(p.routes) /\ S # {}
    BY <1>3, <1>4
  <2> HIDE DEF S
  <2> QED
    BY <2>1, <1>4, MaxIsGreatest
<1>6. BoundRoutes(p, routes)[k] =
        [id |-> routes[k].id, from |-> routes[k].from, outcome |-> p.routes[Max(S)].outcome,
         priority |-> p.routes[Max(S)].priority, effect |-> p.routes[Max(S)].effect]
  BY DEF BoundRoutes
<1> HIDE DEF S
<1>7. Max(S) \in DOMAIN p.routes /\ p.routes[Max(S)].id = routes[k].id
  BY <1>5 DEF S
<1> QED
  BY <1>6, <1>7 DEF BoundWith

(* What is bound is a list of routes of documents, as long as the plan.      *)
LEMMA BoundIsOfRoutes ==
  ASSUME NEW p, NEW routes, p.routes \in Seq(RouteProfiles), routes \in Seq(PlanRoutes),
         ToSet(Ids(routes)) = ToSet(Ids(p.routes))
  PROVE  BoundRoutes(p, routes) \in Seq(DocumentRoutes)
<1> DEFINE B == BoundRoutes(p, routes)
<1>1. Len(routes) \in Nat /\ DOMAIN routes = 1 .. Len(routes) /\ DOMAIN B = 1 .. Len(routes)
  BY DEF BoundRoutes
<1>2. B = [k \in 1 .. Len(routes) |-> B[k]]
  BY <1>1 DEF BoundRoutes
<1>3. ASSUME NEW k \in 1 .. Len(routes) PROVE B[k] \in DocumentRoutes
  <2> DEFINE q == p.routes[Max({j \in DOMAIN p.routes : p.routes[j].id = routes[k].id})]
  <2>1. B[k] = [id |-> routes[k].id, from |-> routes[k].from, outcome |-> q.outcome,
                priority |-> q.priority, effect |-> q.effect]
    BY <1>1 DEF BoundRoutes
  <2>2. PICK m \in DOMAIN p.routes : BoundWith(p, routes, k, m)
    BY <1>1, RouteIsBoundOnce
  <2>3. p.routes[m] \in RouteProfiles /\ routes[k] \in PlanRoutes
    BY <1>1
  <2>4. /\ p.routes[m].outcome \in Outcomes /\ p.routes[m].priority \in Nat
        /\ p.routes[m].effect \in RouteEffects
        /\ routes[k].id \in RouteIds /\ routes[k].from \in DeskSlots
    BY <2>3 DEF RouteProfiles, PlanRoutes
  <2> HIDE DEF q, B
  <2>5. q.outcome \in Outcomes /\ q.priority \in Nat /\ q.effect \in RouteEffects
    BY <2>1, <2>2, <2>4 DEF BoundWith, B
  <2> QED
    BY <2>1, <2>4, <2>5 DEF DocumentRoutes
<1> HIDE DEF B
<1>4. B \in [1 .. Len(routes) -> DocumentRoutes]
  BY <1>2, <1>3
<1>5. B \in Seq(DocumentRoutes)
  BY <1>1, <1>4
<1> QED
  BY <1>5 DEF B

(* A document the second validator accepts is one the engine can run.        *)
LEMMA AcceptedRuns ==
  ASSUME NEW routes, NEW bindings, NEW doc, DocumentAccepted(doc, routes, bindings),
         doc.routes \in Seq(DocumentRoutes), compiled.routes = doc.routes,
         OrchestratorAssumption
  PROVE  CompiledDocumentsRun
<1> DEFINE R == doc.routes
<1>1. /\ ~PrioritiesClash(R)
      /\ \A i \in DOMAIN R : RouteAllowed(R, doc.slots, R[i])
      /\ DOMAIN R = 1 .. Len(R) /\ Len(R) \in Nat
  BY DEF DocumentAccepted
<1> HIDE DEF R
<1>2. ASSUME NEW i \in DOMAIN R
      PROVE  CASE R[i].effect.type = "invoke_slot" ->
                    R[i].from = DeskPrimary /\ R[i].effect.target # R[i].from
               [] R[i].effect.type = "resume_caller" ->
                    R[i].from # DeskPrimary /\ Calls(R, DeskPrimary, R[i].from)
               [] R[i].effect.type = "terminate" -> R[i].from = DeskPrimary
               [] OTHER -> TRUE
  <2>1. RouteAllowed(R, doc.slots, R[i])
    BY <1>1
  <2>2. CASE R[i].effect.type = "invoke_slot"
    BY <2>1, <2>2 DEF RouteAllowed, Supporting
  <2>3. CASE R[i].effect.type = "resume_caller"
    <3>1. R[i].from \in Supporting /\ R[i].from \in Invoked(R)
      BY <2>1, <2>3 DEF RouteAllowed, MayReturn
    <3>2. PICK j \in DOMAIN R : R[j].effect.type = "invoke_slot" /\ R[j].effect.target = R[i].from
      BY <3>1 DEF Invoked
    <3>3. RouteAllowed(R, doc.slots, R[j])
      BY <1>1
    <3>4. R[j].from = DeskPrimary
      BY <3>2, <3>3 DEF RouteAllowed
    <3> QED
      BY <2>3, <3>1, <3>2, <3>4 DEF Calls, Supporting
  <2>4. CASE R[i].effect.type = "terminate"
    BY <2>1, <2>4 DEF RouteAllowed
  <2> QED
    BY <2>2, <2>3, <2>4
<1>3. ASSUME NEW i \in DOMAIN R, NEW j \in DOMAIN R,
             R[i].from = R[j].from, R[i].outcome = R[j].outcome, R[i].priority = R[j].priority
      PROVE  i = j
  BY <1>1, <1>3 DEF PrioritiesClash
<1>4. compiled.routes = R
  BY DEF R
<1>5. \A i \in DOMAIN compiled.routes :
        LET r == compiled.routes[i]
        IN  CASE r.effect.type = "invoke_slot" -> r.from = DeskPrimary /\ r.effect.target # r.from
              [] r.effect.type = "resume_caller" ->
                   r.from # DeskPrimary /\ Calls(compiled.routes, DeskPrimary, r.from)
              [] r.effect.type = "terminate" -> r.from = DeskPrimary
              [] OTHER -> TRUE
  BY <1>2, <1>4
<1> QED
  BY <1>3, <1>4, <1>5 DEF CompiledDocumentsRun

(* What a late refusal must be about.                                        *)
DirectionIsWrong(p, routes) ==
  \/ routes = <<>> \/ p.version # "1.0.0"
  \/ \E i \in DOMAIN p.routes :
       LET q == p.routes[i]  r == Entry(routes, q.id)
       IN  \/ q.effect.type \in {"invoke_slot", "terminate"} /\ r.from # DeskPrimary
           \/ q.effect.type = "invoke_slot" /\ r.to \notin DeskSlots
           \/ q.effect.type = "resume_caller" /\ r.from \notin Invoked(BoundRoutes(p, routes))

(* What is looked at first of the routes alone.                              *)
RoutesAgree(p, routes) ==
  /\ IsInjective(Ids(routes)) /\ \A i \in DOMAIN routes : routes[i].from # routes[i].to
  /\ ProfileIssue(p, routes) = "none"

(* What the profile of a route the first validator accepts says of it, and   *)
(* what is bound for it.                                                     *)
LEMMA BoundRouteFits ==
  ASSUME NEW p, NEW routes, NEW k \in DOMAIN routes,
         p.routes \in Seq(RouteProfiles), routes \in Seq(PlanRoutes),
         RoutesAgree(p, routes), ~DirectionIsWrong(p, routes)
  PROVE  \E m \in DOMAIN p.routes :
           LET b == BoundRoutes(p, routes)[k]  r == routes[k]
           IN  /\ p.routes[m].id = r.id /\ p.routes[m].priority = b.priority
               /\ b.id = r.id /\ b.from = r.from
               /\ b.outcome \in p.slots[r.from].accepts
               /\ b.effect \in RouteEffects
               /\ EffectMatches(b.effect, r) /\ r.from # r.to
               /\ b.effect.type \in {"invoke_slot", "terminate"} => r.from = DeskPrimary
               /\ b.effect.type = "invoke_slot" => r.to \in DeskSlots
               /\ b.effect.type = "resume_caller" => r.from \in Invoked(BoundRoutes(p, routes))
<1>1. /\ ToSet(Ids(routes)) = ToSet(Ids(p.routes)) /\ RoutesAligned(p, routes)
      /\ IsInjective(Ids(routes))
      /\ \A i \in DOMAIN routes : routes[i].from # routes[i].to
  BY DEF RoutesAgree, ProfileIssue
<1>2. PICK m \in DOMAIN p.routes : BoundWith(p, routes, k, m)
  BY <1>1, RouteIsBoundOnce
<1>3. BoundRoutes(p, routes)[k].effect = p.routes[m].effect /\ p.routes[m].id = routes[k].id
  BY <1>2 DEF BoundWith
<1>4. /\ p.routes[m].outcome \in p.slots[routes[k].from].accepts
      /\ EffectMatches(p.routes[m].effect, routes[k])
  BY <1>1, <1>3 DEF RoutesAligned
<1>5. Entry(routes, p.routes[m].id) = routes[k]
  <2>1. \A i \in DOMAIN routes : routes[i].id = p.routes[m].id => i = k
    BY <1>1, <1>3, IdsAre DEF IsInjective
  <2>2. k = CHOOSE i \in DOMAIN routes : routes[i].id = p.routes[m].id
    BY <2>1, <1>3
  <2> QED
    BY <2>2 DEF Entry
<1>6. /\ p.routes[m].effect.type \in {"invoke_slot", "terminate"} => routes[k].from = DeskPrimary
      /\ p.routes[m].effect.type = "invoke_slot" => routes[k].to \in DeskSlots
      /\ p.routes[m].effect.type = "resume_caller"
           => routes[k].from \in Invoked(BoundRoutes(p, routes))
  BY <1>5 DEF DirectionIsWrong
<1>7. p.routes[m].effect \in RouteEffects
  <2>1. p.routes[m] \in RouteProfiles
    OBVIOUS
  <2> QED
    BY <2>1 DEF RouteProfiles
<1>8. routes[k].from # routes[k].to
  BY <1>1
<1> QED
  BY <1>2, <1>4, <1>6, <1>7, <1>8 DEF BoundWith

(* Which makes the route one the document may have.                          *)
LEMMA BoundRouteAllowed ==
  ASSUME NEW p, NEW routes, NEW k \in DOMAIN routes,
         p.routes \in Seq(RouteProfiles), routes \in Seq(PlanRoutes),
         RoutesAgree(p, routes), ~DirectionIsWrong(p, routes),
         OrchestratorAssumption
  PROVE  /\ RouteAllowed(BoundRoutes(p, routes), p.slots, BoundRoutes(p, routes)[k])
         /\ BoundRoutes(p, routes)[k].effect.type = "invoke_slot" =>
              /\ BoundRoutes(p, routes)[k].from = DeskPrimary
              /\ BoundRoutes(p, routes)[k].effect.target # DeskPrimary
<1> DEFINE B == BoundRoutes(p, routes)  b == B[k]  r == routes[k]
<1>1. /\ b.from = r.from /\ b.outcome \in p.slots[r.from].accepts
      /\ b.effect \in RouteEffects /\ EffectMatches(b.effect, r) /\ r.from # r.to
      /\ b.effect.type \in {"invoke_slot", "terminate"} => r.from = DeskPrimary
      /\ b.effect.type = "invoke_slot" => r.to \in DeskSlots
      /\ b.effect.type = "resume_caller" => r.from \in Invoked(B)
  BY BoundRouteFits
<1>2. /\ b.effect.type \in {"invoke_slot", "resume_caller"} \cup Ending
      /\ b.effect.type \in Ending => b.effect.target \in DOMAIN Terminal
      /\ DeskPrimary \in DeskSlots
  BY <1>1 DEF OrchestratorAssumption
<1>3. r.from \in DeskSlots
  <2>1. r \in PlanRoutes
    OBVIOUS
  <2> QED
    BY <2>1 DEF PlanRoutes
<1>4. \A s \in DeskSlots : s # DeskPrimary => p.slots[s].callableBy = {DeskPrimary}
  BY DEF RoutesAgree, ProfileIssue, SlotsAligned
<1> HIDE DEF b, r, B
<1>5. RouteAllowed(B, p.slots, b)
  <2>1. CASE b.effect.type = "invoke_slot"
    <3>1. b.effect.target \in Supporting /\ b.effect.returnTo = b.from /\ b.from = DeskPrimary
      BY <1>1, <2>1 DEF EffectMatches, Supporting
    <3>2. b.from \in p.slots[b.effect.target].callableBy
      BY <3>1, <1>4 DEF Supporting
    <3> QED
      BY <1>1, <2>1, <3>1, <3>2 DEF RouteAllowed
  <2>2. CASE b.effect.type = "resume_caller"
    BY <1>1, <1>3, <2>2 DEF EffectMatches, RouteAllowed, MayReturn, Supporting
  <2>3. CASE b.effect.type = "terminate"
    <3>1. Terminal[b.effect.target] = "completed"
      BY <1>1, <2>3 DEF EffectMatches
    <3> QED
      BY <1>1, <2>3, <3>1 DEF RouteAllowed
  <2>4. CASE b.effect.type \in {"request_handoff", "fail_closed"}
    BY <1>1, <1>2, <2>4 DEF RouteAllowed, Ending
  <2> QED
    BY <1>2, <2>1, <2>2, <2>3, <2>4 DEF Ending
<1>6. b.effect.type = "invoke_slot" => b.from = DeskPrimary /\ b.effect.target # DeskPrimary
  BY <1>1 DEF EffectMatches
<1> QED
  BY <1>5, <1>6 DEF b, B

(* What the first validator accepts, the second does too, unless it finds    *)
(* what the first does not look at.                                          *)
LEMMA BoundIsAccepted ==
  ASSUME NEW p, NEW routes, NEW bindings,
         p.routes \in Seq(RouteProfiles), routes \in Seq(PlanRoutes),
         FirstAccepts(p, routes, bindings), ~DirectionIsWrong(p, routes),
         OrchestratorAssumption
  PROVE  DocumentAccepted(Bound(p, routes, bindings), routes, bindings)
<1> DEFINE B == BoundRoutes(p, routes)  doc == Bound(p, routes, bindings)
<1>1. DOMAIN B = DOMAIN routes /\ DOMAIN routes = 1 .. Len(routes) /\ Len(routes) \in Nat
  BY DEF BoundRoutes
<1>2. /\ doc.routes = B /\ doc.slots = p.slots /\ doc.bindings = bindings
      /\ doc.sources.slots = DOMAIN p.slots /\ doc.sources.routes = ToSet(Ids(routes))
      /\ doc.sources.bindings = {b.id : b \in bindings}
      /\ p.version = "1.0.0" => doc.version = "preview"
  BY DEF Bound
<1>3. p.version = "1.0.0" /\ routes # <<>>
  BY DEF DirectionIsWrong
<1>4. RoutesAgree(p, routes)
  BY DEF FirstAccepts, PlanAccepted, RoutesAgree
<1>5. Ids(B) = Ids(routes)
  <2>1. \A k \in DOMAIN routes : B[k].id = routes[k].id
    BY <1>4, BoundRouteFits
  <2> HIDE DEF B
  <2> QED
    BY <1>1, <2>1 DEF Ids
<1>6. SlotsAligned(p.slots)
  BY DEF FirstAccepts, ProfileIssue
<1>7. ~PrioritiesClash(B)
  <2>1. ASSUME NEW i \in DOMAIN routes, NEW j \in DOMAIN routes, B[i].priority = B[j].priority
        PROVE  i = j
    <3>1. PICK m \in DOMAIN p.routes :
            p.routes[m].id = routes[i].id /\ p.routes[m].priority = B[i].priority
      BY <1>4, BoundRouteFits
    <3>2. PICK n \in DOMAIN p.routes :
            p.routes[n].id = routes[j].id /\ p.routes[n].priority = B[j].priority
      BY <1>4, BoundRouteFits
    <3>3. DistinctPriorities(p.routes)
      BY DEF FirstAccepts, ProfileIssue
    <3>4. m = n
      BY <2>1, <3>1, <3>2, <3>3 DEF DistinctPriorities, IsInjective
    <3>5. IsInjective(Ids(routes))
      BY DEF FirstAccepts, PlanAccepted
    <3>6. Ids(routes)[i] = Ids(routes)[j] /\ i \in DOMAIN Ids(routes) /\ j \in DOMAIN Ids(routes)
      BY <3>1, <3>2, <3>4, IdsAre
    <3> QED
      BY <3>5, <3>6 DEF IsInjective
  <2> HIDE DEF B
  <2> QED
    BY <1>1, <2>1 DEF PrioritiesClash
<1>8. \A k \in DOMAIN routes :
        /\ RouteAllowed(B, p.slots, B[k])
        /\ B[k].effect.type = "invoke_slot" =>
             B[k].from = DeskPrimary /\ B[k].effect.target # DeskPrimary
  BY <1>4, BoundRouteAllowed
<1> HIDE DEF B, doc
<1>9. ~InvokeCycle(B)
  <2>1. \A x, y : Calls(B, x, y) => x = DeskPrimary /\ y # DeskPrimary
    BY <1>1, <1>8 DEF Calls
  <2> QED
    BY <2>1 DEF InvokeCycle
<1>10. WellFormed(doc)
  <2>1. B # <<>>
    BY <1>1, <1>3
  <2> QED
    BY <2>1, <1>2, <1>3 DEF WellFormed
<1>11. SlotsMatch(doc)
  BY <1>2, <1>6 DEF SlotsMatch, SlotsAligned, Supporting
<1>12. IsInjective(Ids(doc.routes))
  BY <1>2, <1>5 DEF FirstAccepts, PlanAccepted
<1>13. BindingsMatch(doc, bindings) /\ ProvenanceCloses(doc, routes, bindings)
  BY <1>2, <1>5 DEF BindingsMatch, ProvenanceCloses
<1>14. \A i \in DOMAIN doc.routes : RouteAllowed(doc.routes, doc.slots, doc.routes[i])
  BY <1>1, <1>2, <1>8
<1>15. ~PrioritiesClash(doc.routes) /\ ~InvokeCycle(doc.routes)
  BY <1>2, <1>7, <1>9
<1>16. DocumentAccepted(doc, routes, bindings)
  BY <1>10, <1>11, <1>12, <1>13, <1>14, <1>15 DEF DocumentAccepted
<1> QED
  BY <1>16 DEF doc

(* The records of the state, named.                                          *)
ProfileOf(v, r, s) == [version |-> v, routes |-> r, slots |-> s]
RouteProfileOf(id, o, pr, e) == [id |-> id, outcome |-> o, priority |-> pr, effect |-> e]

LEMMA ProfileEdited ==
  ASSUME NEW p \in Profiles, NEW r \in Seq(RouteProfiles), NEW v \in Versions
  PROVE  [p EXCEPT !.routes = r] \in Profiles /\ [p EXCEPT !.version = v] \in Profiles
<1> DEFINE S == Seq(RouteProfiles)
<1> HIDE DEF S
<1>1. \A q \in [version : Versions, routes : S, slots : SlotProfiles] :
        \A x \in S, y \in Versions :
           /\ [q EXCEPT !.routes = x] \in [version : Versions, routes : S, slots : SlotProfiles]
           /\ [q EXCEPT !.version = y] \in [version : Versions, routes : S, slots : SlotProfiles]
  OBVIOUS
<1> QED
  BY <1>1 DEF Profiles, S

LEMMA ProfileParts ==
  ASSUME NEW p \in Profiles
  PROVE  p.routes \in Seq(RouteProfiles) /\ p.version \in Versions /\ p.slots \in SlotProfiles
<1> DEFINE S == Seq(RouteProfiles)
<1> HIDE DEF S
<1>1. \A q \in [version : Versions, routes : S, slots : SlotProfiles] :
        q.routes \in S /\ q.version \in Versions /\ q.slots \in SlotProfiles
  OBVIOUS
<1> QED
  BY <1>1 DEF Profiles, S

(* An answer that compiled nothing.                                          *)
Fails(answer) ==
  /\ answer.ok \in BOOLEAN /\ ~answer.ok /\ answer.code \in AnswerCodes
  /\ answer.routes \in Seq(DocumentRoutes) /\ answer.bindings \subseteq Bindings

LEMMA RefusalFails ==
  ASSUME NEW c \in AnswerCodes
  PROVE  Fails(Failed(c)) /\ Failed(c).code = c
<1>1. Failed(c).ok = FALSE /\ Failed(c).code = c /\ Failed(c).routes = <<>>
        /\ Failed(c).bindings = {}
  BY DEF Failed
<1>2. Failed(c).ok \in BOOLEAN /\ ~Failed(c).ok
  BY <1>1
<1>3. <<>> \in Seq(DocumentRoutes)
  OBVIOUS
<1> QED
  BY <1>1, <1>2, <1>3 DEF Fails

LEMMA NotCompiledFails == Fails(NotCompiled) /\ NotCompiled.code = "none"
<1>1. "none" \in AnswerCodes
  BY DEF AnswerCodes
<1> QED
  BY <1>1, RefusalFails DEF NotCompiled

(* An edit of the author's forgets the answer.                               *)
LEMMA NothingCompiledIsCurrent ==
  ASSUME compiled' = NotCompiled
  PROVE  AnswerIsCurrent' /\ Fails(compiled)'
<1>1. Fails(compiled)' /\ (compiled.code = "none")'
  BY NotCompiledFails
<1>2. (~compiled.ok)'
  BY <1>1 DEF Fails
<1>3. AnswerIsCurrent'
  BY <1>1, <1>2 DEF AnswerIsCurrent
<1> QED
  BY <1>1, <1>3

LEMMA OrchestratorInitInv ==
  ASSUME OrchestratorInit
  PROVE  OrchestratorInv
<1>1. plan \in Seq(PlanRoutes) /\ links \subseteq Bindings /\ supplied = NoResult
  BY DEF OrchestratorInit
<1>2. profile \in Profiles
  <2>1. PICK s \in SlotProfiles : profile = [version |-> "1.0.0", routes |-> <<>>, slots |-> s]
    BY DEF OrchestratorInit
  <2>2. <<>> \in Seq(RouteProfiles) /\ "1.0.0" \in Versions
    BY DEF Versions
  <2> QED
    BY <2>1, <2>2 DEF Profiles
<1>3. compiled = NotCompiled
  BY DEF OrchestratorInit
<1>4. Fails(compiled) /\ compiled.code = "none"
  BY <1>3, NotCompiledFails
<1>5. ~compiled.ok
  BY <1>4 DEF Fails
<1>6. AnswerIsCurrent
  BY <1>4, <1>5 DEF AnswerIsCurrent
<1> QED
  BY <1>1, <1>2, <1>4, <1>6 DEF OrchestratorInv, OrchestratorTypeOK, Fails

(* The answer of a compilation is what it was asked for, whatever it is.     *)
LEMMA CompileAnswers ==
  ASSUME OrchestratorInv, CompileDocument, OrchestratorAssumption
  PROVE  OrchestratorInv'
<1> DEFINE doc == Bound(profile, plan, links)
           mismatch == SuppliedIssue(supplied, plan, links)
           issue == IF mismatch # "none" THEN mismatch ELSE ProfileIssue(profile, plan)
<1>1. /\ plan' = plan /\ links' = links /\ profile' = profile /\ supplied' = supplied
      /\ IF ~PlanAccepted(plan, links) THEN Refuse("composition not ready")
         ELSE IF issue # "none" THEN Refuse(issue)
         ELSE IF ~DocumentAccepted(doc, plan, links) THEN Refuse("document invalid")
         ELSE compiled' = [ok |-> TRUE, code |-> "none", routes |-> doc.routes,
                           bindings |-> doc.bindings]
  BY DEF CompileDocument
<1>2. doc.routes = BoundRoutes(profile, plan) /\ doc.bindings = links
  BY DEF Bound
<1>3. /\ plan \in Seq(PlanRoutes) /\ links \subseteq Bindings /\ profile \in Profiles
      /\ profile.routes \in Seq(RouteProfiles)
  BY ProfileParts DEF OrchestratorInv, OrchestratorTypeOK
<1>4. mismatch \in AnswerCodes /\ mismatch # "document invalid"
  <2>1. mismatch \in {"none", "artifact missing", "hash mismatch", "result mismatch"}
    BY DEF SuppliedIssue
  <2> HIDE DEF mismatch
  <2> QED
    BY <2>1 DEF AnswerCodes
<1>5. /\ ProfileIssue(profile, plan) \in AnswerCodes
      /\ ProfileIssue(profile, plan) # "document invalid"
  <2>1. ProfileIssue(profile, plan)
          \in {"slot mismatch", "route missing or extra", "priority conflict",
               "profile invalid", "none"}
    BY DEF ProfileIssue
  <2> QED
    BY <2>1 DEF AnswerCodes
<1>6. (plan \in Seq(PlanRoutes) /\ links \subseteq Bindings /\ profile \in Profiles
       /\ (supplied = NoResult \/ supplied \in Results))'
  BY <1>1 DEF OrchestratorInv, OrchestratorTypeOK
<1> HIDE DEF doc, mismatch
<1>7. ASSUME NEW c \in AnswerCodes, c # "document invalid", Refuse(c)
      PROVE  OrchestratorInv'
  <2>1. Fails(compiled)' /\ (compiled.code = c)'
    BY <1>7, RefusalFails DEF Refuse
  <2>2. (~compiled.ok)'
    BY <2>1 DEF Fails
  <2>3. AnswerIsCurrent'
    BY <2>1, <2>2, <1>7 DEF AnswerIsCurrent
  <2> QED
    BY <1>6, <2>1, <2>3 DEF OrchestratorInv, OrchestratorTypeOK, Fails
<1>8. CASE ~PlanAccepted(plan, links) \/ issue # "none"
  <2>1. issue \in AnswerCodes /\ issue # "document invalid"
    BY <1>4, <1>5
  <2>2. "composition not ready" \in AnswerCodes
    BY DEF AnswerCodes
  <2>3. CASE ~PlanAccepted(plan, links)
    <3>1. Refuse("composition not ready")
      BY <1>1, <2>3
    <3> QED
      BY <1>7, <2>2, <3>1
  <2>4. CASE PlanAccepted(plan, links)
    <3>1. Refuse(issue)
      BY <1>1, <1>8, <2>4
    <3> QED
      BY <1>7, <2>1, <3>1
  <2> QED
    BY <2>3, <2>4
<1>9. CASE PlanAccepted(plan, links) /\ issue = "none"
  <2>1. FirstAccepts(profile, plan, links) /\ mismatch = "none"
    BY <1>9 DEF FirstAccepts
  <2>2. (FirstAccepts(profile, plan, links) /\ SuppliedIssue(supplied, plan, links) = "none")'
    BY <1>1, <2>1 DEF mismatch
  <2>3. CASE ~DocumentAccepted(doc, plan, links)
    <3>1. Refuse("document invalid")
      BY <1>1, <1>9, <2>3
    <3>2. Fails(compiled)' /\ (compiled.code = "document invalid")'
      <4>1. "document invalid" \in AnswerCodes
        BY DEF AnswerCodes
      <4> QED
        BY <3>1, <4>1, RefusalFails DEF Refuse
    <3>5. (~compiled.ok)'
      BY <3>2 DEF Fails
    <3>3. (~DocumentAccepted(Bound(profile, plan, links), plan, links))'
      BY <1>1, <2>3 DEF doc
    <3>4. AnswerIsCurrent'
      BY <2>2, <3>2, <3>3, <3>5 DEF AnswerIsCurrent
    <3> QED
      BY <1>6, <3>2, <3>4 DEF OrchestratorInv, OrchestratorTypeOK, Fails
  <2>4. CASE DocumentAccepted(doc, plan, links)
    <3>1. compiled' = [ok |-> TRUE, code |-> "none", routes |-> doc.routes,
                       bindings |-> doc.bindings]
      BY <1>1, <1>9, <2>4
    <3>2. /\ compiled'.ok = TRUE /\ compiled'.code = "none"
          /\ compiled'.routes = BoundRoutes(profile, plan) /\ compiled'.bindings = links
      BY <1>2, <3>1
    <3>3. ToSet(Ids(plan)) = ToSet(Ids(profile.routes))
      BY <2>1 DEF FirstAccepts, ProfileIssue
    <3>4. BoundRoutes(profile, plan) \in Seq(DocumentRoutes)
      BY <1>3, <3>3, BoundIsOfRoutes
    <3>5. (DocumentAccepted(Bound(profile, plan, links), plan, links))'
      BY <1>1, <2>4 DEF doc
    <3>6. (compiled.routes = BoundRoutes(profile, plan) /\ compiled.bindings = links)'
      BY <1>1, <3>2
    <3>7. AnswerIsCurrent'
      BY <2>2, <3>2, <3>5, <3>6 DEF AnswerIsCurrent
    <3>8. (/\ compiled.ok \in BOOLEAN /\ compiled.code \in AnswerCodes
           /\ compiled.routes \in Seq(DocumentRoutes) /\ compiled.bindings \subseteq Bindings)'
      <4>1. (compiled.ok \in BOOLEAN /\ compiled.code \in AnswerCodes)'
        BY <3>2 DEF AnswerCodes
      <4>2. (compiled.routes \in Seq(DocumentRoutes))'
        BY <3>2, <3>4
      <4> QED
        BY <1>3, <3>2, <4>1, <4>2
    <3> QED
      BY <1>6, <3>7, <3>8 DEF OrchestratorInv, OrchestratorTypeOK
  <2> QED
    BY <2>3, <2>4
<1> QED
  BY <1>8, <1>9

LEMMA OrchestratorStep ==
  ASSUME OrchestratorInv, OrchestratorNext, OrchestratorAssumption
  PROVE  OrchestratorInv'
<1>1. /\ plan \in Seq(PlanRoutes) /\ links \subseteq Bindings /\ profile \in Profiles
      /\ profile.routes \in Seq(RouteProfiles)
      /\ supplied = NoResult \/ supplied \in Results
  BY ProfileParts DEF OrchestratorInv, OrchestratorTypeOK
<1> DEFINE Edited == /\ plan \in Seq(PlanRoutes) /\ links \subseteq Bindings
                     /\ profile \in Profiles /\ (supplied = NoResult \/ supplied \in Results)
<1>2. ASSUME compiled' = NotCompiled, Edited' PROVE OrchestratorInv'
  BY <1>2, NothingCompiledIsCurrent DEF OrchestratorInv, OrchestratorTypeOK, Fails
<1>3. ASSUME NEW id \in RouteIds, NEW r \in PlanChoices, NEW q \in ProfileChoices,
             WriteRoute(id, r, q)
      PROVE  OrchestratorInv'
  <2> DEFINE e == [id |-> id, from |-> r.from, to |-> r.to, mode |-> r.mode]
             f == RouteProfileOf(id, q.outcome, q.priority, q.effect)
  <2>1. e \in PlanRoutes
    <3>1. r \in [from : DeskSlots, to : DeskSlots \cup DOMAIN Terminal, mode : Modes]
      BY DEF OrchestratorAssumption
    <3> QED
      BY <3>1 DEF PlanRoutes
  <2>2. f \in RouteProfiles
    <3>1. q \in [outcome : Outcomes, priority : Nat, effect : RouteEffects]
      BY DEF OrchestratorAssumption
    <3> QED
      BY <3>1 DEF RouteProfiles, RouteProfileOf
  <2>3. /\ plan' = Append(plan, e) /\ compiled' = NotCompiled
        /\ profile' = [profile EXCEPT !.routes = Append(profile.routes, f)]
        /\ links' = links /\ supplied' = supplied
    BY <1>3 DEF WriteRoute, RouteProfileOf
  <2> HIDE DEF e, f
  <2>4. Append(plan, e) \in Seq(PlanRoutes) /\ Append(profile.routes, f) \in Seq(RouteProfiles)
    BY <1>1, <2>1, <2>2, AppendKeeps
  <2>5. "1.0.0" \in Versions
    BY DEF Versions
  <2>6. profile' \in Profiles
    BY <1>1, <2>3, <2>4, <2>5, ProfileEdited
  <2> QED
    BY <1>1, <1>2, <2>3, <2>4, <2>6
<1>4. ASSUME NEW b \in Bindings, Link(b) PROVE OrchestratorInv'
  <2>1. Edited' /\ compiled' = NotCompiled
    BY <1>1, <1>4 DEF Link
  <2> QED
    BY <1>2, <2>1
<1>5. CASE DropProfile
  <2>1. /\ profile.routes # <<>> /\ compiled' = NotCompiled
        /\ profile' = [profile EXCEPT !.routes = Front(profile.routes)]
        /\ plan' = plan /\ links' = links /\ supplied' = supplied
    BY <1>5 DEF DropProfile
  <2>2. Front(profile.routes) \in Seq(RouteProfiles) /\ "1.0.0" \in Versions
    BY <1>1, <2>1, FrontKeeps DEF Versions
  <2>3. profile' \in Profiles
    BY <1>1, <2>1, <2>2, ProfileEdited
  <2> QED
    BY <1>1, <1>2, <2>1, <2>3
<1>6. CASE Relabel
  <2>1. /\ compiled' = NotCompiled /\ profile' = [profile EXCEPT !.version = "1.0.0-rc"]
        /\ plan' = plan /\ links' = links /\ supplied' = supplied
    BY <1>6 DEF Relabel
  <2>2. "1.0.0-rc" \in Versions
    BY DEF Versions
  <2>3. profile' \in Profiles
    BY <1>1, <2>1, <2>2, ProfileEdited
  <2> QED
    BY <1>1, <1>2, <2>1, <2>3
<1>7. CASE SupplyResult
  <2>1. PICK a \in Alterations : supplied' = [routes |-> plan, bindings |-> links, altered |-> a]
    BY <1>7 DEF SupplyResult
  <2>2. supplied' \in Results
    <3> DEFINE S == Seq(PlanRoutes)
    <3> HIDE DEF S
    <3>1. \A x \in S, y \in SUBSET Bindings, a_ \in Alterations :
            [routes |-> x, bindings |-> y, altered |-> a_]
              \in [routes : S, bindings : SUBSET Bindings, altered : Alterations]
      OBVIOUS
    <3>2. plan \in S
      BY <1>1 DEF S
    <3> QED
      BY <1>1, <2>1, <3>1, <3>2 DEF Results, S
  <2>3. compiled' = NotCompiled /\ plan' = plan /\ links' = links /\ profile' = profile
    BY <1>7 DEF SupplyResult
  <2> QED
    BY <1>1, <1>2, <2>2, <2>3
<1>8. CASE CompileDocument
  BY <1>8, CompileAnswers
<1> QED
  BY <1>3, <1>4, <1>5, <1>6, <1>7, <1>8 DEF OrchestratorNext, Writable

LEMMA OrchestratorKept ==
  ASSUME OrchestratorAssumption
  PROVE  OrchestratorSpec => []OrchestratorInv
<1>1. OrchestratorInit => OrchestratorInv
  BY OrchestratorInitInv
<1>2. OrchestratorInv /\ [OrchestratorNext]_orchestratorVars => OrchestratorInv'
  <2> SUFFICES ASSUME OrchestratorInv, [OrchestratorNext]_orchestratorVars
               PROVE  OrchestratorInv'
    OBVIOUS
  <2>1. CASE OrchestratorNext
    BY <2>1, OrchestratorStep
  <2>2. CASE UNCHANGED orchestratorVars
    BY <2>2 DEF OrchestratorInv, OrchestratorTypeOK, AnswerIsCurrent, orchestratorVars
  <2> QED
    BY <2>1, <2>2
<1> QED
  BY <1>1, <1>2, PTL DEF OrchestratorSpec

(* What a profile is refused for late follows from what is bound for it.     *)
LEMMA CurrentIsSound ==
  ASSUME OrchestratorInv, OrchestratorAssumption
  PROVE  DocumentsAreSound
<1>1. /\ plan \in Seq(PlanRoutes) /\ profile.routes \in Seq(RouteProfiles)
      /\ compiled.routes \in Seq(DocumentRoutes)
      /\ supplied = NoResult \/ supplied \in Results
  BY ProfileParts DEF OrchestratorInv, OrchestratorTypeOK
<1>2. ASSUME compiled.ok PROVE CompiledDocumentsRun
  <2> DEFINE doc == Bound(profile, plan, links)
  <2>1. DocumentAccepted(doc, plan, links) /\ compiled.routes = BoundRoutes(profile, plan)
    BY <1>2 DEF OrchestratorInv, AnswerIsCurrent
  <2>2. doc.routes = compiled.routes
    BY <2>1 DEF Bound
  <2> HIDE DEF doc
  <2>3. doc.routes \in Seq(DocumentRoutes)
    BY <1>1, <2>2
  <2> QED
    BY <2>1, <2>2, <2>3, AcceptedRuns
<1>3. CompiledDocumentsRun
  BY <1>2 DEF CompiledDocumentsRun
<1>4. LateRefusalsAreOfDirection
  <2>1. SUFFICES ASSUME compiled.code = "document invalid" PROVE DirectionIsWrong(profile, plan)
    BY DEF LateRefusalsAreOfDirection, DirectionIsWrong
  <2>2. /\ FirstAccepts(profile, plan, links)
        /\ ~DocumentAccepted(Bound(profile, plan, links), plan, links)
    BY <2>1 DEF OrchestratorInv, AnswerIsCurrent
  <2> QED
    BY <1>1, <2>2, BoundIsAccepted
<1>5. CompiledIsOfPlan
  <2>1. SUFFICES ASSUME compiled.ok
        PROVE  /\ Ids(compiled.routes) = Ids(plan) /\ compiled.bindings = links
               /\ supplied # NoResult =>
                    supplied = [routes |-> plan, bindings |-> links, altered |-> "none"]
    BY DEF CompiledIsOfPlan
  <2>2. /\ compiled.routes = BoundRoutes(profile, plan) /\ compiled.bindings = links
        /\ SuppliedIssue(supplied, plan, links) = "none"
    BY <2>1 DEF OrchestratorInv, AnswerIsCurrent
  <2>3. DOMAIN BoundRoutes(profile, plan) = DOMAIN plan
    BY DEF BoundRoutes
  <2>4. \A k \in DOMAIN plan : BoundRoutes(profile, plan)[k].id = plan[k].id
    BY DEF BoundRoutes
  <2>5. Ids(compiled.routes) = Ids(plan)
    BY <2>2, <2>3, <2>4 DEF Ids
  <2>6. ASSUME supplied # NoResult
        PROVE  supplied = [routes |-> plan, bindings |-> links, altered |-> "none"]
    <3>1. supplied.routes = plan /\ supplied.bindings = links
      BY <2>2, <2>6 DEF SuppliedIssue
    <3>2. supplied.altered \notin {"removed", "edited", "rehashed"}
      BY <2>2, <2>6 DEF SuppliedIssue
    <3> DEFINE S == Seq(PlanRoutes)
    <3> HIDE DEF S
    <3>3. \A x \in [routes : S, bindings : SUBSET Bindings, altered : Alterations] :
            x.altered \in Alterations
      OBVIOUS
    <3>4. supplied \in [routes : S, bindings : SUBSET Bindings, altered : Alterations]
      BY <1>1, <2>6 DEF S, Results
    <3>5. supplied.altered = "none"
      BY <3>2, <3>3, <3>4 DEF Alterations
    <3> QED
      BY <3>1, <3>4, <3>5
  <2> QED
    BY <2>2, <2>5, <2>6
<1> QED
  BY <1>3, <1>4, <1>5 DEF DocumentsAreSound

(* Whatever an author writes, links, labels and hands over, what the          *)
(* compiler hands on is of the plan as it is and one the engine can run, and  *)
(* a profile its first validator lets through is refused by its second only   *)
(* for which way its routes go, its label, or a plan without routes.          *)
THEOREM DocumentsAreAlwaysSound ==
  ASSUME OrchestratorAssumption
  PROVE  OrchestratorSpec => []DocumentsAreSound
<1>1. OrchestratorSpec => []OrchestratorInv
  BY OrchestratorKept
<1>2. OrchestratorInv => DocumentsAreSound
  BY CurrentIsSound
<1> QED
  BY <1>1, <1>2, PTL

-----------------------------------------------------------------------------
(* CompositionCompiler: for any slots, overlays, routes and bindings an       *)
(* author may write, any pattern and any hosts.                               *)

(* Among finitely many places each number up to theirs is that of one.       *)
LEMMA EachPlaceIsNumbered ==
  ASSUME NEW n \in Nat, NEW S, S \subseteq 1 .. n, NEW k \in 1 .. Cardinality(S)
  PROVE  \E i \in S : Cardinality(UpTo(S, i)) = k
<1> DEFINE f == [i \in S |-> Cardinality(UpTo(S, i))]
           c == Cardinality(S)
<1>1. IsFiniteSet(S) /\ c \in Nat
  <2>1. IsFiniteSet(1 .. n)
    BY FS_Interval
  <2>2. S \in SUBSET (1 .. n)
    OBVIOUS
  <2>3. IsFiniteSet(S)
    BY <2>1, <2>2, FS_Subset
  <2> QED
    BY <2>3, FS_CardinalityType
<1>2. ASSUME NEW i \in S
      PROVE  IsFiniteSet(UpTo(S, i)) /\ Cardinality(UpTo(S, i)) \in 1 .. c
  <2>1. UpTo(S, i) \in SUBSET S /\ i \in UpTo(S, i)
    BY DEF UpTo
  <2>2. IsFiniteSet(UpTo(S, i)) /\ Cardinality(UpTo(S, i)) <= c /\ Cardinality(UpTo(S, i)) \in Nat
    BY <1>1, <2>1, FS_Subset, FS_CardinalityType
  <2>3. Cardinality(UpTo(S, i)) # 0
    BY <2>1, <2>2, FS_EmptySet
  <2> QED
    BY <1>1, <2>2, <2>3
<1>3. ASSUME NEW i \in S, NEW j \in S, i < j
      PROVE  Cardinality(UpTo(S, i)) # Cardinality(UpTo(S, j))
  <2>1. UpTo(S, i) \in SUBSET UpTo(S, j) /\ j \in UpTo(S, j) /\ j \notin UpTo(S, i)
    <3>1. S \subseteq Int /\ i \in Int /\ j \in Int
      OBVIOUS
    <3>2. \A x \in Int : x <= i => x <= j
      BY <1>3, <3>1
    <3>3. j <= j /\ ~ (j <= i)
      BY <1>3, <3>1
    <3> QED
      BY <3>1, <3>2, <3>3 DEF UpTo
  <2>2. UpTo(S, i) # UpTo(S, j)
    BY <2>1
  <2> QED
    BY <1>2, <2>1, <2>2, FS_Subset
<1>4. \A i, j \in S : Cardinality(UpTo(S, i)) = Cardinality(UpTo(S, j)) => i = j
  BY <1>3
<1>5. /\ f \in [S -> 1 .. c] /\ DOMAIN f = S
      /\ \A i \in S : f[i] = Cardinality(UpTo(S, i))
  BY <1>2
<1> HIDE DEF f, c
<1>6. IsInjective(f)
  BY <1>4, <1>5 DEF IsInjective
<1>7. f \in Injection(S, 1 .. c)
  BY <1>5, <1>6 DEF Injection
<1>8. IsFiniteSet(1 .. c) /\ Cardinality(1 .. c) = c
  BY <1>1, FS_Interval
<1>9. f \in Surjection(S, 1 .. c)
  BY <1>7, <1>8, FS_Injection DEF c
<1>10. PICK i \in S : f[i] = k
  BY <1>9 DEF Surjection, c
<1> QED
  BY <1>5, <1>10

(* The slots of a role are slots of the plan, and have it.                   *)
LEMMA SlotsOfRole ==
  ASSUME NEW T, NEW slots \in Seq(T), NEW role
  PROVE  /\ OfRole(slots, role) \in Seq(T)
         /\ \A k \in DOMAIN OfRole(slots, role) :
              \E i \in DOMAIN slots :
                OfRole(slots, role)[k] = slots[i] /\ slots[i].role = role
<1> DEFINE S == PlacesOf(slots, role)  c == Cardinality(S)
           Nth(k) == CHOOSE i \in S : Cardinality(UpTo(S, i)) = k
<1>1. /\ Len(slots) \in Nat /\ DOMAIN slots = 1 .. Len(slots)
      /\ \A i \in 1 .. Len(slots) : slots[i] \in T
  OBVIOUS
<1>2. S \subseteq 1 .. Len(slots) /\ \A i \in S : slots[i].role = role
  BY <1>1 DEF PlacesOf
<1>3. c \in Nat
  <2>1. IsFiniteSet(1 .. Len(slots))
    BY <1>1, FS_Interval
  <2> HIDE DEF S
  <2> QED
    BY <1>2, <2>1, FS_Subset, FS_CardinalityType
<1>4. OfRole(slots, role) = [k \in 1 .. c |-> slots[Nth(k)]]
  BY DEF OfRole
<1> HIDE DEF S
<1>5. \A k \in 1 .. c : Nth(k) \in S
  BY <1>1, <1>2, EachPlaceIsNumbered
<1> HIDE DEF c, Nth
<1>6. /\ DOMAIN OfRole(slots, role) = 1 .. c
      /\ \A k \in 1 .. c : OfRole(slots, role)[k] = slots[Nth(k)]
  BY <1>4
<1>7. OfRole(slots, role) \in [1 .. c -> T]
  BY <1>1, <1>2, <1>4, <1>5
<1>8. OfRole(slots, role) \in Seq(T)
  BY <1>3, <1>7
<1> QED
  BY <1>1, <1>2, <1>5, <1>6, <1>8

(* A list of all the members of a set, each once, is as long as the set.     *)
LEMMA ExactIsAsLong ==
  ASSUME NEW n \in Nat, NEW a, DOMAIN a = 1 .. n, NEW S, ExactSetMatch(a, S),
         a = [i \in 1 .. n |-> a[i]]
  PROVE  Cardinality(S) = n
<1>1. IsInjective(a) /\ ToSet(a) = S
  BY DEF ExactSetMatch
<1>2. a \in [1 .. n -> S] /\ \A x \in S : \E i \in 1 .. n : a[i] = x
  BY <1>1 DEF ToSet
<1>3. a \in Bijection(1 .. n, S)
  BY <1>1, <1>2 DEF Bijection, Injection, Surjection
<1>4. IsFiniteSet(1 .. n) /\ Cardinality(1 .. n) = n
  BY FS_Interval
<1>5. ExistsBijection(1 .. n, S)
  BY <1>3 DEF ExistsBijection
<1> QED
  BY <1>4, <1>5, FS_Bijection

(* What the validators of a plan say of the slots a bundle is made of.       *)
LEMMA ValidPlanFits ==
  ASSUME NEW plan_, SlotsValid(plan_), plan_.slots \in Seq(SlotChoices)
  PROVE  /\ Len(OfRole(plan_.slots, "primary")) = 1
         /\ Len(OfRole(plan_.slots, "supporting")) = Cardinality(Pattern.supporting)
         /\ \A k \in DOMAIN OfRole(plan_.slots, "primary") :
              LET s == OfRole(plan_.slots, "primary")[k]
              IN  /\ s.role = "primary" /\ s.archetype = Pattern.primary
                  /\ s \in ToSet(plan_.slots) /\ s.config.adapters = "mock"
         /\ \A k \in DOMAIN OfRole(plan_.slots, "supporting") :
              LET s == OfRole(plan_.slots, "supporting")[k]
              IN  /\ s.archetype \in Pattern.supporting
                  /\ s \in ToSet(plan_.slots) /\ s.config.adapters = "mock"
         /\ \A x \in Pattern.supporting :
              \E k \in DOMAIN OfRole(plan_.slots, "supporting") :
                OfRole(plan_.slots, "supporting")[k].archetype = x
<1> DEFINE P == OfRole(plan_.slots, "primary")  Q == OfRole(plan_.slots, "supporting")
           A == Each(Q, "archetype")
<1>1. /\ P \in Seq(SlotChoices) /\ Q \in Seq(SlotChoices)
      /\ \A k \in DOMAIN P : \E i \in DOMAIN plan_.slots :
           P[k] = plan_.slots[i] /\ plan_.slots[i].role = "primary"
      /\ \A k \in DOMAIN Q : \E i \in DOMAIN plan_.slots :
           Q[k] = plan_.slots[i] /\ plan_.slots[i].role = "supporting"
  BY SlotsOfRole
<1>2. /\ Len(P) = 1 /\ ExactSetMatch(A, Pattern.supporting)
      /\ \A i \in DOMAIN plan_.slots :
           /\ plan_.slots[i].archetype \in IF plan_.slots[i].role = "primary"
                                           THEN {Pattern.primary} ELSE Pattern.supporting
           /\ plan_.slots[i].config.adapters = "mock"
  BY DEF SlotsValid, ConfigFits
<1> HIDE DEF P, Q
<1>3. Len(Q) \in Nat /\ DOMAIN Q = 1 .. Len(Q)
  BY <1>1
<1>4. A = [i \in 1 .. Len(Q) |-> Q[i]["archetype"]]
  BY <1>3 DEF Each
<1>5. DOMAIN A = 1 .. Len(Q) /\ A = [i \in 1 .. Len(Q) |-> A[i]]
      /\ \A i \in 1 .. Len(Q) : A[i] = Q[i].archetype
  BY <1>4
<1> HIDE DEF A
<1>6. Cardinality(Pattern.supporting) = Len(Q)
  BY <1>2, <1>3, <1>5, ExactIsAsLong
<1>7. \A x \in Pattern.supporting : \E k \in DOMAIN Q : Q[k].archetype = x
  BY <1>2, <1>3, <1>5 DEF ExactSetMatch, ToSet
<1>8. ASSUME NEW k \in DOMAIN P
      PROVE  /\ P[k].role = "primary" /\ P[k].archetype = Pattern.primary
             /\ P[k] \in ToSet(plan_.slots) /\ P[k].config.adapters = "mock"
  <2>1. PICK i \in DOMAIN plan_.slots : P[k] = plan_.slots[i] /\ plan_.slots[i].role = "primary"
    BY <1>1
  <2> QED
    BY <1>2, <2>1 DEF ToSet
<1>9. ASSUME NEW k \in DOMAIN Q
      PROVE  /\ Q[k].archetype \in Pattern.supporting
             /\ Q[k] \in ToSet(plan_.slots) /\ Q[k].config.adapters = "mock"
  <2>1. PICK i \in DOMAIN plan_.slots : Q[k] = plan_.slots[i] /\ plan_.slots[i].role = "supporting"
    BY <1>1
  <2> QED
    BY <1>2, <2>1 DEF ToSet
<1>10. /\ Len(P) = 1 /\ Len(Q) = Cardinality(Pattern.supporting)
       /\ \A k \in DOMAIN P :
            /\ P[k].role = "primary" /\ P[k].archetype = Pattern.primary
            /\ P[k] \in ToSet(plan_.slots) /\ P[k].config.adapters = "mock"
       /\ \A k \in DOMAIN Q :
            /\ Q[k].archetype \in Pattern.supporting
            /\ Q[k] \in ToSet(plan_.slots) /\ Q[k].config.adapters = "mock"
       /\ \A x \in Pattern.supporting : \E k \in DOMAIN Q : Q[k].archetype = x
  BY <1>2, <1>6, <1>7, <1>8, <1>9
<1> QED
  BY <1>10 DEF P, Q

(* What a bundle of a plan is, apart from where it is kept.                  *)
IsWhole(b, slots) ==
  IF b.ok
  THEN /\ b.slots[1].role = "primary" /\ b.slots[1].archetype = Pattern.primary
       /\ ToSet(Each(b.slots, "archetype")) = {Pattern.primary} \cup Pattern.supporting
       /\ Len(b.slots) = 1 + Cardinality(Pattern.supporting)
       /\ ToSet(b.slots) \subseteq ToSet(slots)
       /\ \A i \in DOMAIN b.slots :
            /\ b.index[i].config = b.slots[i].config
            /\ b.slots[i].config.adapters = "mock"
  ELSE b.slots = <<>> /\ b.index = <<>>

LEMMA RefusedIsNothing ==
  ASSUME NEW code
  PROVE  /\ ~Refused(code).ok /\ Refused(code).slots = <<>> /\ Refused(code).index = <<>>
BY DEF Refused, NoBundle

(* One slot, and the list of the others behind it.                           *)
LEMMA OneThenOthers ==
  ASSUME NEW T, NEW P \in Seq(T), NEW Q \in Seq(T), Len(P) = 1
  PROVE  /\ P \o Q \in Seq(T) /\ Len(P \o Q) = 1 + Len(Q) /\ (P \o Q)[1] = P[1]
         /\ \A i \in DOMAIN (P \o Q) :
              i = 1 \/ (i - 1 \in DOMAIN Q /\ (P \o Q)[i] = Q[i - 1])
         /\ \A k \in DOMAIN Q : k + 1 \in DOMAIN (P \o Q) /\ (P \o Q)[k + 1] = Q[k]
<1> DEFINE R == P \o Q  n == Len(Q)
<1>1. R \in Seq(T) /\ n \in Nat /\ DOMAIN Q = 1 .. n
  OBVIOUS
<1>2. Len(P \o Q) = Len(P) + Len(Q) /\ P \o Q \in Seq(T)
  BY ConcatProperties
<1>3. \A i \in 1 .. Len(P) + Len(Q) :
        (P \o Q)[i] = IF i <= Len(P) THEN P[i] ELSE Q[i - Len(P)]
  BY ConcatProperties
<1>4. Len(R) = 1 + n /\ DOMAIN R = 1 .. 1 + n
  BY <1>2
<1>5. \A i \in 1 .. 1 + n : R[i] = IF i <= 1 THEN P[i] ELSE Q[i - 1]
  BY <1>3
<1> HIDE DEF R, n
<1>6. R[1] = P[1]
  BY <1>1, <1>5
<1>7. ASSUME NEW i \in 1 .. 1 + n, i # 1
      PROVE  i - 1 \in 1 .. n /\ R[i] = Q[i - 1]
  BY <1>1, <1>5, <1>7
<1>8. ASSUME NEW k \in 1 .. n
      PROVE  k + 1 \in 1 .. 1 + n /\ R[k + 1] = Q[k]
  <2>1. k + 1 \in 1 .. 1 + n /\ k + 1 # 1 /\ k + 1 - 1 = k
    BY <1>1
  <2> QED
    BY <1>7, <2>1
<1>9. /\ R \in Seq(T) /\ Len(R) = 1 + n /\ R[1] = P[1]
      /\ \A i \in DOMAIN R : i = 1 \/ (i - 1 \in DOMAIN Q /\ R[i] = Q[i - 1])
      /\ \A k \in DOMAIN Q : k + 1 \in DOMAIN R /\ R[k + 1] = Q[k]
  BY <1>1, <1>4, <1>6, <1>7, <1>8
<1> QED
  BY <1>9 DEF R, n

LEMMA PairedIsWhole ==
  ASSUME NEW P \in Seq(SlotChoices), NEW Q \in Seq(SlotChoices), NEW slots,
         Len(P) = 1, Len(Q) = Cardinality(Pattern.supporting),
         \A k \in DOMAIN P :
            /\ P[k].role = "primary" /\ P[k].archetype = Pattern.primary
            /\ P[k] \in ToSet(slots) /\ P[k].config.adapters = "mock",
         \A k \in DOMAIN Q :
            /\ Q[k].archetype \in Pattern.supporting
            /\ Q[k] \in ToSet(slots) /\ Q[k].config.adapters = "mock",
         \A x \in Pattern.supporting : \E k \in DOMAIN Q : Q[k].archetype = x
  PROVE  IsWhole(CompiledSlots(P \o Q), slots)
<1> DEFINE b == CompiledSlots(P \o Q)  n == Len(Q)
<1>1. CASE \E i \in DOMAIN (P \o Q) : ~(P \o Q)[i].config.compiles
  <2>1. b = Refused("PARTIAL_RESULT_NOT_ALLOWED")
    BY <1>1 DEF CompiledSlots
  <2> HIDE DEF b
  <2>2. IsWhole(b, slots)
    BY <2>1, RefusedIsNothing DEF IsWhole
  <2> QED
    BY <2>2 DEF b
<1>2. CASE ~ \E i \in DOMAIN (P \o Q) : ~(P \o Q)[i].config.compiles
  <2>1. b = [ok |-> TRUE, code |-> "none", slots |-> P \o Q, index |-> Index(P \o Q)]
    BY <1>2 DEF CompiledSlots
  <2>2. b.slots = P \o Q /\ b.index = Index(P \o Q)
    BY <2>1
  <2>3. n \in Nat /\ DOMAIN P = 1 .. 1 /\ DOMAIN Q = 1 .. n
    OBVIOUS
  <2> DEFINE R == P \o Q
  <2>4. /\ R \in Seq(SlotChoices) /\ Len(R) = 1 + n /\ R[1] = P[1]
        /\ \A i \in DOMAIN R : i = 1 \/ (i - 1 \in DOMAIN Q /\ R[i] = Q[i - 1])
        /\ \A k \in DOMAIN Q : k + 1 \in DOMAIN R /\ R[k + 1] = Q[k]
    BY OneThenOthers
  <2>5. \A i \in DOMAIN R : Index(R)[i].config = R[i].config
    BY DEF Index
  <2> HIDE DEF R, n
  <2>6. P[1].role = "primary" /\ P[1].archetype = Pattern.primary
        /\ P[1] \in ToSet(slots) /\ P[1].config.adapters = "mock"
    BY <2>3
  <2>7. ASSUME NEW i \in DOMAIN R
        PROVE  /\ R[i] \in ToSet(slots) /\ R[i].config.adapters = "mock"
               /\ R[i].archetype \in {Pattern.primary} \cup Pattern.supporting
    <3>1. CASE i = 1
      BY <2>4, <2>6, <3>1
    <3>2. CASE i - 1 \in DOMAIN Q /\ R[i] = Q[i - 1]
      BY <3>2
    <3> QED
      BY <2>4, <3>1, <3>2
  <2>8. ASSUME NEW x \in {Pattern.primary} \cup Pattern.supporting
        PROVE  \E i \in DOMAIN R : R[i].archetype = x
    <3>1. CASE x = Pattern.primary
      <4>1. 1 \in DOMAIN R
        <5>1. DOMAIN R = 1 .. Len(R)
          BY <2>4
        <5> QED
          BY <2>3, <2>4, <5>1
      <4> QED
        BY <3>1, <4>1, <2>4, <2>6
    <3>2. CASE x \in Pattern.supporting
      <4>1. PICK k \in DOMAIN Q : Q[k].archetype = x
        BY <3>2
      <4> QED
        BY <4>1, <2>4
    <3> QED
      BY <3>1, <3>2
  <2>9. ToSet(Each(R, "archetype")) = {Pattern.primary} \cup Pattern.supporting
    <3>1. DOMAIN Each(R, "archetype") = DOMAIN R
          /\ \A i \in DOMAIN R : Each(R, "archetype")[i] = R[i].archetype
      BY DEF Each
    <3>2. \A i \in DOMAIN R : R[i].archetype \in {Pattern.primary} \cup Pattern.supporting
      BY <2>7
    <3> DEFINE E == Each(R, "archetype")  W == {Pattern.primary} \cup Pattern.supporting
    <3> HIDE DEF E, W
    <3>3. ToSet(E) = {E[i] : i \in DOMAIN E}
      BY DEF ToSet
    <3>4. \A i \in DOMAIN E : E[i] \in W
      BY <3>1, <3>2 DEF E, W
    <3>5. ASSUME NEW x \in W PROVE \E i \in DOMAIN E : E[i] = x
      <4>1. PICK i \in DOMAIN R : R[i].archetype = x
        BY <2>8 DEF W
      <4>2. i \in DOMAIN E /\ E[i] = R[i].archetype
        BY <3>1 DEF E
      <4> QED
        BY <4>1, <4>2
    <3>6. ToSet(E) = W
      BY <3>3, <3>4, <3>5
    <3> QED
      BY <3>6 DEF E, W
  <2>10. ToSet(R) \subseteq ToSet(slots)
    <3>1. \A x \in ToSet(R) : \E i \in DOMAIN R : x = R[i]
      BY DEF ToSet
    <3> QED
      BY <3>1, <2>7
  <2>11. b.slots = R /\ b.index = Index(R) /\ b.ok = TRUE
    BY <2>1, <2>2 DEF R
  <2> HIDE DEF b
  <2>12. Len(R) = 1 + Cardinality(Pattern.supporting)
    BY <2>4 DEF n
  <2>13. IsWhole(b, slots)
    BY <2>4, <2>5, <2>6, <2>7, <2>9, <2>10, <2>11, <2>12 DEF IsWhole
  <2> QED
    BY <2>13 DEF b
<1> QED
  BY <1>1, <1>2

LEMMA PreviewIsWhole ==
  ASSUME NEW plan_, NEW host, plan_.slots \in Seq(SlotChoices)
  PROVE  IsWhole(Preview(plan_, host), plan_.slots)
<1>1. ASSUME NEW code, Preview(plan_, host) = Refused(code)
      PROVE  IsWhole(Preview(plan_, host), plan_.slots)
  BY <1>1, RefusedIsNothing DEF IsWhole
<1>2. CASE /\ PlanValid(plan_)
           /\ Preview(plan_, host)
                = CompiledSlots(OfRole(plan_.slots, "primary") \o OfRole(plan_.slots, "supporting"))
  <2> DEFINE P == OfRole(plan_.slots, "primary")  Q == OfRole(plan_.slots, "supporting")
  <2>1. SlotsValid(plan_)
    BY <1>2 DEF PlanValid
  <2>2. P \in Seq(SlotChoices) /\ Q \in Seq(SlotChoices)
    BY SlotsOfRole
  <2>3. /\ Len(P) = 1 /\ Len(Q) = Cardinality(Pattern.supporting)
        /\ \A k \in DOMAIN P :
             /\ P[k].role = "primary" /\ P[k].archetype = Pattern.primary
             /\ P[k] \in ToSet(plan_.slots) /\ P[k].config.adapters = "mock"
        /\ \A k \in DOMAIN Q :
             /\ Q[k].archetype \in Pattern.supporting
             /\ Q[k] \in ToSet(plan_.slots) /\ Q[k].config.adapters = "mock"
        /\ \A x \in Pattern.supporting : \E k \in DOMAIN Q : Q[k].archetype = x
    BY <2>1, ValidPlanFits
  <2> HIDE DEF P, Q
  <2>4. IsWhole(CompiledSlots(P \o Q), plan_.slots)
    BY <2>2, <2>3, PairedIsWhole
  <2> QED
    BY <2>4, <1>2 DEF P, Q
<1>3. \/ \E code \in {"SLOT_NAMESPACE_COLLISION", "COMPILE_INPUT_INVALID", "OUTPUT_PATH_UNSAFE",
                      "NOT_COMPILE_READY", "COMPILER_NOT_AVAILABLE"} :
           Preview(plan_, host) = Refused(code)
      \/ /\ PlanValid(plan_)
         /\ Preview(plan_, host)
              = CompiledSlots(OfRole(plan_.slots, "primary") \o OfRole(plan_.slots, "supporting"))
  BY DEF Preview
<1> QED
  BY <1>1, <1>2, <1>3

(* What a host supports counts for whether a plan compiles, and for nothing  *)
(* else.                                                                     *)
LEMMA MoreSupportHelps ==
  ASSUME NEW plan_, NEW less, NEW more,
         less.compiler \subseteq more.compiler, less.workbench \subseteq more.workbench,
         less.crossCutting \subseteq more.crossCutting, less.available => more.available,
         Preview(plan_, less).ok
  PROVE  Preview(plan_, more).ok
<1>1. \A code : ~Refused(code).ok
  BY RefusedIsNothing
<1>2. /\ IsInjective(Each(plan_.slots, "id")) /\ PlanValid(plan_)
      /\ ~ \E i \in DOMAIN plan_.slots : ~plan_.slots[i].safe
      /\ Readiness(plan_, less) = "compile_ready" /\ less.available
  BY <1>1 DEF Preview
<1>3. Preview(plan_, less)
        = CompiledSlots(OfRole(plan_.slots, "primary") \o OfRole(plan_.slots, "supporting"))
  BY <1>2 DEF Preview
<1>4. /\ ToSet(Each(plan_.slots, "archetype")) \subseteq less.compiler
      /\ ToSet(Each(plan_.slots, "archetype")) \subseteq less.workbench
      /\ ToSet(Each(plan_.overlays, "archetype")) \subseteq less.crossCutting
  BY <1>2 DEF Readiness
<1>5. Readiness(plan_, more) = "compile_ready"
  <2>1. /\ ToSet(Each(plan_.slots, "archetype")) \subseteq more.compiler
        /\ ToSet(Each(plan_.slots, "archetype")) \subseteq more.workbench
        /\ ToSet(Each(plan_.overlays, "archetype")) \subseteq more.crossCutting
    BY <1>4
  <2> QED
    BY <1>2, <2>1 DEF Readiness
<1>6. Preview(plan_, more) = Preview(plan_, less)
  BY <1>2, <1>3, <1>5 DEF Preview
<1> QED
  BY <1>6

-----------------------------------------------------------------------------
CompositionInv == composition \in Plans /\ IsWhole(bundle, composition.slots)

LEMMA AppendKeepsMembers ==
  ASSUME NEW T, NEW s \in Seq(T), NEW e \in T
  PROVE  ToSet(s) \subseteq ToSet(Append(s, e))
<1>1. \A i \in DOMAIN s : i \in DOMAIN Append(s, e) /\ Append(s, e)[i] = s[i]
  OBVIOUS
<1> QED
  BY <1>1 DEF ToSet

LEMMA PlanParts ==
  ASSUME NEW p \in Plans
  PROVE  /\ p.slots \in Seq(SlotChoices) /\ p.overlays \in Seq(OverlayRefs)
         /\ p.routes \in Seq(RouteChoices) /\ p.bindings \in Seq(BindingRefs)
<1> DEFINE S == Seq(SlotChoices)  O == Seq(OverlayRefs)  R == Seq(RouteChoices)
           B == Seq(BindingRefs)
<1> HIDE DEF S, O, R, B
<1>1. \A q \in [slots : S, overlays : O, routes : R, bindings : B] :
        q.slots \in S /\ q.overlays \in O /\ q.routes \in R /\ q.bindings \in B
  OBVIOUS
<1> QED
  BY <1>1 DEF Plans, S, O, R, B

LEMMA PlanEdited ==
  ASSUME NEW p \in Plans
  PROVE  /\ \A s \in Seq(SlotChoices) :
              /\ [p EXCEPT !["slots"] = s] \in Plans
              /\ [p EXCEPT !["slots"] = s].slots = s
         /\ \A s \in Seq(OverlayRefs) :
              /\ [p EXCEPT !["overlays"] = s] \in Plans
              /\ [p EXCEPT !["overlays"] = s].slots = p.slots
         /\ \A s \in Seq(RouteChoices) :
              /\ [p EXCEPT !["routes"] = s] \in Plans
              /\ [p EXCEPT !["routes"] = s].slots = p.slots
         /\ \A s \in Seq(BindingRefs) :
              /\ [p EXCEPT !["bindings"] = s] \in Plans
              /\ [p EXCEPT !["bindings"] = s].slots = p.slots
<1> DEFINE S == Seq(SlotChoices)  O == Seq(OverlayRefs)  R == Seq(RouteChoices)
           B == Seq(BindingRefs)  T == [slots : S, overlays : O, routes : R, bindings : B]
<1>1. p \in T
  BY DEF Plans
<1> HIDE DEF S, O, R, B
<1>2. \A s \in S : [p EXCEPT !["slots"] = s] \in T /\ [p EXCEPT !["slots"] = s].slots = s
  BY <1>1
<1>3. \A s \in O : [p EXCEPT !["overlays"] = s] \in T
                     /\ [p EXCEPT !["overlays"] = s].slots = p.slots
  BY <1>1
<1>4. \A s \in R : [p EXCEPT !["routes"] = s] \in T
                     /\ [p EXCEPT !["routes"] = s].slots = p.slots
  BY <1>1
<1>5. \A s \in B : [p EXCEPT !["bindings"] = s] \in T
                     /\ [p EXCEPT !["bindings"] = s].slots = p.slots
  BY <1>1
<1> QED
  BY <1>2, <1>3, <1>4, <1>5 DEF Plans, S, O, R, B

LEMMA WholeOfMore ==
  ASSUME NEW b, NEW s, NEW t, IsWhole(b, s), ToSet(s) \subseteq ToSet(t)
  PROVE  IsWhole(b, t)
BY DEF IsWhole

LEMMA CompositionStep ==
  ASSUME CompositionInv, CompositionNext
  PROVE  CompositionInv'
<1>1. /\ composition \in Plans /\ IsWhole(bundle, composition.slots)
      /\ composition.slots \in Seq(SlotChoices) /\ composition.overlays \in Seq(OverlayRefs)
      /\ composition.routes \in Seq(RouteChoices) /\ composition.bindings \in Seq(BindingRefs)
  BY PlanParts DEF CompositionInv
<1>2. ASSUME composition' \in Plans, bundle' = bundle, composition'.slots = composition.slots
      PROVE  CompositionInv'
  BY <1>1, <1>2 DEF CompositionInv
<1>3. ASSUME NEW s \in SlotChoices, Write("slots", s, MaxSlots) PROVE CompositionInv'
  <2>1. /\ composition' = [composition EXCEPT !["slots"] = Append(composition.slots, s)]
        /\ bundle' = bundle
    BY <1>3 DEF Write
  <2>2. Append(composition.slots, s) \in Seq(SlotChoices)
    BY <1>1, AppendKeeps
  <2>3. composition' \in Plans /\ composition'.slots = Append(composition.slots, s)
    BY <1>1, <2>1, <2>2, PlanEdited
  <2>4. ToSet(composition.slots) \subseteq ToSet(composition'.slots)
    BY <1>1, <2>3, AppendKeepsMembers
  <2>5. IsWhole(bundle, composition'.slots)
    BY <1>1, <2>4, WholeOfMore
  <2> QED
    BY <2>1, <2>3, <2>5 DEF CompositionInv
<1>4. ASSUME NEW o \in OverlayRefs, Write("overlays", o, MaxOverlayRefs) PROVE CompositionInv'
  <2>1. /\ composition' = [composition EXCEPT !["overlays"] = Append(composition.overlays, o)]
        /\ bundle' = bundle
    BY <1>4 DEF Write
  <2>2. Append(composition.overlays, o) \in Seq(OverlayRefs)
    BY <1>1, AppendKeeps
  <2> QED
    BY <1>1, <1>2, <2>1, <2>2, PlanEdited
<1>5. ASSUME NEW r \in RouteChoices, Write("routes", r, MaxRefs) PROVE CompositionInv'
  <2>1. /\ composition' = [composition EXCEPT !["routes"] = Append(composition.routes, r)]
        /\ bundle' = bundle
    BY <1>5 DEF Write
  <2>2. Append(composition.routes, r) \in Seq(RouteChoices)
    BY <1>1, AppendKeeps
  <2> QED
    BY <1>1, <1>2, <2>1, <2>2, PlanEdited
<1>6. ASSUME NEW b \in BindingRefs, Write("bindings", b, MaxRefs) PROVE CompositionInv'
  <2>1. /\ composition' = [composition EXCEPT !["bindings"] = Append(composition.bindings, b)]
        /\ bundle' = bundle
    BY <1>6 DEF Write
  <2>2. Append(composition.bindings, b) \in Seq(BindingRefs)
    BY <1>1, AppendKeeps
  <2> QED
    BY <1>1, <1>2, <2>1, <2>2, PlanEdited
<1>7. CASE CompilePlan
  <2>1. bundle' = Preview(composition, support) /\ composition' = composition
    BY <1>7 DEF CompilePlan
  <2>2. IsWhole(bundle', composition.slots)
    BY <1>1, <2>1, PreviewIsWhole
  <2> QED
    BY <1>1, <2>1, <2>2 DEF CompositionInv
<1> QED
  BY <1>3, <1>4, <1>5, <1>6, <1>7 DEF CompositionNext

(* Whatever an author writes and in whatever order, a bundle is all of a      *)
(* plan the pattern allows or nothing, its slots in the order of their roles  *)
(* and mocked, and stays so while the plan is written further; and a host     *)
(* that supports more refuses nothing a lesser one compiles.                  *)
THEOREM PlansAlwaysCompileWhole == CompositionSpec => []PlansCompileWhole
<1>1. CompositionInit => CompositionInv
  <2>1. ASSUME CompositionInit PROVE composition \in Plans
    <3>1. /\ <<>> \in Seq(SlotChoices) /\ <<>> \in Seq(OverlayRefs)
          /\ <<>> \in Seq(RouteChoices) /\ <<>> \in Seq(BindingRefs)
      OBVIOUS
    <3> QED
      BY <2>1, <3>1 DEF CompositionInit, Plans
  <2>2. ASSUME CompositionInit PROVE IsWhole(bundle, composition.slots)
    BY <2>2 DEF CompositionInit, NoBundle, IsWhole
  <2> QED
    BY <2>1, <2>2 DEF CompositionInv
<1>2. CompositionInv /\ [CompositionNext]_compositionVars => CompositionInv'
  <2>1. CompositionInv /\ CompositionNext => CompositionInv'
    BY CompositionStep
  <2>2. CompositionInv /\ UNCHANGED compositionVars => CompositionInv'
    BY DEF CompositionInv, compositionVars
  <2> QED
    BY <2>1, <2>2
<1>3. CompositionInv => PlansCompileWhole
  <2>1. CompositionInv => BundlesAreWhole
    BY DEF CompositionInv, IsWhole, BundlesAreWhole
  <2>2. SupportOnlyHelps
    BY MoreSupportHelps DEF SupportOnlyHelps
  <2> QED
    BY <2>1, <2>2 DEF PlansCompileWhole
<1> QED
  BY <1>1, <1>2, <1>3, PTL DEF CompositionSpec

-----------------------------------------------------------------------------
(* CompiledAgents: for any configurations.                                    *)

(* The first open edge of the state a run is in is the one taken.            *)
LEMMA FirstIsTaken ==
  ASSUME NEW said, DOMAIN Agent(config)[at] \in SUBSET Nat,
         NEW n \in DOMAIN Agent(config)[at], Holds(Agent(config)[at][n].when, said)
  PROVE  \E i \in DOMAIN Agent(config)[at] :
           /\ Target(said) = Agent(config)[at][i].to
           /\ Holds(Agent(config)[at][i].when, said)
           /\ \A j \in DOMAIN Agent(config)[at] :
                j < i => ~ Holds(Agent(config)[at][j].when, said)
<1> DEFINE edges == Agent(config)[at]
           S == {i \in DOMAIN edges : Holds(edges[i].when, said)}
<1>1. S \in SUBSET Nat /\ S # {}
  OBVIOUS
<1>2. Target(said) = edges[Min(S)].to
  BY <1>1 DEF Target
<1>3. \E i \in S : \A j \in S : i <= j
  <2> HIDE DEF S
  <2> QED
    BY <1>1, LeastExists
<1>4. Min(S) \in S /\ \A j \in S : Min(S) <= j
  <2> HIDE DEF S
  <2> QED
    BY <1>3 DEF Min
<1>5. ASSUME NEW j \in DOMAIN edges, j < Min(S) PROVE ~ Holds(edges[j].when, said)
  <2>1. j \in Nat /\ Min(S) \in Nat
    BY <1>1, <1>4
  <2>2. j \in S => Min(S) <= j
    BY <1>4
  <2>3. j \notin S
    <3> HIDE DEF S
    <3> QED
      BY <1>5, <2>1, <2>2
  <2> QED
    BY <2>3
<1> QED
  BY <1>2, <1>4, <1>5

(* Where a state leads, and whose facts it asks for, by how many edges it    *)
(* has, the last of which is always open.                                     *)
Here == Agent(config)[at]

LEMMA NoEdge ==
  ASSUME NEW said, Here = <<>>
  PROVE  Target(said) = None
BY DEF Target, Here

LEMMA OneEdge ==
  ASSUME NEW said, DOMAIN Here = 1 .. 1, Here[1].when = Always
  PROVE  /\ Consulted(config, at) = {}
         /\ Target(said) = Here[1].to
<1>1. Holds(Here[1].when, said)
  BY DEF Holds
<1> QED
  BY <1>1, FirstIsTaken DEF Here, Always, Consulted

LEMMA TwoEdges ==
  ASSUME NEW said, DOMAIN Here = 1 .. 2, Here[2].when = Always
  PROVE  /\ Consulted(config, at) \subseteq {Here[1].when.fact}
         /\ \/ Holds(Here[1].when, said) /\ Target(said) = Here[1].to
            \/ ~ Holds(Here[1].when, said) /\ Target(said) = Here[2].to
<1>1. Holds(Here[2].when, said)
  BY DEF Holds
<1> QED
  BY <1>1, FirstIsTaken DEF Here, Always, Consulted

LEMMA ThreeEdges ==
  ASSUME NEW said, DOMAIN Here = 1 .. 3, Here[3].when = Always
  PROVE  /\ Consulted(config, at) \subseteq {Here[1].when.fact, Here[2].when.fact}
         /\ \/ Holds(Here[1].when, said) /\ Target(said) = Here[1].to
            \/ /\ ~ Holds(Here[1].when, said) /\ Holds(Here[2].when, said)
               /\ Target(said) = Here[2].to
            \/ /\ ~ Holds(Here[1].when, said) /\ ~ Holds(Here[2].when, said)
               /\ Target(said) = Here[3].to
<1>1. Holds(Here[3].when, said)
  BY DEF Holds
<1> QED
  BY <1>1, FirstIsTaken DEF Here, Always, Consulted

LEMMA FourEdges ==
  ASSUME NEW said, DOMAIN Here = 1 .. 4, Here[4].when = Always
  PROVE  /\ Consulted(config, at) \subseteq
              {Here[1].when.fact, Here[2].when.fact, Here[3].when.fact}
         /\ \/ Holds(Here[1].when, said) /\ Target(said) = Here[1].to
            \/ /\ ~ Holds(Here[1].when, said) /\ Holds(Here[2].when, said)
               /\ Target(said) = Here[2].to
            \/ /\ ~ Holds(Here[1].when, said) /\ ~ Holds(Here[2].when, said)
               /\ Holds(Here[3].when, said) /\ Target(said) = Here[3].to
            \/ /\ ~ Holds(Here[1].when, said) /\ ~ Holds(Here[2].when, said)
               /\ ~ Holds(Here[3].when, said) /\ Target(said) = Here[4].to
<1>1. Holds(Here[4].when, said)
  BY DEF Holds
<1> QED
  BY <1>1, FirstIsTaken DEF Here, Always, Consulted

LEMMA FiveEdges ==
  ASSUME NEW said, DOMAIN Here = 1 .. 5, Here[5].when = Always
  PROVE  /\ Consulted(config, at) \subseteq
              {Here[1].when.fact, Here[2].when.fact, Here[3].when.fact, Here[4].when.fact}
         /\ \/ Holds(Here[1].when, said) /\ Target(said) = Here[1].to
            \/ /\ ~ Holds(Here[1].when, said) /\ Holds(Here[2].when, said)
               /\ Target(said) = Here[2].to
            \/ /\ ~ Holds(Here[1].when, said) /\ ~ Holds(Here[2].when, said)
               /\ Holds(Here[3].when, said) /\ Target(said) = Here[3].to
            \/ /\ ~ Holds(Here[1].when, said) /\ ~ Holds(Here[2].when, said)
               /\ ~ Holds(Here[3].when, said) /\ Holds(Here[4].when, said)
               /\ Target(said) = Here[4].to
            \/ /\ ~ Holds(Here[1].when, said) /\ ~ Holds(Here[2].when, said)
               /\ ~ Holds(Here[3].when, said) /\ ~ Holds(Here[4].when, said)
               /\ Target(said) = Here[5].to
<1>1. Holds(Here[5].when, said)
  BY DEF Holds
<1> QED
  BY <1>1, FirstIsTaken DEF Here, Always, Consulted

(* What a guard that holds, or does not, says of its fact; a threshold never *)
(* does.                                                                     *)
LEMMA GuardsAsk ==
  ASSUME NEW f
  PROVE  Is(f).fact = f /\ IsNot(f).fact = f /\ Below(f).fact = f
BY DEF Is, IsNot, Below

LEMMA IsReads ==
  ASSUME NEW said, NEW f \in DOMAIN said, f # "nothing"
  PROVE  Holds(Is(f), said) <=> said[f] = "true"
BY DEF Is, Always, Holds

LEMMA IsNotReads ==
  ASSUME NEW said, NEW f \in DOMAIN said
  PROVE  Holds(IsNot(f), said) <=> said[f] = "false"
BY DEF IsNot, Always, Holds

LEMMA BelowIsNotRead ==
  ASSUME NEW said, NEW f
  PROVE  ~ Holds(Below(f), said)
BY DEF Below, Always, Holds

(* The facts whose denial a guard asks for, where agents other than those of *)
(* knowledge settle each of them one way or the other.                        *)
DeniedFacts == {"evidence_valid", "fields_valid", "signals_valid", "evidence_available"}

SettledAt(said) ==
  config.kind # "knowledge" =>
    \A f \in DeniedFacts \cap Facts(config) : said[f] \in {"true", "false"}

(* What a run has heard at a state is what it knew, but for what the state    *)
(* asks.                                                                      *)
Heard(said) ==
  /\ said \in [Facts(config) -> Said]
  /\ \A f \in Facts(config) \ Consulted(config, at) : said[f] = facts[f]
  /\ SettledAt(facts) => SettledAt(said)

LEMMA HostIsHeard ==
  ASSUME facts \in [Facts(config) -> Said], at \in DOMAIN Agent(config),
         NEW said \in HostSays
  PROVE  Heard(said)
<1>1. PICK answers \in [Consulted(config, at) -> Said] :
        /\ \A f \in DOMAIN answers : answers[f] \in Sayings(f) \cup {facts[f]}
        /\ said = [f \in DOMAIN facts |-> IF f \in DOMAIN answers THEN answers[f] ELSE facts[f]]
  BY DEF HostSays
<1>2. said \in [Facts(config) -> Said]
  BY <1>1
<1>3. \A f \in Facts(config) \ Consulted(config, at) : said[f] = facts[f]
  BY <1>1
<1>4. \A f \in DeniedFacts : Sayings(f) = {"true", "false"}
  BY DEF DeniedFacts, Sayings
<1>5. SettledAt(facts) => SettledAt(said)
  BY <1>1, <1>4 DEF SettledAt
<1> QED
  BY <1>2, <1>3, <1>5 DEF Heard

LEMMA DemoIsHeard ==
  ASSUME facts \in [Facts(config) -> Said]
  PROVE  Heard(DemoSays)
<1>1. DemoSays = [f \in Facts(config) |->
                    IF f \in Consulted(config, at) /\ facts[f] = "unsaid"
                    THEN IF f = "sensitive_question" THEN "false" ELSE "true" ELSE facts[f]]
  BY DEF DemoSays
<1> QED
  BY <1>1 DEF Heard, SettledAt, Said

-----------------------------------------------------------------------------
(* What a run knows where it is, kind by kind: the facts that no path to a   *)
(* state leads around.                                                        *)
RequestKnows(s, said) ==
  /\ s \in {"evaluate_rules", "execute_resolution"} => said["order_found"] # "false"
  /\ s = "execute_resolution" =>
       said["high_risk"] # "true" /\ said["rule_conflict"] # "true"
         /\ said["requires_handoff"] # "true"

ApprovalKnows(s, said) ==
  /\ s \in {"validate_evidence", "evaluate_policy", "auto_approved"} =>
       said["requires_human_review"] # "true"
  /\ s \in {"evaluate_policy", "auto_approved"} =>
       said["missing_evidence"] # "true" /\ said["evidence_valid"] = "true"
  /\ s = "auto_approved" =>
       /\ said["low_risk"] = "true" /\ said["policy_conflict"] # "true"
       /\ said["high_risk"] # "true"

KnowledgeKnows(e, s, said) ==
  /\ /\ e = "classify_question"
     /\ s \in {"collect_question_context", "retrieve_knowledge", "evaluate_confidence",
               "check_source_policy", "generate_answer"}
     => said["sensitive_question"] # "true"
  /\ s \in {"evaluate_confidence", "check_source_policy", "generate_answer"} =>
       said["knowledge_hit"] # "false"
  /\ s = "generate_answer" => said["source_verified"] # "false"

IntakeKnows(c, s, said) ==
  /\ s \in {"detect_missing", "check_duplicate", "confirm_record", "complete"} =>
       said["fields_valid"] = "true"
  /\ s \in {"check_duplicate", "confirm_record", "complete"} => said["missing_fields"] # "true"
  /\ s \in {"confirm_record", "complete"} =>
       said["duplicate_detected"] # "true" \/ DuplicateTarget(c) = "confirm_record"
  /\ s = "complete" /\ (c.confirm \/ said["duplicate_detected"] = "true") =>
       said["record_confirmed"] = "true"

DiagnosticKnows(c, s, said) ==
  /\ s \in {"run_diagnostic_checks", "evaluate_diagnosis", "suggest_remediation",
            "mock_safe_remediation", "verify_resolution", "complete"} =>
       said["signals_valid"] = "true" /\ (c.evidence => said["evidence_available"] = "true")
  /\ s \in {"evaluate_diagnosis", "suggest_remediation", "mock_safe_remediation",
            "verify_resolution", "complete"} =>
       said["diagnostic_check_failed"] # "true"
  /\ s \in {"suggest_remediation", "mock_safe_remediation", "verify_resolution", "complete"} =>
       said["diagnosis_inconclusive"] # "true" /\ said["diagnosis_known"] = "true"
  /\ s = "complete" /\ c.verify => said["resolution_verified"] = "true"

(* A fact a guard asks for is a fact of the agent.                           *)
LEMMA GuardsAskForFacts ==
  ASSUME NEW c, NEW s \in DOMAIN Agent(c), NEW i \in DOMAIN Agent(c)[s],
         NEW f, f # "nothing", Agent(c)[s][i].when.fact = f
  PROVE  f \in Facts(c)
<1>1. f \in Consulted(c, s)
  BY DEF Consulted
<1> QED
  BY <1>1 DEF Facts

(* A run comes from what it knows to what it then knows, and ends only where *)
(* the agent does.                                                            *)
LEMMA RequestGoesOn ==
  ASSUME config.kind = "request", at \in DOMAIN Agent(config), RequestKnows(at, facts),
         NEW said, Heard(said)
  PROVE  \/ at \in {"done", "handoff"} /\ Here = <<>>
         \/ Target(said) \in DOMAIN Agent(config) /\ RequestKnows(Target(said), said)
<1>1. Agent(config) = RequestAgent
  BY DEF Agent
<1>2. DOMAIN Agent(config) =
        {"classify_request", "collect_required_info", "check_order", "evaluate_rules",
         "execute_resolution", "done", "handoff"}
  BY <1>1 DEF RequestAgent
<1>3. {"order_found", "high_risk", "rule_conflict", "requires_handoff"} \subseteq Facts(config)
  <2>1. /\ Agent(config)["check_order"][1].when.fact = "order_found"
        /\ Agent(config)["evaluate_rules"][1].when.fact = "high_risk"
        /\ Agent(config)["evaluate_rules"][2].when.fact = "rule_conflict"
        /\ Agent(config)["evaluate_rules"][3].when.fact = "requires_handoff"
    BY <1>1 DEF RequestAgent, If, Is, IsNot
  <2>2. /\ 1 \in DOMAIN Agent(config)["check_order"]
        /\ {1, 2, 3} \subseteq DOMAIN Agent(config)["evaluate_rules"]
    BY <1>1 DEF RequestAgent
  <2> QED
    BY <1>2, <2>1, <2>2, GuardsAskForFacts
<1>4. {"order_found", "high_risk", "rule_conflict", "requires_handoff"} \subseteq DOMAIN said
  BY <1>3 DEF Heard
<1>5. CASE at \in {"done", "handoff"}
  <2>1. Here = <<>>
    BY <1>1, <1>5 DEF Here, RequestAgent
  <2> QED
    BY <1>5, <2>1
<1>6. CASE at = "classify_request"
  <2>1. Here =
          <<If(Is("missing_required_info"), "collect_required_info"), To("check_order")>>
    BY <1>1, <1>6 DEF Here, RequestAgent
  <2>2. Target(said) \in {"collect_required_info", "check_order"}
    BY <2>1, TwoEdges DEF If, To
  <2> QED
    BY <1>2, <2>2 DEF RequestKnows
<1>61. CASE at = "collect_required_info"
  <2>1. Here = <<If(Is("requires_handoff"), "handoff"), To("check_order")>>
    BY <1>1, <1>61 DEF Here, RequestAgent
  <2>2. Target(said) \in {"handoff", "check_order"}
    BY <2>1, TwoEdges DEF If, To
  <2> QED
    BY <1>2, <2>2 DEF RequestKnows
<1>7. CASE at = "check_order"
  <2>1. Here = <<If(IsNot("order_found"), "handoff"), If(Is("api_failed"), "handoff"),
                              To("evaluate_rules")>>
    BY <1>1, <1>7 DEF Here, RequestAgent
  <2>2. \/ Target(said) = "handoff"
        \/ Target(said) = "evaluate_rules" /\ said["order_found"] # "false"
    BY <1>4, <2>1, ThreeEdges, GuardsAsk, IsReads, IsNotReads, BelowIsNotRead DEF If, To
  <2> QED
    BY <1>2, <2>2 DEF RequestKnows
<1>8. CASE at = "evaluate_rules"
  <2>1. Here =
          <<If(Is("high_risk"), "handoff"), If(Is("rule_conflict"), "handoff"),
            If(Is("requires_handoff"), "handoff"), To("execute_resolution")>>
    BY <1>1, <1>8 DEF Here, RequestAgent
  <2>2. /\ Consulted(config, at) \subseteq {"high_risk", "rule_conflict", "requires_handoff"}
        /\ \/ Target(said) = "handoff"
           \/ /\ Target(said) = "execute_resolution" /\ said["high_risk"] # "true"
              /\ said["rule_conflict"] # "true" /\ said["requires_handoff"] # "true"
    BY <1>4, <2>1, FourEdges, GuardsAsk, IsReads, IsNotReads, BelowIsNotRead DEF If, To
  <2>3. said["order_found"] = facts["order_found"]
    BY <1>3, <2>2 DEF Heard
  <2> QED
    BY <1>2, <1>8, <2>2, <2>3 DEF RequestKnows
<1>9. CASE at = "execute_resolution"
  <2>1. Here = <<If(Is("api_failed"), "handoff"), To("done")>>
    BY <1>1, <1>9 DEF Here, RequestAgent
  <2>2. Target(said) \in {"handoff", "done"}
    BY <2>1, TwoEdges DEF If, To
  <2> QED
    BY <1>2, <2>2 DEF RequestKnows
<1> QED
  BY <1>2, <1>5, <1>6, <1>61, <1>7, <1>8, <1>9

LEMMA ApprovalMoves ==
  ASSUME config.kind = "approval", at \in DOMAIN Agent(config), ApprovalKnows(at, facts),
         SettledAt(facts), NEW said, Heard(said)
  PROVE  \/ at \in {"done", "handoff"} /\ Here = <<>>
         \/ Target(said) \in DOMAIN Agent(config) /\ ApprovalKnows(Target(said), said)
<1> DEFINE asked == {"requires_human_review", "missing_evidence", "evidence_valid",
                     "policy_conflict", "high_risk", "low_risk"}
<1>1. Agent(config) = ApprovalAgent
  BY DEF Agent
<1>2. DOMAIN Agent(config) =
        {"collect_request", "collect_evidence", "validate_evidence", "evaluate_policy",
         "auto_approved", "rejected", "human_review", "done", "handoff"}
  BY <1>1 DEF ApprovalAgent
<1>3. asked \subseteq Facts(config)
  <2>1. /\ Agent(config)["collect_evidence"][1].when.fact = "requires_human_review"
        /\ Agent(config)["validate_evidence"][1].when.fact = "missing_evidence"
        /\ Agent(config)["validate_evidence"][2].when.fact = "evidence_valid"
        /\ Agent(config)["evaluate_policy"][1].when.fact = "policy_conflict"
        /\ Agent(config)["evaluate_policy"][2].when.fact = "high_risk"
        /\ Agent(config)["evaluate_policy"][4].when.fact = "low_risk"
    BY <1>1 DEF ApprovalAgent, PolicyTransitions, If, Is, IsNot
  <2>2. /\ 1 \in DOMAIN Agent(config)["collect_evidence"]
        /\ {1, 2} \subseteq DOMAIN Agent(config)["validate_evidence"]
        /\ {1, 2, 4} \subseteq DOMAIN Agent(config)["evaluate_policy"]
    BY <1>1 DEF ApprovalAgent, PolicyTransitions
  <2> QED
    BY <1>2, <2>1, <2>2, GuardsAskForFacts
<1>4. asked \subseteq DOMAIN said
  BY <1>3 DEF Heard
<1>5. said["evidence_valid"] \in {"true", "false"}
  BY <1>3 DEF Heard, SettledAt, DeniedFacts
<1>6. CASE at \in {"done", "handoff"}
  <2>1. Here = <<>>
    BY <1>1, <1>6 DEF Here, ApprovalAgent
  <2> QED
    BY <1>6, <2>1
<1>7. CASE at \in {"auto_approved", "rejected", "human_review", "collect_request"}
  <2>1. \E s \in {"done", "handoff", "collect_evidence"} : Here = <<To(s)>>
    BY <1>1, <1>7 DEF Here, ApprovalAgent
  <2>2. Target(said) \in {"done", "handoff", "collect_evidence"}
    BY <2>1, OneEdge DEF If, To
  <2> QED
    BY <1>2, <2>2 DEF ApprovalKnows
<1>8. CASE at = "collect_evidence"
  <2>1. Here =
          <<If(Is("requires_human_review"), "handoff"), To("validate_evidence")>>
    BY <1>1, <1>8 DEF Here, ApprovalAgent
  <2>2. \/ Target(said) = "handoff"
        \/ Target(said) = "validate_evidence" /\ said["requires_human_review"] # "true"
    BY <1>4, <2>1, TwoEdges, GuardsAsk, IsReads, IsNotReads, BelowIsNotRead DEF If, To
  <2> QED
    BY <1>2, <2>2 DEF ApprovalKnows
<1>9. CASE at = "validate_evidence"
  <2>1. Here =
          <<If(Is("missing_evidence"), "collect_evidence"),
            If(IsNot("evidence_valid"), "handoff"), To("evaluate_policy")>>
    BY <1>1, <1>9 DEF Here, ApprovalAgent
  <2>2. /\ Consulted(config, at) \subseteq {"missing_evidence", "evidence_valid"}
        /\ \/ Target(said) \in {"collect_evidence", "handoff"}
           \/ /\ Target(said) = "evaluate_policy" /\ said["missing_evidence"] # "true"
              /\ said["evidence_valid"] # "false"
    BY <1>4, <2>1, ThreeEdges, GuardsAsk, IsReads, IsNotReads, BelowIsNotRead DEF If, To
  <2>3. said["requires_human_review"] = facts["requires_human_review"]
    BY <1>3, <2>2 DEF Heard
  <2> QED
    BY <1>2, <1>5, <1>9, <2>2, <2>3 DEF ApprovalKnows
<1>10. CASE at = "evaluate_policy"
  <2>1. Here =
          <<If(Is("policy_conflict"), "handoff"), If(Is("high_risk"), "human_review"),
            If(Is("decision_reason_required"), "rejected"),
            If(Is("low_risk"), "auto_approved"), To("human_review")>>
    BY <1>1, <1>10 DEF Here, ApprovalAgent, PolicyTransitions
  <2>2. /\ Consulted(config, at) \subseteq
             {"policy_conflict", "high_risk", "decision_reason_required", "low_risk"}
        /\ \/ Target(said) \in {"handoff", "human_review", "rejected"}
           \/ /\ Target(said) = "auto_approved" /\ said["low_risk"] = "true"
              /\ said["policy_conflict"] # "true" /\ said["high_risk"] # "true"
    BY <1>4, <2>1, FiveEdges, GuardsAsk, IsReads, SMTT(60) DEF If, To
  <2>3. \A f \in {"requires_human_review", "missing_evidence", "evidence_valid"} :
          said[f] = facts[f]
    BY <1>3, <2>2 DEF Heard
  <2> QED
    BY <1>2, <1>10, <2>2, <2>3 DEF ApprovalKnows
<1> QED
  BY <1>2, <1>6, <1>7, <1>8, <1>9, <1>10

LEMMA ReplyIsAState ==
  ASSUME NEW strategy
  PROVE  Reply(strategy) \in {"ask_clarification", "handoff", "no_answer"}
BY DEF Reply

(* A configuration with a guard that is the literal false does not compile.   *)
LEMMA CompilableAsks ==
  ASSUME NEW c, c.kind = "knowledge", c.cite \in BOOLEAN, c.unverified \in BOOLEAN,
         Compilable(c)
  PROVE  c.cite /\ ~ c.unverified
<1>1. Agent(c) = KnowledgeAgent(c) /\ "check_source_policy" \in DOMAIN Agent(c)
  BY DEF Agent, KnowledgeAgent
<1>2. {1, 2} \subseteq DOMAIN Agent(c)["check_source_policy"]
  BY <1>1 DEF KnowledgeAgent
<1>3. /\ Agent(c)["check_source_policy"][1].when # Never
      /\ Agent(c)["check_source_policy"][2].when # Never
  BY <1>1, <1>2 DEF Compilable
<1> QED
  BY <1>1, <1>3 DEF KnowledgeAgent, If

LEMMA KnowledgeMoves ==
  ASSUME config.kind = "knowledge", config.cite, ~ config.unverified,
         at \in DOMAIN Agent(config), KnowledgeKnows(entry, at, facts), NEW said, Heard(said)
  PROVE  \/ at = "done" /\ Here = <<>>
         \/ Target(said) \in DOMAIN Agent(config) /\ KnowledgeKnows(entry, Target(said), said)
<1> DEFINE asked == {"sensitive_question", "knowledge_hit", "source_verified"}
<1>1. Agent(config) = KnowledgeAgent(config)
  BY DEF Agent
<1>2. DOMAIN Agent(config) =
        {"classify_question", "collect_question_context", "retrieve_knowledge",
         "evaluate_confidence", "check_source_policy", "generate_answer", "ask_clarification",
         "no_answer", "handoff", "done"}
  BY <1>1 DEF KnowledgeAgent
<1>3. asked \subseteq Facts(config)
  <2>1. /\ Agent(config)["classify_question"][1].when.fact = "sensitive_question"
        /\ Agent(config)["retrieve_knowledge"][1].when.fact = "knowledge_hit"
        /\ Agent(config)["check_source_policy"][1].when.fact = "source_verified"
    BY <1>1 DEF KnowledgeAgent, If, Is, IsNot
  <2>2. /\ 1 \in DOMAIN Agent(config)["classify_question"]
        /\ 1 \in DOMAIN Agent(config)["retrieve_knowledge"]
        /\ 1 \in DOMAIN Agent(config)["check_source_policy"]
    BY <1>1 DEF KnowledgeAgent
  <2> QED
    BY <1>2, <2>1, <2>2, GuardsAskForFacts
<1>4. asked \subseteq DOMAIN said
  BY <1>3 DEF Heard
<1>5. CASE at = "done"
  <2>1. Here = <<>>
    BY <1>1, <1>5 DEF Here, KnowledgeAgent
  <2> QED
    BY <1>5, <2>1
<1>6. CASE at \in {"generate_answer", "ask_clarification", "no_answer", "handoff"}
  <2>1. Here = <<To("done")>>
    BY <1>1, <1>6 DEF Here, KnowledgeAgent
  <2>2. Target(said) = "done"
    BY <2>1, OneEdge DEF If, To
  <2> QED
    BY <1>2, <2>2 DEF KnowledgeKnows
<1>7. CASE at = "classify_question"
  <2>1. \E s \in {"handoff", "no_answer"} :
          Here = <<If(Is("sensitive_question"), s), To("collect_question_context")>>
    BY <1>1, <1>7 DEF Here, KnowledgeAgent
  <2>2. \/ Target(said) \in {"handoff", "no_answer"}
        \/ Target(said) = "collect_question_context" /\ said["sensitive_question"] # "true"
    BY <1>4, <2>1, TwoEdges, GuardsAsk, IsReads, IsNotReads, BelowIsNotRead DEF If, To
  <2> QED
    BY <1>2, <2>2 DEF KnowledgeKnows
<1>8. CASE at = "collect_question_context"
  <2>1. Here = <<To("retrieve_knowledge")>>
    BY <1>1, <1>8 DEF Here, KnowledgeAgent
  <2>2. Consulted(config, at) = {} /\ Target(said) = "retrieve_knowledge"
    BY <2>1, OneEdge DEF If, To
  <2>3. said["sensitive_question"] = facts["sensitive_question"]
    BY <1>3, <2>2 DEF Heard
  <2> QED
    BY <1>2, <1>8, <2>2, <2>3 DEF KnowledgeKnows
<1>9. CASE at = "retrieve_knowledge"
  <2>1. Here =
          <<If(IsNot("knowledge_hit"), Reply(config.noAnswer)), To("evaluate_confidence")>>
    BY <1>1, <1>9 DEF Here, KnowledgeAgent
  <2>2. /\ Consulted(config, at) \subseteq {"knowledge_hit"}
        /\ \/ Target(said) = Reply(config.noAnswer)
           \/ Target(said) = "evaluate_confidence" /\ said["knowledge_hit"] # "false"
    BY <1>4, <2>1, TwoEdges, GuardsAsk, IsReads, IsNotReads, BelowIsNotRead DEF If, To
  <2>3. said["sensitive_question"] = facts["sensitive_question"]
    BY <1>3, <2>2 DEF Heard
  <2> QED
    BY <1>2, <1>9, <2>2, <2>3, ReplyIsAState DEF KnowledgeKnows
<1>10. CASE at = "evaluate_confidence"
  <2>1. PICK s \in {"ask_clarification", "handoff", "no_answer"} :
          Here = <<If(Below("confidence_score"), s), To("check_source_policy")>>
    BY <1>1, <1>10, ReplyIsAState DEF Here, KnowledgeAgent
  <2>2. /\ Consulted(config, at) \subseteq {"confidence_score"}
        /\ Target(said) \in {s, "check_source_policy"}
    <3>1. Below("confidence_score").fact = "confidence_score"
      BY DEF Below
    <3> QED
      BY <2>1, <3>1, TwoEdges DEF If, To
  <2>3. /\ said["sensitive_question"] = facts["sensitive_question"]
        /\ said["knowledge_hit"] = facts["knowledge_hit"]
    BY <1>3, <2>2 DEF Heard
  <2> QED
    BY <1>2, <1>10, <2>2, <2>3 DEF KnowledgeKnows
<1>11. CASE at = "check_source_policy"
  <2>1. Here =
          <<If(IsNot("source_verified"), "no_answer"), If(Below("demo_source_count"), "no_answer"),
            To("generate_answer")>>
    BY <1>1, <1>11 DEF Here, KnowledgeAgent
  <2>2. /\ Consulted(config, at) \subseteq {"source_verified", "demo_source_count"}
        /\ \/ Target(said) = "no_answer"
           \/ Target(said) = "generate_answer" /\ said["source_verified"] # "false"
    BY <1>4, <2>1, ThreeEdges, GuardsAsk, IsReads, IsNotReads, BelowIsNotRead DEF If, To
  <2>3. /\ said["sensitive_question"] = facts["sensitive_question"]
        /\ said["knowledge_hit"] = facts["knowledge_hit"]
    BY <1>3, <2>2 DEF Heard
  <2> QED
    BY <1>2, <1>11, <2>2, <2>3 DEF KnowledgeKnows
<1> QED
  BY <1>2, <1>5, <1>6, <1>7, <1>8, <1>9, <1>10, <1>11

LEMMA IntakeTargets ==
  ASSUME NEW c, c.confirm \in BOOLEAN
  PROVE  /\ InvalidTarget(c) \in {"handoff", "request_correction"}
         /\ Otherwise(c.incomplete, "request_clarification") \in
              {"handoff", "stopped", "request_clarification"}
         /\ Exhausted(c.incomplete) \in {"handoff", "stopped"}
         /\ DuplicateTarget(c) \in {"handoff", "stopped", "confirm_record"}
         /\ CompletionTarget(c) = IF c.confirm THEN "confirm_record" ELSE "complete"
BY DEF InvalidTarget, Otherwise, Exhausted, DuplicateTarget, CompletionTarget

LEMMA IntakeMoves ==
  ASSUME config.kind = "intake", config.confirm \in BOOLEAN, at \in DOMAIN Agent(config),
         IntakeKnows(config, at, facts), SettledAt(facts), NEW said, Heard(said)
  PROVE  \/ at \in {"complete", "handoff", "stopped"} /\ Here = <<>>
         \/ Target(said) \in DOMAIN Agent(config) /\ IntakeKnows(config, Target(said), said)
<1> DEFINE asked == {"fields_valid", "missing_fields", "duplicate_detected", "record_confirmed"}
<1>1. Agent(config) = IntakeAgent(config)
  BY DEF Agent
<1>2. DOMAIN Agent(config) =
        {"start", "collect_fields", "validate_fields", "detect_missing", "check_duplicate",
         "request_clarification", "request_correction", "confirm_record", "complete",
         "handoff", "stopped"}
  BY <1>1 DEF IntakeAgent
<1>3. asked \subseteq Facts(config)
  <2>1. /\ Agent(config)["validate_fields"][1].when.fact = "fields_valid"
        /\ Agent(config)["detect_missing"][1].when.fact = "missing_fields"
        /\ Agent(config)["check_duplicate"][1].when.fact = "duplicate_detected"
        /\ Agent(config)["confirm_record"][1].when.fact = "record_confirmed"
    BY <1>1 DEF IntakeAgent, If, Is, IsNot
  <2>2. \A s \in {"validate_fields", "detect_missing", "check_duplicate", "confirm_record"} :
          1 \in DOMAIN Agent(config)[s]
    BY <1>1 DEF IntakeAgent
  <2> QED
    BY <1>2, <2>1, <2>2, GuardsAskForFacts
<1>4. asked \subseteq DOMAIN said
  BY <1>3 DEF Heard
<1>5. said["fields_valid"] \in {"true", "false"}
  BY <1>3 DEF Heard, SettledAt, DeniedFacts
<1>6. CASE at \in {"complete", "handoff", "stopped"}
  <2>1. Here = <<>>
    BY <1>1, <1>6 DEF Here, IntakeAgent
  <2> QED
    BY <1>6, <2>1
<1>7. CASE at \in {"start", "collect_fields"}
  <2>1. \E s \in {"collect_fields", "validate_fields"} : Here = <<To(s)>>
    BY <1>1, <1>7 DEF Here, IntakeAgent
  <2>2. Target(said) \in {"collect_fields", "validate_fields"}
    BY <2>1, OneEdge DEF If, To
  <2> QED
    BY <1>2, <2>2 DEF IntakeKnows
<1>8. CASE at \in {"request_clarification", "request_correction"}
  <2>1. \E s \in {"handoff", "stopped"} :
          Here =
            <<If(Is("clarification_budget_exhausted"), s), To("collect_fields")>>
    BY <1>1, <1>8, IntakeTargets DEF Here, IntakeAgent
  <2>2. Target(said) \in {"handoff", "stopped", "collect_fields"}
    BY <2>1, TwoEdges DEF If, To
  <2> QED
    BY <1>2, <2>2 DEF IntakeKnows
<1>9. CASE at = "validate_fields"
  <2>1. \E s \in {"handoff", "request_correction"} :
          Here = <<If(IsNot("fields_valid"), s), To("detect_missing")>>
    BY <1>1, <1>9, IntakeTargets DEF Here, IntakeAgent
  <2>2. \/ Target(said) \in {"handoff", "request_correction"}
        \/ Target(said) = "detect_missing" /\ said["fields_valid"] # "false"
    BY <1>4, <2>1, TwoEdges, GuardsAsk, IsReads, IsNotReads, BelowIsNotRead DEF If, To
  <2> QED
    BY <1>2, <1>5, <2>2 DEF IntakeKnows
<1>10. CASE at = "detect_missing"
  <2>1. \E s \in {"handoff", "stopped", "request_clarification"} :
          Here = <<If(Is("missing_fields"), s), To("check_duplicate")>>
    BY <1>1, <1>10, IntakeTargets DEF Here, IntakeAgent
  <2>2. /\ Consulted(config, at) \subseteq {"missing_fields"}
        /\ \/ Target(said) \in {"handoff", "stopped", "request_clarification"}
           \/ Target(said) = "check_duplicate" /\ said["missing_fields"] # "true"
    BY <1>4, <2>1, TwoEdges, GuardsAsk, IsReads, IsNotReads, BelowIsNotRead DEF If, To
  <2>3. said["fields_valid"] = facts["fields_valid"]
    BY <1>3, <2>2 DEF Heard
  <2> QED
    BY <1>2, <1>10, <2>2, <2>3 DEF IntakeKnows
<1>11. CASE at = "check_duplicate"
  <2>1. PICK s \in {"confirm_record", "complete"} :
          /\ s = CompletionTarget(config)
          /\ Here = <<If(Is("duplicate_detected"), DuplicateTarget(config)), To(s)>>
    BY <1>1, <1>11, IntakeTargets DEF Here, IntakeAgent
  <2>2. /\ Consulted(config, at) \subseteq {"duplicate_detected"}
        /\ \/ /\ Target(said) = DuplicateTarget(config)
              /\ said["duplicate_detected"] = "true"
           \/ Target(said) = s /\ said["duplicate_detected"] # "true"
    BY <1>4, <2>1, TwoEdges, GuardsAsk, IsReads, IsNotReads, BelowIsNotRead DEF If, To
  <2>3. /\ said["fields_valid"] = facts["fields_valid"]
        /\ said["missing_fields"] = facts["missing_fields"]
    BY <1>3, <2>2 DEF Heard
  <2>4. \/ Target(said) \in {"handoff", "stopped"}
        \/ /\ Target(said) = "confirm_record"
           /\ said["duplicate_detected"] # "true" \/ DuplicateTarget(config) = "confirm_record"
        \/ /\ Target(said) = "complete" /\ ~ config.confirm
           /\ said["duplicate_detected"] # "true"
    BY <2>1, <2>2, IntakeTargets
  <2> QED
    BY <1>2, <1>11, <2>3, <2>4 DEF IntakeKnows
<1>12. CASE at = "confirm_record"
  <2>1. Here =
          <<If(Is("record_confirmed"), "complete"), To("request_clarification")>>
    BY <1>1, <1>12 DEF Here, IntakeAgent
  <2>2. /\ Consulted(config, at) \subseteq {"record_confirmed"}
        /\ \/ Target(said) = "request_clarification"
           \/ Target(said) = "complete" /\ said["record_confirmed"] = "true"
    BY <1>4, <2>1, TwoEdges, GuardsAsk, IsReads, IsNotReads, BelowIsNotRead DEF If, To
  <2>3. \A f \in {"fields_valid", "missing_fields", "duplicate_detected"} : said[f] = facts[f]
    BY <1>3, <2>2 DEF Heard
  <2> QED
    BY <1>2, <1>12, <2>2, <2>3 DEF IntakeKnows
<1> QED
  BY <1>2, <1>6, <1>7, <1>8, <1>9, <1>10, <1>11, <1>12

LEMMA DiagnosticTargets ==
  ASSUME NEW c, c.evidence \in BOOLEAN, c.verify \in BOOLEAN
  PROVE  /\ Otherwise(c.checkFailure, "run_diagnostic_checks") \in
              {"handoff", "stopped", "run_diagnostic_checks"}
         /\ Otherwise(c.inconclusive, "request_more_signals") \in
              {"handoff", "stopped", "request_more_signals"}
         /\ Exhausted(c.inconclusive) \in {"handoff", "stopped"}
         /\ RemediationTarget(c) \in {"handoff", "mock_safe_remediation", "suggest_remediation"}
         /\ VerificationTarget(c) = IF c.verify THEN "verify_resolution" ELSE "complete"
BY DEF Otherwise, Exhausted, RemediationTarget, VerificationTarget

LEMMA DiagnosticMoves ==
  ASSUME config.kind = "diagnostic", config.evidence \in BOOLEAN, config.verify \in BOOLEAN,
         at \in DOMAIN Agent(config), DiagnosticKnows(config, at, facts), SettledAt(facts),
         NEW said, Heard(said)
  PROVE  \/ at \in {"complete", "handoff", "stopped"} /\ Here = <<>>
         \/ Target(said) \in DOMAIN Agent(config) /\ DiagnosticKnows(config, Target(said), said)
<1> DEFINE asked == {"signals_valid", "diagnostic_check_failed", "diagnosis_inconclusive",
                     "diagnosis_known", "resolution_verified"}
<1>1. Agent(config) = DiagnosticAgent(config)
  BY DEF Agent
<1>2. DOMAIN Agent(config) =
        {"start", "collect_signals", "validate_signals", "run_diagnostic_checks",
         "evaluate_diagnosis", "request_more_signals", "suggest_remediation",
         "mock_safe_remediation", "verify_resolution", "complete", "handoff", "stopped"}
  BY <1>1 DEF DiagnosticAgent
<1>21. Agent(config)["validate_signals"] = ValidationTransitions(config)
  BY <1>1 DEF DiagnosticAgent
<1>3. asked \subseteq Facts(config)
  <2>1. /\ Agent(config)["validate_signals"][2].when.fact = "signals_valid"
        /\ {1, 2} \subseteq DOMAIN Agent(config)["validate_signals"]
    BY <1>21 DEF ValidationTransitions, If, IsNot
  <2>2. /\ Agent(config)["run_diagnostic_checks"][2].when.fact = "diagnostic_check_failed"
        /\ Agent(config)["evaluate_diagnosis"][1].when.fact = "diagnosis_inconclusive"
        /\ Agent(config)["evaluate_diagnosis"][2].when.fact = "diagnosis_known"
        /\ Agent(config)["verify_resolution"][1].when.fact = "resolution_verified"
    BY <1>1 DEF DiagnosticAgent, If, Is
  <2>3. /\ {1, 2} \subseteq DOMAIN Agent(config)["run_diagnostic_checks"]
        /\ {1, 2} \subseteq DOMAIN Agent(config)["evaluate_diagnosis"]
        /\ 1 \in DOMAIN Agent(config)["verify_resolution"]
    BY <1>1 DEF DiagnosticAgent
  <2> QED
    BY <1>2, <2>1, <2>2, <2>3, GuardsAskForFacts
<1>4. asked \subseteq DOMAIN said
  BY <1>3 DEF Heard
<1>5. /\ said["signals_valid"] \in {"true", "false"}
      /\ config.evidence =>
           /\ "evidence_available" \in Facts(config)
           /\ said["evidence_available"] \in {"true", "false"}
  <2>1. ASSUME config.evidence PROVE "evidence_available" \in Facts(config)
    <3>1. /\ Agent(config)["validate_signals"][3].when.fact = "evidence_available"
          /\ 3 \in DOMAIN Agent(config)["validate_signals"]
      BY <1>21, <2>1 DEF ValidationTransitions, If, IsNot
    <3> QED
      BY <1>2, <3>1, GuardsAskForFacts
  <2> QED
    BY <1>3, <2>1 DEF Heard, SettledAt, DeniedFacts
<1>6. CASE at \in {"complete", "handoff", "stopped"}
  <2>1. Here = <<>>
    BY <1>1, <1>6 DEF Here, DiagnosticAgent
  <2> QED
    BY <1>6, <2>1
<1>7. CASE at \in {"start", "collect_signals"}
  <2>1. \E s \in {"collect_signals", "validate_signals"} : Here = <<To(s)>>
    BY <1>1, <1>7 DEF Here, DiagnosticAgent
  <2>2. Target(said) \in {"collect_signals", "validate_signals"}
    BY <2>1, OneEdge DEF If, To
  <2> QED
    BY <1>2, <2>2 DEF DiagnosticKnows
<1>8. CASE at = "request_more_signals"
  <2>1. \E s \in {"handoff", "stopped"} :
          Here =
            <<If(Is("diagnostic_budget_exhausted"), s), To("collect_signals")>>
    BY <1>1, <1>8, DiagnosticTargets DEF Here, DiagnosticAgent
  <2>2. Target(said) \in {"handoff", "stopped", "collect_signals"}
    BY <2>1, TwoEdges DEF If, To
  <2> QED
    BY <1>2, <2>2 DEF DiagnosticKnows
<1>9. CASE at = "validate_signals"
  <2>1. Holds(IsNot("signals_valid"), said) <=> said["signals_valid"] = "false"
    BY <1>4, GuardsAsk, IsReads, IsNotReads, BelowIsNotRead
  <2>2. \/ Target(said) \in {"request_more_signals", "handoff"}
        \/ /\ Target(said) = "run_diagnostic_checks" /\ said["signals_valid"] # "false"
           /\ config.evidence => said["evidence_available"] # "false"
    <3>1. CASE config.evidence
      <4>1. Here =
              <<If(Is("missing_signals"), "request_more_signals"),
                If(IsNot("signals_valid"), "handoff"),
                If(IsNot("evidence_available"), "request_more_signals"),
                To("run_diagnostic_checks")>>
        BY <1>9, <1>21, <3>1 DEF Here, ValidationTransitions
      <4>2. "evidence_available" \in DOMAIN said
        BY <1>5, <3>1 DEF Heard
      <4>3. Holds(IsNot("evidence_available"), said) <=> said["evidence_available"] = "false"
        BY <4>2, GuardsAsk, IsReads, IsNotReads, BelowIsNotRead
      <4> QED
        BY <2>1, <4>1, <4>3, FourEdges DEF If, To
    <3>2. CASE ~ config.evidence
      <4>1. Here =
              <<If(Is("missing_signals"), "request_more_signals"),
                If(IsNot("signals_valid"), "handoff"), To("run_diagnostic_checks")>>
        BY <1>9, <1>21, <3>2 DEF Here, ValidationTransitions
      <4> QED
        BY <2>1, <3>2, <4>1, ThreeEdges DEF If, To
    <3> QED
      BY <3>1, <3>2
  <2> QED
    BY <1>2, <1>5, <2>2 DEF DiagnosticKnows
<1>10. CASE at = "run_diagnostic_checks"
  <2>1. PICK s \in {"handoff", "stopped"},
           t \in {"handoff", "stopped", "run_diagnostic_checks"} :
          Here =
            <<If(Is("diagnostic_budget_exhausted"), s), If(Is("diagnostic_check_failed"), t),
              To("evaluate_diagnosis")>>
    BY <1>1, <1>10, DiagnosticTargets DEF Here, DiagnosticAgent
  <2>2. /\ Consulted(config, at) \subseteq
             {"diagnostic_budget_exhausted", "diagnostic_check_failed"}
        /\ \/ Target(said) \in {"handoff", "stopped", "run_diagnostic_checks"}
           \/ /\ Target(said) = "evaluate_diagnosis"
              /\ said["diagnostic_check_failed"] # "true"
    <3>1. /\ Is("diagnostic_budget_exhausted").fact = "diagnostic_budget_exhausted"
          /\ Is("diagnostic_check_failed").fact = "diagnostic_check_failed"
          /\ Holds(Is("diagnostic_check_failed"), said) <=>
               said["diagnostic_check_failed"] = "true"
      BY <1>4, GuardsAsk, IsReads, IsNotReads, BelowIsNotRead
    <3> QED
      BY <2>1, <3>1, ThreeEdges DEF If, To
  <2>3. /\ said["signals_valid"] = facts["signals_valid"]
        /\ config.evidence => said["evidence_available"] = facts["evidence_available"]
    BY <1>3, <1>5, <2>2 DEF Heard
  <2> QED
    BY <1>2, <1>10, <2>2, <2>3 DEF DiagnosticKnows
<1>11. CASE at = "evaluate_diagnosis"
  <2>1. \E s \in {"handoff", "stopped", "request_more_signals"},
           t \in {"handoff", "mock_safe_remediation", "suggest_remediation"} :
          Here =
            <<If(Is("diagnosis_inconclusive"), s), If(Is("diagnosis_known"), t), To("handoff")>>
    BY <1>1, <1>11, DiagnosticTargets DEF Here, DiagnosticAgent
  <2>2. /\ Consulted(config, at) \subseteq {"diagnosis_inconclusive", "diagnosis_known"}
        /\ \/ Target(said) \in {"handoff", "stopped", "request_more_signals"}
           \/ /\ Target(said) \in {"mock_safe_remediation", "suggest_remediation"}
              /\ said["diagnosis_inconclusive"] # "true" /\ said["diagnosis_known"] = "true"
    BY <1>4, <2>1, ThreeEdges, GuardsAsk, IsReads, IsNotReads, BelowIsNotRead DEF If, To
  <2>3. /\ said["signals_valid"] = facts["signals_valid"]
        /\ said["diagnostic_check_failed"] = facts["diagnostic_check_failed"]
        /\ config.evidence => said["evidence_available"] = facts["evidence_available"]
    BY <1>3, <1>5, <2>2 DEF Heard
  <2> QED
    BY <1>2, <1>11, <2>2, <2>3 DEF DiagnosticKnows
<1>12. CASE at \in {"suggest_remediation", "mock_safe_remediation"}
  <2>1. PICK s \in {"verify_resolution", "complete"} :
          /\ s = "complete" => ~ config.verify
          /\ \/ Here = <<To(s)>>
             \/ Here = <<If(Is("remediation_attempts_exhausted"), "handoff"), To(s)>>
    BY <1>1, <1>12, DiagnosticTargets DEF Here, DiagnosticAgent
  <2>2. /\ Consulted(config, at) \subseteq {"remediation_attempts_exhausted"}
        /\ Target(said) \in {"handoff", s}
    <3>1. Is("remediation_attempts_exhausted").fact = "remediation_attempts_exhausted"
      BY DEF Is
    <3> QED
      BY <2>1, <3>1, OneEdge, TwoEdges DEF If, To
  <2>3. /\ \A f \in asked : said[f] = facts[f]
        /\ config.evidence => said["evidence_available"] = facts["evidence_available"]
    BY <1>3, <1>5, <2>2 DEF Heard
  <2> QED
    BY <1>2, <1>12, <2>1, <2>2, <2>3 DEF DiagnosticKnows
<1>13. CASE at = "verify_resolution"
  <2>1. Here = <<If(Is("resolution_verified"), "complete"), To("handoff")>>
    BY <1>1, <1>13 DEF Here, DiagnosticAgent
  <2>2. /\ Consulted(config, at) \subseteq {"resolution_verified"}
        /\ \/ Target(said) = "handoff"
           \/ Target(said) = "complete" /\ said["resolution_verified"] = "true"
    BY <1>4, <2>1, TwoEdges, GuardsAsk, IsReads, IsNotReads, BelowIsNotRead DEF If, To
  <2>3. /\ \A f \in asked \ {"resolution_verified"} : said[f] = facts[f]
        /\ config.evidence => said["evidence_available"] = facts["evidence_available"]
    BY <1>3, <1>5, <2>2 DEF Heard
  <2> QED
    BY <1>2, <1>13, <2>2, <2>3 DEF DiagnosticKnows
<1> QED
  BY <1>2, <1>6, <1>7, <1>8, <1>9, <1>10, <1>11, <1>12, <1>13

-----------------------------------------------------------------------------
Knows(s, said) ==
  /\ config.kind = "request" => RequestKnows(s, said)
  /\ config.kind = "approval" => ApprovalKnows(s, said)
  /\ config.kind = "knowledge" => KnowledgeKnows(entry, s, said)
  /\ config.kind = "intake" => IntakeKnows(config, s, said)
  /\ config.kind = "diagnostic" => DiagnosticKnows(config, s, said)

AgentInv ==
  /\ config \in Configs /\ Compilable(config)
  /\ at \in DOMAIN Agent(config)
  /\ facts \in [Facts(config) -> Said]
  /\ SettledAt(facts) /\ Knows(at, facts)
  /\ NeverStuck

(* What a test case says of the facts is something a run may say of them.    *)
LEMMA CasesSay ==
  ASSUME NEW c, NEW k \in Cases(c), NEW f \in DOMAIN k.given,
         c.kind \in {"request", "approval", "knowledge", "intake", "diagnostic"}
  PROVE  /\ k.given[f] \in Said
         /\ c.kind # "knowledge" => k.given[f] \in {"true", "false"}
<1>1. CASE c.kind = "request"
  BY <1>1 DEF Cases, RequestCases, Case
<1>2. CASE c.kind = "approval"
  BY <1>2 DEF Cases, ApprovalCases, Case, Said
<1>3. CASE c.kind = "knowledge"
  BY <1>3 DEF Cases, KnowledgeCases, Sourced, Case, Said
<1>4. CASE c.kind = "intake"
  BY <1>4 DEF Cases, IntakeCases, Case, Said
<1>5. CASE c.kind = "diagnostic"
  BY <1>5 DEF Cases, DiagnosticCases, Case, Said
<1> QED
  BY <1>1, <1>2, <1>3, <1>4, <1>5

LEMMA AgentStarts ==
  ASSUME AgentsAssumption, AgentInit PROVE AgentInv
<1>1. PICK s, k, given :
        /\ s \in Entries(config)
        /\ Started(config, s, k, given) /\ config \in Configs /\ Compilable(config)
        /\ \A f \in DOMAIN given :
             /\ given[f] \in Said
             /\ config.kind # "knowledge" => given[f] \in {"true", "false"}
  <2>1. PICK c \in {x \in Configs : Compilable(x)} :
          \/ \E s \in Entries(c) : Started(c, s, None, NoFacts)
          \/ \E k \in Cases(c), s \in Entries(c) : Started(c, s, k, k.given)
    BY DEF AgentInit
  <2>2. c.kind \in {"request", "approval", "knowledge", "intake", "diagnostic"}
    BY <2>1 DEF AgentsAssumption
  <2>3. CASE \E s \in Entries(c) : Started(c, s, None, NoFacts)
    <3>1. DOMAIN NoFacts = {}
      BY DEF NoFacts
    <3>2. PICK s \in Entries(c) : Started(c, s, None, NoFacts)
      BY <2>3
    <3>3. config = c
      BY <3>2 DEF Started
    <3> QED
      BY <2>1, <3>1, <3>2, <3>3
  <2>4. CASE \E k \in Cases(c), s \in Entries(c) : Started(c, s, k, k.given)
    <3>1. PICK k \in Cases(c), s \in Entries(c) : Started(c, s, k, k.given)
      BY <2>4
    <3>2. config = c
      BY <3>1 DEF Started
    <3>3. \A f \in DOMAIN k.given :
            /\ k.given[f] \in Said
            /\ config.kind # "knowledge" => k.given[f] \in {"true", "false"}
      BY <2>2, <3>1, <3>2, CasesSay
    <3> QED
      BY <2>1, <3>1, <3>2, <3>3
  <2> QED
    BY <2>1, <2>3, <2>4
<1>2. /\ at = s /\ entry = s /\ status = "running"
      /\ facts = [f \in Facts(config) |->
                    IF f \in DOMAIN given THEN given[f] ELSE Default(config, f)]
  BY <1>1 DEF Started
<1>3. config.kind \in {"request", "approval", "knowledge", "intake", "diagnostic"}
  BY <1>1 DEF AgentsAssumption
<1>4. at \in DOMAIN Agent(config)
  BY <1>1, <1>2, <1>3 DEF Entries, Agent, RequestAgent, ApprovalAgent, KnowledgeAgent,
    IntakeAgent, DiagnosticAgent
<1>5. facts \in [Facts(config) -> Said]
  <2>1. \A f \in Facts(config) : Default(config, f) \in Said
    BY DEF Default, Said
  <2> QED
    BY <1>1, <1>2, <2>1
<1>6. SettledAt(facts)
  <2>1. \A f \in DeniedFacts : config.kind # "knowledge" => Default(config, f) \in {"true", "false"}
    BY DEF Default, DeniedFacts
  <2> QED
    BY <1>1, <1>2, <2>1 DEF SettledAt
<1>7. Knows(at, facts)
  BY <1>1, <1>2, <1>3 DEF Entries, Knows, RequestKnows, ApprovalKnows, KnowledgeKnows,
    IntakeKnows, DiagnosticKnows
<1> QED
  BY <1>1, <1>2, <1>4, <1>5, <1>6, <1>7 DEF AgentInv, NeverStuck

(* Whatever kind of agent it is, a run goes where it knows what it must, or  *)
(* ends where the agent does.                                                 *)
LEMMA AgentMoves ==
  ASSUME AgentsAssumption, AgentInv, NEW said, Heard(said)
  PROVE  \/ at \in FinalStates \cup {"handoff"} /\ Here = <<>>
         \/ Target(said) \in DOMAIN Agent(config) /\ Knows(Target(said), said)
<1> USE DEF AgentInv, Knows, FinalStates
<1>1. CASE config.kind = "request"
  BY <1>1, RequestGoesOn
<1>2. CASE config.kind = "approval"
  BY <1>2, ApprovalMoves
<1>3. CASE config.kind = "knowledge"
  <2>1. config.cite \in BOOLEAN /\ config.unverified \in BOOLEAN
    BY <1>3 DEF AgentsAssumption
  <2>2. config.cite /\ ~ config.unverified
    BY <1>3, <2>1, CompilableAsks
  <2> QED
    BY <1>3, <2>2, KnowledgeMoves
<1>4. CASE config.kind = "intake"
  <2>1. config.confirm \in BOOLEAN
    BY <1>4 DEF AgentsAssumption
  <2> QED
    BY <1>4, <2>1, IntakeMoves
<1>5. CASE config.kind = "diagnostic"
  <2>1. config.evidence \in BOOLEAN /\ config.verify \in BOOLEAN
    BY <1>5 DEF AgentsAssumption
  <2> QED
    BY <1>5, <2>1, DiagnosticMoves
<1> QED
  BY <1>1, <1>2, <1>3, <1>4, <1>5 DEF AgentsAssumption

LEMMA AgentSteps ==
  ASSUME AgentsAssumption, AgentInv, [AgentNext]_agentVars PROVE AgentInv'
<1>1. CASE Visit
  <2>1. PICK said : Heard(said) /\ Enter(said)
    <3>1. PICK said \in (IF trial = None THEN HostSays ELSE {DemoSays}) : Enter(said)
      BY <1>1 DEF Visit
    <3>2. Heard(said)
      BY HostIsHeard, DemoIsHeard DEF AgentInv
    <3> QED
      BY <3>1, <3>2
  <2>2. config' = config /\ entry' = entry /\ facts' = said
    BY <1>1, <2>1 DEF Visit, Enter
  <2>3. said \in [Facts(config) -> Said] /\ SettledAt(said)
    BY <2>1 DEF AgentInv, Heard
  <2>4. CASE at \in FinalStates \cup {"handoff"} /\ Here = <<>>
    <3>1. Target(said) = None
      BY <2>4, NoEdge
    <3>2. at' = at /\ status' # "stuck"
      BY <2>1, <2>4, <3>1 DEF Enter, FinalStates
    <3>3. Consulted(config, at) = {}
      BY <2>4 DEF Consulted, Here
    <3>4. said = facts
      BY <2>1, <3>3 DEF Heard, AgentInv
    <3> QED
      BY <2>2, <2>3, <3>2, <3>4 DEF AgentInv, NeverStuck, Knows, SettledAt
  <2>5. CASE Target(said) \in DOMAIN Agent(config) /\ Knows(Target(said), said)
    <3>1. Target(said) # None
      BY <2>5 DEF AgentInv, AgentsAssumption
    <3>2. at' = Target(said) /\ status' = status
      BY <2>1, <3>1 DEF Enter
    <3> QED
      BY <2>2, <2>3, <2>5, <3>2 DEF AgentInv, NeverStuck, Knows, SettledAt
  <2> QED
    BY <2>1, <2>4, <2>5, AgentMoves
<1>2. CASE GiveUp
  BY <1>2 DEF GiveUp, AgentInv, NeverStuck, Knows, SettledAt
<1>3. CASE UNCHANGED agentVars
  BY <1>3 DEF agentVars, AgentInv, NeverStuck, Knows, SettledAt
<1> QED
  BY <1>1, <1>2, <1>3 DEF AgentNext

(* What a run knows is what it must to commit itself.                        *)
LEMMA KnowingIsDeciding ==
  ASSUME AgentsAssumption, AgentInv PROVE CommitsAsConfigured /\ NeverStuck
<1> USE DEF AgentInv, Knows, Unless, NotDenied, CommitsAsConfigured
<1>1. CASE config.kind = "request"
  <2>1. at \notin {"auto_approved", "generate_answer"}
    BY <1>1 DEF Agent, RequestAgent
  <2> QED
    BY <1>1, <2>1 DEF RequestKnows
<1>2. CASE config.kind = "approval"
  <2>1. at \notin {"execute_resolution", "generate_answer"}
    BY <1>2 DEF Agent, ApprovalAgent
  <2> QED
    BY <1>2, <2>1 DEF ApprovalKnows
<1>3. CASE config.kind = "knowledge"
  <2>1. at \notin {"execute_resolution", "auto_approved"}
    BY <1>3 DEF Agent, KnowledgeAgent
  <2> QED
    BY <1>3, <2>1 DEF KnowledgeKnows
<1>4. CASE config.kind = "intake"
  <2>1. at \notin {"execute_resolution", "auto_approved", "generate_answer"}
    BY <1>4 DEF Agent, IntakeAgent
  <2> QED
    BY <1>4, <2>1 DEF IntakeKnows
<1>5. CASE config.kind = "diagnostic"
  <2>1. at \notin {"execute_resolution", "auto_approved", "generate_answer"}
    BY <1>5 DEF Agent, DiagnosticAgent
  <2> QED
    BY <1>5, <2>1 DEF DiagnosticKnows
<1> QED
  BY <1>1, <1>2, <1>3, <1>4, <1>5 DEF AgentsAssumption

-----------------------------------------------------------------------------
(* The trials: a run of a test case, of whose facts the input says some and   *)
(* the demo handlers the rest.                                                *)
DemoAnswer(f) == IF f = "sensitive_question" THEN "false" ELSE "true"

Given0(f) == IF f \in DOMAIN trial.given THEN trial.given[f] ELSE Default(config, f)
AnswerOf(f) == IF Given0(f) = "unsaid" THEN DemoAnswer(f) ELSE Given0(f)

TrialFacts ==
  \A f \in Facts(config) :
    facts[f] = AnswerOf(f) \/ (facts[f] = "unsaid" /\ AnswerOf(f) = DemoAnswer(f))

Open(guard) == guard.says # "less" /\ AnswerOf(guard.fact) = guard.says

LEMMA AnswersAreSaid ==
  ASSUME NEW f
  PROVE  AnswerOf(f) # "unsaid"
BY DEF AnswerOf, DemoAnswer

(* A guard of a trial is open when the answer the trial has for its fact says *)
(* so.                                                                        *)
LEMMA TrialReads ==
  ASSUME TrialFacts, facts \in [Facts(config) -> Said], at \in DOMAIN Agent(config),
         NEW i \in DOMAIN Here, Here[i].when.fact # "nothing"
  PROVE  Holds(Here[i].when, DemoSays) <=> Open(Here[i].when)
<1> DEFINE f == Here[i].when.fact
<1>1. f \in Consulted(config, at) /\ f \in Facts(config)
  BY GuardsAskForFacts DEF Here, Consulted
<1>2. f \in DOMAIN DemoSays
  BY <1>1 DEF DemoSays
<1>3. DemoSays[f] = IF facts[f] = "unsaid" THEN DemoAnswer(f) ELSE facts[f]
  BY <1>1 DEF DemoSays, DemoAnswer
<1>4. DemoSays[f] = AnswerOf(f)
  BY <1>1, <1>3, AnswersAreSaid DEF TrialFacts
<1> QED
  BY <1>2, <1>4 DEF Holds, Always, Open

LEMMA TrialStays ==
  ASSUME TrialFacts, facts \in [Facts(config) -> Said]
  PROVE  \A f \in Facts(config) :
           \/ DemoSays[f] = AnswerOf(f)
           \/ DemoSays[f] = "unsaid" /\ AnswerOf(f) = DemoAnswer(f)
<1>1. \A f \in Facts(config) :
        DemoSays[f] = IF f \in Consulted(config, at) /\ facts[f] = "unsaid"
                      THEN DemoAnswer(f) ELSE facts[f]
  BY DEF DemoSays, DemoAnswer
<1> QED
  BY <1>1, AnswersAreSaid DEF TrialFacts

(* Where a state leads a trial, by how many edges it has.                    *)
LEMMA TrialTwo ==
  ASSUME TrialFacts, facts \in [Facts(config) -> Said], at \in DOMAIN Agent(config),
         DOMAIN Here = 1 .. 2, Here[2].when = Always, Here[1].when.fact # "nothing"
  PROVE  Target(DemoSays) = IF Open(Here[1].when) THEN Here[1].to ELSE Here[2].to
BY TwoEdges, TrialReads

LEMMA TrialThree ==
  ASSUME TrialFacts, facts \in [Facts(config) -> Said], at \in DOMAIN Agent(config),
         DOMAIN Here = 1 .. 3, Here[3].when = Always, Here[1].when.fact # "nothing",
         Here[2].when.fact # "nothing"
  PROVE  Target(DemoSays) =
           IF Open(Here[1].when) THEN Here[1].to
           ELSE IF Open(Here[2].when) THEN Here[2].to ELSE Here[3].to
BY ThreeEdges, TrialReads

LEMMA TrialFour ==
  ASSUME TrialFacts, facts \in [Facts(config) -> Said], at \in DOMAIN Agent(config),
         DOMAIN Here = 1 .. 4, Here[4].when = Always, Here[1].when.fact # "nothing",
         Here[2].when.fact # "nothing", Here[3].when.fact # "nothing"
  PROVE  Target(DemoSays) =
           IF Open(Here[1].when) THEN Here[1].to
           ELSE IF Open(Here[2].when) THEN Here[2].to
           ELSE IF Open(Here[3].when) THEN Here[3].to ELSE Here[4].to
BY FourEdges, TrialReads

LEMMA TrialFive ==
  ASSUME TrialFacts, facts \in [Facts(config) -> Said], at \in DOMAIN Agent(config),
         DOMAIN Here = 1 .. 5, Here[5].when = Always, Here[1].when.fact # "nothing",
         Here[2].when.fact # "nothing", Here[3].when.fact # "nothing",
         Here[4].when.fact # "nothing"
  PROVE  Target(DemoSays) =
           IF Open(Here[1].when) THEN Here[1].to
           ELSE IF Open(Here[2].when) THEN Here[2].to
           ELSE IF Open(Here[3].when) THEN Here[3].to
           ELSE IF Open(Here[4].when) THEN Here[4].to ELSE Here[5].to
BY FiveEdges, TrialReads

(* How far a trial has come before it is at the state its outcome names, kind *)
(* by kind: the states behind it.                                             *)
RequestWay(s, past) ==
  \/ s = "classify_request" /\ past \subseteq {"classify_request"}
  \/ s = "check_order" /\ past \subseteq {"classify_request", "check_order"}
  \/ s = "evaluate_rules" /\ past \subseteq {"classify_request", "check_order", "evaluate_rules"}
  \/ /\ s = "execute_resolution"
     /\ past \subseteq {"classify_request", "check_order", "evaluate_rules", "execute_resolution"}

LEMMA RequestTrial ==
  ASSUME config.kind = "request", at \in DOMAIN Agent(config),
         facts \in [Facts(config) -> Said], trial \in Cases(config), trial.name \notin Unmet,
         TrialFacts, RequestWay(at, trail)
  PROVE  /\ Target(DemoSays) \notin trail
         /\ \/ Target(DemoSays) = trial.expects
            \/ RequestWay(Target(DemoSays), trail \cup {Target(DemoSays)})
<1>1. Agent(config) = RequestAgent
  BY DEF Agent
<1>2. trial = Case("shipping", <<>>, "done")
  BY DEF Cases, RequestCases, Unmet, Case
<1>3. /\ trial.expects = "done"
      /\ AnswerOf("order_found") = "true"
      /\ \A f \in {"missing_required_info", "api_failed", "high_risk", "rule_conflict",
                   "requires_handoff"} : AnswerOf(f) = "false"
  BY <1>2 DEF Case, AnswerOf, Given0, Default, DemoAnswer
<1>4. CASE at = "classify_request"
  <2>1. Here = <<If(Is("missing_required_info"), "collect_required_info"), To("check_order")>>
    BY <1>1, <1>4 DEF Here, RequestAgent
  <2>2. Target(DemoSays) = "check_order"
    BY <1>3, <2>1, TrialTwo DEF If, To, Is, Open
  <2> QED
    BY <1>4, <2>2 DEF RequestWay
<1>5. CASE at = "check_order"
  <2>1. Here = <<If(IsNot("order_found"), "handoff"), If(Is("api_failed"), "handoff"),
                 To("evaluate_rules")>>
    BY <1>1, <1>5 DEF Here, RequestAgent
  <2>2. Target(DemoSays) = "evaluate_rules"
    BY <1>3, <2>1, TrialThree DEF If, To, Is, IsNot, Open
  <2> QED
    BY <1>5, <2>2 DEF RequestWay
<1>6. CASE at = "evaluate_rules"
  <2>1. Here = <<If(Is("high_risk"), "handoff"), If(Is("rule_conflict"), "handoff"),
                 If(Is("requires_handoff"), "handoff"), To("execute_resolution")>>
    BY <1>1, <1>6 DEF Here, RequestAgent
  <2>2. Target(DemoSays) = "execute_resolution"
    BY <1>3, <2>1, TrialFour DEF If, To, Is, Open
  <2> QED
    BY <1>6, <2>2 DEF RequestWay
<1>7. CASE at = "execute_resolution"
  <2>1. Here = <<If(Is("api_failed"), "handoff"), To("done")>>
    BY <1>1, <1>7 DEF Here, RequestAgent
  <2>2. Target(DemoSays) = "done"
    BY <1>3, <2>1, TrialTwo DEF If, To, Is, Open
  <2> QED
    BY <1>3, <1>7, <2>2 DEF RequestWay
<1> QED
  BY <1>4, <1>5, <1>6, <1>7 DEF RequestWay

ApprovalWay(s, past) ==
  \/ s = "collect_request" /\ past = {"collect_request"}
  \/ s = "collect_evidence" /\ past = {"collect_request", "collect_evidence"}
  \/ /\ s = "validate_evidence"
     /\ past = {"collect_request", "collect_evidence", "validate_evidence"}
  \/ /\ s = "evaluate_policy"
     /\ past =
          {"collect_request", "collect_evidence", "validate_evidence", "evaluate_policy"}

LEMMA ApprovalTrial ==
  ASSUME config.kind = "approval", at \in DOMAIN Agent(config),
         facts \in [Facts(config) -> Said], trial \in Cases(config), trial.expects \notin trail,
         TrialFacts, ApprovalWay(at, trail)
  PROVE  /\ Target(DemoSays) \notin trail
         /\ \/ Target(DemoSays) = trial.expects
            \/ ApprovalWay(Target(DemoSays), trail \cup {Target(DemoSays)})
<1>1. Agent(config) = ApprovalAgent
  BY DEF Agent
<1>2. trial \in ApprovalCases
  BY DEF Cases
<1>3. /\ AnswerOf("requires_human_review") = "false"
      /\ \/ trial.expects = "collect_evidence"
         \/ /\ AnswerOf("missing_evidence") = "false" /\ AnswerOf("evidence_valid") = "true"
            /\ AnswerOf("policy_conflict") = IF trial.expects = "handoff" THEN "true" ELSE "false"
            /\ AnswerOf("high_risk") = IF trial.expects = "human_review" THEN "true" ELSE "false"
            /\ AnswerOf("decision_reason_required") =
                 IF trial.expects = "rejected" THEN "true" ELSE "false"
            /\ AnswerOf("low_risk") = IF trial.expects = "auto_approved" THEN "true" ELSE "false"
            /\ trial.expects \in {"handoff", "human_review", "rejected", "auto_approved"}
  <2>1. \/ trial = Case("approved", [low_risk |-> "true", evidence_valid |-> "true"],
                        "auto_approved")
        \/ trial.expects = "collect_evidence" /\ DOMAIN trial.given = {"missing_evidence"}
        \/ trial = Case("high_risk", [high_risk |-> "true", evidence_valid |-> "true"],
                        "human_review")
        \/ trial = Case("conflict", [policy_conflict |-> "true", evidence_valid |-> "true"],
                        "handoff")
        \/ trial = Case("rejected",
                        [decision_reason_required |-> "true", evidence_valid |-> "true"],
                        "rejected")
    BY <1>2 DEF ApprovalCases, Case
  <2> QED
    BY <2>1 DEF Case, AnswerOf, Given0, Default
<1>4. CASE at = "collect_request"
  <2>1. Here = <<To("collect_evidence")>>
    BY <1>1, <1>4 DEF Here, ApprovalAgent
  <2>2. Target(DemoSays) = "collect_evidence"
    BY <2>1, OneEdge DEF To
  <2> QED
    BY <1>4, <2>2 DEF ApprovalWay
<1>5. CASE at = "collect_evidence"
  <2>1. Here = <<If(Is("requires_human_review"), "handoff"), To("validate_evidence")>>
    BY <1>1, <1>5 DEF Here, ApprovalAgent
  <2>2. Target(DemoSays) = "validate_evidence"
    BY <1>3, <2>1, TrialTwo DEF If, To, Is, Open
  <2> QED
    BY <1>5, <2>2 DEF ApprovalWay
<1>6. CASE at = "validate_evidence"
  <2>1. Here = <<If(Is("missing_evidence"), "collect_evidence"),
                 If(IsNot("evidence_valid"), "handoff"), To("evaluate_policy")>>
    BY <1>1, <1>6 DEF Here, ApprovalAgent
  <2>2. Target(DemoSays) =
          IF AnswerOf("missing_evidence") = "true" THEN "collect_evidence"
          ELSE IF AnswerOf("evidence_valid") = "false" THEN "handoff" ELSE "evaluate_policy"
    BY <2>1, TrialThree DEF If, To, Is, IsNot, Open
  <2> QED
    BY <1>3, <1>6, <2>2 DEF ApprovalWay
<1>7. CASE at = "evaluate_policy"
  <2>1. Here = <<If(Is("policy_conflict"), "handoff"), If(Is("high_risk"), "human_review"),
                 If(Is("decision_reason_required"), "rejected"),
                 If(Is("low_risk"), "auto_approved"), To("human_review")>>
    BY <1>1, <1>7 DEF Here, ApprovalAgent, PolicyTransitions
  <2>2. Target(DemoSays) =
          IF AnswerOf("policy_conflict") = "true" THEN "handoff"
          ELSE IF AnswerOf("high_risk") = "true" THEN "human_review"
          ELSE IF AnswerOf("decision_reason_required") = "true" THEN "rejected"
          ELSE IF AnswerOf("low_risk") = "true" THEN "auto_approved" ELSE "human_review"
    BY <2>1, TrialFive DEF If, To, Is, Open
  <2> QED
    BY <1>3, <1>7, <2>2 DEF ApprovalWay
<1> QED
  BY <1>4, <1>5, <1>6, <1>7 DEF ApprovalWay

KnowledgeWay(s, past) ==
  /\ \/ s = "classify_question" /\ past \subseteq {"classify_question"}
     \/ /\ s = "collect_question_context"
        /\ past \subseteq {"classify_question", "collect_question_context"}
     \/ /\ s = "retrieve_knowledge"
        /\ past \subseteq {"classify_question", "collect_question_context", "retrieve_knowledge"}
     \/ /\ s = "evaluate_confidence"
        /\ past \subseteq {"classify_question", "collect_question_context", "retrieve_knowledge",
                         "evaluate_confidence"}
     \/ /\ s = "check_source_policy"
        /\ past \subseteq {"classify_question", "collect_question_context", "retrieve_knowledge",
                         "evaluate_confidence", "check_source_policy"}
  /\ s # "classify_question" => AnswerOf("sensitive_question") = "false"
  /\ s \in {"evaluate_confidence", "check_source_policy"} => AnswerOf("knowledge_hit") = "true"

LEMMA KnowledgeTrial ==
  ASSUME config.kind = "knowledge", config.cite, ~ config.unverified,
         at \in DOMAIN Agent(config), facts \in [Facts(config) -> Said],
         trial \in Cases(config), trial.name \notin Unmet, TrialFacts, KnowledgeWay(at, trail)
  PROVE  /\ Target(DemoSays) \notin trail
         /\ \/ Target(DemoSays) = trial.expects
            \/ KnowledgeWay(Target(DemoSays), trail \cup {Target(DemoSays)})
<1>1. Agent(config) = KnowledgeAgent(config)
  BY DEF Agent
<1>2. trial \in KnowledgeCases
  BY DEF Cases
<1>3. \/ /\ trial.expects = "handoff" /\ config.sensitive = "handoff"
         /\ AnswerOf("sensitive_question") = "true"
      \/ /\ AnswerOf("sensitive_question") = "false"
         /\ \/ /\ trial.expects = "no_answer" /\ Reply(config.noAnswer) = "no_answer"
               /\ AnswerOf("knowledge_hit") = "false"
            \/ /\ AnswerOf("knowledge_hit") = "true"
               /\ \/ trial.expects = "no_answer" /\ AnswerOf("source_verified") = "false"
                  \/ trial.expects = "generate_answer" /\ AnswerOf("source_verified") = "true"
  <2>1. \/ trial = Case("known", Sourced("true", "true", "true", "true"), "generate_answer")
        \/ /\ trial = Case("no_answer", Sourced("false", "less", "less", "false"), "no_answer")
           /\ Reply(config.noAnswer) = "no_answer"
        \/ /\ trial = Case("sensitive", [sensitive_question |-> "true", knowledge_hit |-> "false"],
                           "handoff")
           /\ config.sensitive = "handoff"
        \/ trial = Case("no_source", Sourced("true", "true", "less", "false"), "no_answer")
    BY <1>2 DEF KnowledgeCases, Case, Unmet
  <2> QED
    BY <2>1 DEF Case, Sourced, AnswerOf, Given0, Default, DemoAnswer
<1>4. CASE at = "classify_question"
  <2>1. Here = <<If(Is("sensitive_question"),
                    IF config.sensitive = "handoff" THEN "handoff" ELSE "no_answer"),
                 To("collect_question_context")>>
    BY <1>1, <1>4 DEF Here, KnowledgeAgent
  <2>2. Target(DemoSays) =
          IF AnswerOf("sensitive_question") = "true"
          THEN IF config.sensitive = "handoff" THEN "handoff" ELSE "no_answer"
          ELSE "collect_question_context"
    BY <2>1, TrialTwo DEF If, To, Is, Open
  <2> QED
    BY <1>3, <1>4, <2>2 DEF KnowledgeWay
<1>5. CASE at = "collect_question_context"
  <2>1. Here = <<To("retrieve_knowledge")>>
    BY <1>1, <1>5 DEF Here, KnowledgeAgent
  <2>2. Target(DemoSays) = "retrieve_knowledge"
    BY <2>1, OneEdge DEF To
  <2> QED
    BY <1>5, <2>2 DEF KnowledgeWay
<1>6. CASE at = "retrieve_knowledge"
  <2>1. Here = <<If(IsNot("knowledge_hit"), Reply(config.noAnswer)), To("evaluate_confidence")>>
    BY <1>1, <1>6 DEF Here, KnowledgeAgent
  <2>2. Target(DemoSays) =
          IF AnswerOf("knowledge_hit") = "false" THEN Reply(config.noAnswer)
          ELSE "evaluate_confidence"
    BY <2>1, TrialTwo DEF If, To, IsNot, Open
  <2> QED
    BY <1>3, <1>6, <2>2 DEF KnowledgeWay
<1>7. CASE at = "evaluate_confidence"
  <2>1. Here = <<If(Below("confidence_score"), Reply(config.lowConfidence)),
                 To("check_source_policy")>>
    BY <1>1, <1>7 DEF Here, KnowledgeAgent
  <2>2. Target(DemoSays) = "check_source_policy"
    BY <2>1, TrialTwo DEF If, To, Below, Open
  <2> QED
    BY <1>7, <2>2 DEF KnowledgeWay
<1>8. CASE at = "check_source_policy"
  <2>1. Here = <<If(IsNot("source_verified"), "no_answer"),
                 If(Below("demo_source_count"), "no_answer"), To("generate_answer")>>
    BY <1>1, <1>8 DEF Here, KnowledgeAgent
  <2>2. Target(DemoSays) =
          IF AnswerOf("source_verified") = "false" THEN "no_answer" ELSE "generate_answer"
    BY <2>1, TrialThree DEF If, To, IsNot, Below, Open
  <2> QED
    BY <1>3, <1>8, <2>2 DEF KnowledgeWay
<1> QED
  BY <1>4, <1>5, <1>6, <1>7, <1>8 DEF KnowledgeWay

IntakeWay(s, past) ==
  /\ \/ s = "start" /\ past \subseteq {"start"}
     \/ s = "collect_fields" /\ past \subseteq {"start", "collect_fields"}
     \/ s = "validate_fields" /\ past \subseteq {"start", "collect_fields", "validate_fields"}
     \/ /\ s = "detect_missing"
        /\ past \subseteq {"start", "collect_fields", "validate_fields", "detect_missing"}
        /\ trial.name # "invalid"
     \/ /\ s = "request_clarification"
        /\ past \subseteq {"start", "collect_fields", "validate_fields", "detect_missing",
                           "request_clarification"}
        /\ trial.name = "budget" /\ trial.expects = "handoff"
     \/ /\ s = "check_duplicate"
        /\ past \subseteq {"start", "collect_fields", "validate_fields", "detect_missing",
                           "check_duplicate"}
        /\ trial.name \in {"complete", "duplicate", "confirmation"}
     \/ /\ s = "confirm_record"
        /\ past \subseteq {"start", "collect_fields", "validate_fields", "detect_missing",
                           "check_duplicate", "confirm_record"}
        /\ trial.name = "complete"

LEMMA IntakeTrial ==
  ASSUME config.kind = "intake", config.confirm \in BOOLEAN,
         at \in DOMAIN Agent(config), facts \in [Facts(config) -> Said],
         trial \in Cases(config), trial.name \notin Unmet, TrialFacts, IntakeWay(at, trail)
  PROVE  /\ Target(DemoSays) \notin trail
         /\ \/ Target(DemoSays) = trial.expects
            \/ IntakeWay(Target(DemoSays), trail \cup {Target(DemoSays)})
<1>1. Agent(config) = IntakeAgent(config)
  BY DEF Agent
<1>2. trial \in IntakeCases(config)
  BY DEF Cases
<1>3. /\ trial.name \in {"complete", "missing", "invalid", "budget", "duplicate", "confirmation"}
      /\ trial.name = "complete" => trial.expects = "complete"
      /\ trial.name = "missing" => trial.expects = "request_clarification"
      /\ trial.name = "invalid" => trial.expects = InvalidTarget(config)
      /\ trial.name = "budget" => trial.expects = Exhausted(config.incomplete)
      /\ trial.name = "duplicate" => trial.expects = DuplicateTarget(config)
      /\ trial.name = "confirmation" => trial.expects = CompletionTarget(config)
  BY <1>2 DEF IntakeCases, Case
<1>4. /\ AnswerOf("fields_valid") = IF trial.name = "invalid" THEN "false" ELSE "true"
      /\ AnswerOf("missing_fields") =
           IF trial.name \in {"missing", "budget"} THEN "true" ELSE "false"
      /\ AnswerOf("clarification_budget_exhausted") =
           IF trial.name = "budget" THEN "true" ELSE "false"
      /\ AnswerOf("duplicate_detected") = IF trial.name = "duplicate" THEN "true" ELSE "false"
      /\ AnswerOf("record_confirmed") = IF trial.name = "complete" THEN "true" ELSE "false"
  BY <1>2 DEF IntakeCases, Case, AnswerOf, Given0, Default
<1>5. trial.name = "missing" =>
        Otherwise(config.incomplete, "request_clarification") = "request_clarification"
  BY DEF Unmet
<1>6. CompletionTarget(config) = IF config.confirm THEN "confirm_record" ELSE "complete"
  BY IntakeTargets
<1>7. CASE at = "start"
  <2>1. Here = <<To("collect_fields")>>
    BY <1>1, <1>7 DEF Here, IntakeAgent
  <2>2. Target(DemoSays) = "collect_fields"
    BY <2>1, OneEdge DEF To
  <2> QED
    BY <1>7, <2>2 DEF IntakeWay
<1>8. CASE at = "collect_fields"
  <2>1. Here = <<To("validate_fields")>>
    BY <1>1, <1>8 DEF Here, IntakeAgent
  <2>2. Target(DemoSays) = "validate_fields"
    BY <2>1, OneEdge DEF To
  <2> QED
    BY <1>8, <2>2 DEF IntakeWay
<1>9. CASE at = "validate_fields"
  <2>1. Here = <<If(IsNot("fields_valid"), InvalidTarget(config)), To("detect_missing")>>
    BY <1>1, <1>9 DEF Here, IntakeAgent
  <2>2. Target(DemoSays) =
          IF trial.name = "invalid" THEN InvalidTarget(config) ELSE "detect_missing"
    BY <1>4, <2>1, TrialTwo DEF If, To, IsNot, Open
  <2>3. InvalidTarget(config) \in {"handoff", "request_correction"}
    BY IntakeTargets
  <2> QED
    BY <1>3, <1>9, <2>2, <2>3 DEF IntakeWay
<1>10. CASE at = "detect_missing"
  <2>1. Here = <<If(Is("missing_fields"), Otherwise(config.incomplete, "request_clarification")),
                 To("check_duplicate")>>
    BY <1>1, <1>10 DEF Here, IntakeAgent
  <2>2. Target(DemoSays) =
          IF trial.name \in {"missing", "budget"}
          THEN Otherwise(config.incomplete, "request_clarification") ELSE "check_duplicate"
    BY <1>4, <2>1, TrialTwo DEF If, To, Is, Open
  <2>3. \/ /\ Otherwise(config.incomplete, "request_clarification") = "request_clarification"
           /\ Exhausted(config.incomplete) = "handoff"
        \/ /\ Otherwise(config.incomplete, "request_clarification")
                = Exhausted(config.incomplete)
           /\ Exhausted(config.incomplete) \in {"handoff", "stopped"}
    BY DEF Otherwise, Exhausted
  <2> QED
    BY <1>3, <1>5, <1>10, <2>2, <2>3 DEF IntakeWay
<1>11. CASE at = "request_clarification"
  <2>1. Here = <<If(Is("clarification_budget_exhausted"), Exhausted(config.incomplete)),
                 To("collect_fields")>>
    BY <1>1, <1>11 DEF Here, IntakeAgent
  <2>2. trial.name = "budget" /\ trial.expects = "handoff"
    BY <1>11 DEF IntakeWay
  <2>3. Target(DemoSays) = Exhausted(config.incomplete)
    BY <1>4, <2>1, <2>2, TrialTwo DEF If, To, Is, Open
  <2> QED
    BY <1>3, <1>11, <2>2, <2>3 DEF IntakeWay
<1>12. CASE at = "check_duplicate"
  <2>1. Here = <<If(Is("duplicate_detected"), DuplicateTarget(config)),
                 To(CompletionTarget(config))>>
    BY <1>1, <1>12 DEF Here, IntakeAgent
  <2>2. Target(DemoSays) =
          IF trial.name = "duplicate" THEN DuplicateTarget(config) ELSE CompletionTarget(config)
    BY <1>4, <2>1, TrialTwo DEF If, To, Is, Open
  <2>3. DuplicateTarget(config) \in {"handoff", "stopped", "confirm_record"}
    BY IntakeTargets
  <2> QED
    BY <1>3, <1>6, <1>12, <2>2, <2>3 DEF IntakeWay
<1>13. CASE at = "confirm_record"
  <2>1. Here = <<If(Is("record_confirmed"), "complete"), To("request_clarification")>>
    BY <1>1, <1>13 DEF Here, IntakeAgent
  <2>2. trial.name = "complete"
    BY <1>13 DEF IntakeWay
  <2>3. Target(DemoSays) = "complete"
    BY <1>4, <2>1, <2>2, TrialTwo DEF If, To, Is, Open
  <2> QED
    BY <1>3, <1>13, <2>2, <2>3 DEF IntakeWay
<1> QED
  BY <1>7, <1>8, <1>9, <1>10, <1>11, <1>12, <1>13 DEF IntakeWay

DiagnosticWay(s, past) ==
  LET begun   == {"start", "collect_signals", "validate_signals"}
      checked == begun \cup {"run_diagnostic_checks"}
      judged  == checked \cup {"evaluate_diagnosis"}
      mended  == judged \cup {"suggest_remediation", "mock_safe_remediation"}
  IN
  \/ s \in {"start", "collect_signals"} /\ past \subseteq {"start", s}
  \/ s = "validate_signals" /\ past \subseteq begun
  \/ /\ s = "run_diagnostic_checks" /\ past \subseteq checked
     /\ trial.name \notin {"missing", "no_evidence"}
  \/ /\ s = "evaluate_diagnosis" /\ past \subseteq judged
     /\ trial.name \in {"known", "inconclusive", "mock_remediation", "attempts_exhausted"}
  \/ /\ s = "suggest_remediation" /\ past \subseteq judged \cup {"suggest_remediation"}
     /\ trial.name \in {"known", "mock_remediation"}
  \/ /\ s = "mock_safe_remediation" /\ past \subseteq judged \cup {"mock_safe_remediation"}
     /\ trial.name \in {"known", "mock_remediation", "attempts_exhausted"}
  \/ /\ s = "verify_resolution" /\ past \subseteq mended \cup {"verify_resolution"}
     /\ trial.name = "known"

LEMMA DiagnosticTrial ==
  ASSUME config.kind = "diagnostic", config.evidence \in BOOLEAN, config.verify \in BOOLEAN,
         at \in DOMAIN Agent(config), facts \in [Facts(config) -> Said],
         trial \in Cases(config), trial.name \notin Unmet, trial.expects \notin trail,
         TrialFacts, DiagnosticWay(at, trail)
  PROVE  /\ Target(DemoSays) \notin trail
         /\ \/ Target(DemoSays) = trial.expects
            \/ DiagnosticWay(Target(DemoSays), trail \cup {Target(DemoSays)})
<1>1. Agent(config) = DiagnosticAgent(config)
  BY DEF Agent
<1>2. trial \in DiagnosticCases(config)
  BY DEF Cases
<1>3. /\ trial.name \in {"known", "missing", "inconclusive", "check_failure", "budget",
                         "mock_remediation", "attempts_exhausted", "no_evidence"}
      /\ trial.name = "known" => trial.expects = "complete"
      /\ trial.name = "missing" => trial.expects = "request_more_signals"
      /\ trial.name = "inconclusive" =>
           trial.expects = Otherwise(config.inconclusive, "request_more_signals")
      /\ trial.name = "check_failure" =>
           trial.expects = Otherwise(config.checkFailure, "run_diagnostic_checks")
      /\ trial.name = "budget" => trial.expects = Exhausted(config.inconclusive)
      /\ trial.name = "mock_remediation" => trial.expects = VerificationTarget(config)
      /\ trial.name = "attempts_exhausted" => trial.expects = "handoff"
      /\ trial.name = "no_evidence" => trial.expects = "request_more_signals"
  BY <1>2 DEF DiagnosticCases, Case
<1>4. /\ AnswerOf("missing_signals") = IF trial.name = "missing" THEN "true" ELSE "false"
      /\ AnswerOf("signals_valid") = "true"
      /\ AnswerOf("evidence_available") = IF trial.name = "no_evidence" THEN "false" ELSE "true"
      /\ AnswerOf("diagnostic_budget_exhausted") =
           IF trial.name = "budget" THEN "true" ELSE "false"
      /\ AnswerOf("diagnostic_check_failed") =
           IF trial.name = "check_failure" THEN "true" ELSE "false"
      /\ AnswerOf("diagnosis_inconclusive") =
           IF trial.name = "inconclusive" THEN "true" ELSE "false"
      /\ AnswerOf("diagnosis_known") = "true" /\ AnswerOf("resolution_verified") = "true"
      /\ AnswerOf("remediation_attempts_exhausted") =
           IF trial.name = "attempts_exhausted" THEN "true" ELSE "false"
  BY <1>2 DEF DiagnosticCases, Case, AnswerOf, Given0, Default
<1>5. /\ trial.name = "no_evidence" => config.evidence
      /\ RemediationTarget(config) = "suggest_remediation" => trial.name # "attempts_exhausted"
      /\ RemediationTarget(config) = "handoff" => trial.name \notin {"known", "mock_remediation"}
  BY DEF Unmet
<1>6. /\ VerificationTarget(config) = IF config.verify THEN "verify_resolution" ELSE "complete"
      /\ RemediationTarget(config) \in
           {"handoff", "mock_safe_remediation", "suggest_remediation"}
      /\ Exhausted(config.inconclusive) \in {"handoff", "stopped"}
      /\ Otherwise(config.checkFailure, "run_diagnostic_checks") \in
           {"handoff", "stopped", "run_diagnostic_checks"}
      /\ Otherwise(config.inconclusive, "request_more_signals") \in
           {"handoff", "stopped", "request_more_signals"}
  BY DiagnosticTargets
<1>7. CASE at = "start"
  <2>1. Here = <<To("collect_signals")>>
    BY <1>1, <1>7 DEF Here, DiagnosticAgent
  <2>2. Target(DemoSays) = "collect_signals"
    BY <2>1, OneEdge DEF To
  <2> QED
    BY <1>7, <2>2 DEF DiagnosticWay
<1>8. CASE at = "collect_signals"
  <2>1. Here = <<To("validate_signals")>>
    BY <1>1, <1>8 DEF Here, DiagnosticAgent
  <2>2. Target(DemoSays) = "validate_signals"
    BY <2>1, OneEdge DEF To
  <2> QED
    BY <1>8, <2>2 DEF DiagnosticWay
<1>9. CASE at = "validate_signals"
  <2>1. Here = ValidationTransitions(config)
    BY <1>1, <1>9 DEF Here, DiagnosticAgent
  <2>2. Target(DemoSays) =
          IF trial.name \in {"missing", "no_evidence"} THEN "request_more_signals"
          ELSE "run_diagnostic_checks"
    <3>1. CASE config.evidence
      <4>1. Here = <<If(Is("missing_signals"), "request_more_signals"),
                     If(IsNot("signals_valid"), "handoff"),
                     If(IsNot("evidence_available"), "request_more_signals"),
                     To("run_diagnostic_checks")>>
        BY <2>1, <3>1 DEF ValidationTransitions
      <4> QED
        BY <1>4, <4>1, TrialFour DEF If, To, Is, IsNot, Open
    <3>2. CASE ~ config.evidence
      <4>1. Here = <<If(Is("missing_signals"), "request_more_signals"),
                     If(IsNot("signals_valid"), "handoff"), To("run_diagnostic_checks")>>
        BY <2>1, <3>2 DEF ValidationTransitions
      <4> QED
        BY <1>4, <1>5, <3>2, <4>1, TrialThree DEF If, To, Is, IsNot, Open
    <3> QED
      BY <3>1, <3>2
  <2> QED
    BY <1>3, <1>9, <2>2 DEF DiagnosticWay
<1>10. CASE at = "run_diagnostic_checks"
  <2>1. Here = <<If(Is("diagnostic_budget_exhausted"), Exhausted(config.inconclusive)),
                 If(Is("diagnostic_check_failed"),
                    Otherwise(config.checkFailure, "run_diagnostic_checks")),
                 To("evaluate_diagnosis")>>
    BY <1>1, <1>10 DEF Here, DiagnosticAgent
  <2>2. Target(DemoSays) =
          IF trial.name = "budget" THEN Exhausted(config.inconclusive)
          ELSE IF trial.name = "check_failure"
          THEN Otherwise(config.checkFailure, "run_diagnostic_checks")
          ELSE "evaluate_diagnosis"
    BY <1>4, <2>1, TrialThree DEF If, To, Is, Open
  <2>3. CASE trial.name \in {"budget", "check_failure"}
    BY <1>3, <1>6, <1>10, <2>2, <2>3 DEF DiagnosticWay
  <2>4. CASE trial.name \notin {"budget", "check_failure"}
    BY <1>3, <1>10, <2>2, <2>4 DEF DiagnosticWay
  <2> QED
    BY <2>3, <2>4
<1>11. CASE at = "evaluate_diagnosis"
  <2>1. Here = <<If(Is("diagnosis_inconclusive"),
                    Otherwise(config.inconclusive, "request_more_signals")),
                 If(Is("diagnosis_known"), RemediationTarget(config)), To("handoff")>>
    BY <1>1, <1>11 DEF Here, DiagnosticAgent
  <2>2. Target(DemoSays) =
          IF trial.name = "inconclusive"
          THEN Otherwise(config.inconclusive, "request_more_signals")
          ELSE RemediationTarget(config)
    BY <1>4, <2>1, TrialThree DEF If, To, Is, Open
  <2> QED
    BY <1>3, <1>5, <1>6, <1>11, <2>2 DEF DiagnosticWay
<1>12. CASE at = "suggest_remediation"
  <2>1. Here = <<To(VerificationTarget(config))>>
    BY <1>1, <1>12 DEF Here, DiagnosticAgent
  <2>2. Target(DemoSays) = VerificationTarget(config)
    BY <2>1, OneEdge DEF To
  <2> QED
    BY <1>3, <1>6, <1>12, <2>2 DEF DiagnosticWay
<1>13. CASE at = "mock_safe_remediation"
  <2>1. Here = <<If(Is("remediation_attempts_exhausted"), "handoff"),
                 To(VerificationTarget(config))>>
    BY <1>1, <1>13 DEF Here, DiagnosticAgent
  <2>2. Target(DemoSays) =
          IF trial.name = "attempts_exhausted" THEN "handoff" ELSE VerificationTarget(config)
    BY <1>4, <2>1, TrialTwo DEF If, To, Is, Open
  <2> QED
    BY <1>3, <1>6, <1>13, <2>2 DEF DiagnosticWay
<1>14. CASE at = "verify_resolution"
  <2>1. Here = <<If(Is("resolution_verified"), "complete"), To("handoff")>>
    BY <1>1, <1>14 DEF Here, DiagnosticAgent
  <2>2. Target(DemoSays) = "complete"
    BY <1>4, <2>1, TrialTwo DEF If, To, Is, Open
  <2> QED
    BY <1>3, <1>14, <2>2 DEF DiagnosticWay
<1> QED
  BY <1>7, <1>8, <1>9, <1>10, <1>11, <1>12, <1>13, <1>14 DEF DiagnosticWay

Way(s, past) ==
  /\ config.kind = "request" => RequestWay(s, past)
  /\ config.kind = "approval" => ApprovalWay(s, past)
  /\ config.kind = "knowledge" => KnowledgeWay(s, past)
  /\ config.kind = "intake" => IntakeWay(s, past)
  /\ config.kind = "diagnostic" => DiagnosticWay(s, past)

(* A trial is on the way to the state its outcome names, or has been there.  *)
TrialInv ==
  trial # None =>
    /\ trial \in Cases(config) /\ TrialFacts
    /\ trial.name \notin Unmet => trial.expects \in trail \/ Way(at, trail)

LEMMA TrialStarts ==
  ASSUME AgentsAssumption, AgentInit PROVE TrialInv
<1> SUFFICES ASSUME trial # None PROVE TrialInv
  BY DEF TrialInv
<1>1. PICK s \in Entries(config) :
        /\ s \notin {"collect_question_context", "handoff"}
        /\ Started(config, s, trial, trial.given)
        /\ trial \in Cases(config) /\ config \in Configs
  BY DEF AgentInit, Started
<1>2. \A f \in Facts(config) : facts[f] = Given0(f)
  BY <1>1 DEF Started, Given0
<1>3. TrialFacts
  BY <1>2 DEF TrialFacts, AnswerOf
<1>4. config.kind \in {"request", "approval", "knowledge", "intake", "diagnostic"}
  BY <1>1 DEF AgentsAssumption
<1>5. at = s /\ trail = {s}
  BY <1>1 DEF Started
<1>6. Way(at, trail)
  BY <1>1, <1>4, <1>5 DEF Entries, Way, RequestWay, ApprovalWay, KnowledgeWay, IntakeWay,
    DiagnosticWay
<1> QED
  BY <1>1, <1>3, <1>6 DEF TrialInv

(* A trial that has not yet been where its outcome says goes on to a state    *)
(* it has not been in.                                                        *)
LEMMA TrialMoves ==
  ASSUME AgentsAssumption, AgentInv, TrialInv, trial # None, trial.name \notin Unmet,
         trial.expects \notin trail
  PROVE  /\ Target(DemoSays) \notin trail \cup {None}
         /\ \/ Target(DemoSays) = trial.expects
            \/ Way(Target(DemoSays), trail \cup {Target(DemoSays)})
<1>1. /\ config \in Configs /\ Compilable(config) /\ at \in DOMAIN Agent(config)
      /\ facts \in [Facts(config) -> Said]
  BY DEF AgentInv
<1>2. trial \in Cases(config) /\ TrialFacts /\ Way(at, trail)
  BY DEF TrialInv
<1>3. config.kind \in {"request", "approval", "knowledge", "intake", "diagnostic"}
  BY <1>1 DEF AgentsAssumption
<1>4. /\ Target(DemoSays) \notin trail
      /\ \/ Target(DemoSays) = trial.expects
         \/ Way(Target(DemoSays), trail \cup {Target(DemoSays)})
  <2>1. CASE config.kind = "request"
    BY <1>1, <1>2, <2>1, RequestTrial DEF Way
  <2>2. CASE config.kind = "approval"
    BY <1>1, <1>2, <2>2, ApprovalTrial DEF Way
  <2>3. CASE config.kind = "knowledge"
    <3>1. config.cite \in BOOLEAN /\ config.unverified \in BOOLEAN
      BY <1>1, <2>3 DEF AgentsAssumption
    <3>2. config.cite /\ ~ config.unverified
      BY <1>1, <2>3, <3>1, CompilableAsks
    <3> QED
      BY <1>1, <1>2, <2>3, <3>2, KnowledgeTrial DEF Way
  <2>4. CASE config.kind = "intake"
    <3>1. config.confirm \in BOOLEAN
      BY <1>1, <2>4 DEF AgentsAssumption
    <3> QED
      BY <1>1, <1>2, <2>4, <3>1, IntakeTrial DEF Way
  <2>5. CASE config.kind = "diagnostic"
    <3>1. config.evidence \in BOOLEAN /\ config.verify \in BOOLEAN
      BY <1>1, <2>5 DEF AgentsAssumption
    <3> QED
      BY <1>1, <1>2, <2>5, <3>1, DiagnosticTrial DEF Way
  <2> QED
    BY <1>3, <2>1, <2>2, <2>3, <2>4, <2>5
<1>5. Target(DemoSays) # None
  <2>1. at \notin FinalStates \cup {"handoff"}
    BY <1>2, <1>3 DEF Way, RequestWay, ApprovalWay, KnowledgeWay, IntakeWay, DiagnosticWay,
      FinalStates
  <2>2. Heard(DemoSays)
    BY DemoIsHeard DEF AgentInv
  <2>3. Target(DemoSays) \in DOMAIN Agent(config)
    BY <2>1, <2>2, AgentMoves
  <2> QED
    BY <1>1, <2>3 DEF AgentsAssumption
<1> QED
  BY <1>4, <1>5

LEMMA WayStays ==
  ASSUME config' = config, trial' = trial, at' = at, trail' = trail, Way(at, trail)
  PROVE  Way(at, trail)'
BY DEF Way, RequestWay, ApprovalWay, KnowledgeWay, IntakeWay, DiagnosticWay, AnswerOf, Given0,
  DemoAnswer, Default

LEMMA UnmetStays ==
  ASSUME config' = config PROVE Unmet' = Unmet
BY DEF Unmet

LEMMA TrialSteps ==
  ASSUME AgentsAssumption, AgentInv, TrialInv, [AgentNext]_agentVars PROVE TrialInv'
<1> SUFFICES ASSUME trial' # None PROVE TrialInv'
  BY DEF TrialInv
<1>1. config' = config /\ trial' = trial
  BY DEF AgentNext, Visit, GiveUp, agentVars
<1>2. trial # None /\ trial \in Cases(config) /\ TrialFacts
  BY <1>1 DEF TrialInv
<1>3. Unmet' = Unmet /\ Cases(config)' = Cases(config)
  BY <1>1, UnmetStays
<1>4. CASE Visit
  <2>1. Enter(DemoSays)
    BY <1>2, <1>4 DEF Visit
  <2>2. facts' = DemoSays
    BY <2>1 DEF Enter
  <2>3. TrialFacts'
    <3>1. \A f \in Facts(config) : AnswerOf(f)' = AnswerOf(f)
      BY <1>1 DEF AnswerOf, Given0, DemoAnswer, Default
    <3>2. \A f \in Facts(config) :
            \/ DemoSays[f] = AnswerOf(f)
            \/ DemoSays[f] = "unsaid" /\ AnswerOf(f) = DemoAnswer(f)
      BY <1>2, TrialStays DEF AgentInv
    <3> QED
      BY <1>1, <2>2, <3>1, <3>2 DEF TrialFacts, DemoAnswer
  <2>4. ASSUME trial.name \notin Unmet PROVE trial.expects \in trail' \/ Way(at, trail)'
    <3>1. CASE trial.expects \in trail
      BY <1>2, <2>1, <3>1 DEF Enter
    <3>2. CASE trial.expects \notin trail
      <4>1. /\ Target(DemoSays) \notin trail \cup {None}
            /\ \/ Target(DemoSays) = trial.expects
               \/ Way(Target(DemoSays), trail \cup {Target(DemoSays)})
        BY <1>2, <2>4, <3>2, TrialMoves
      <4>2. at' = Target(DemoSays) /\ trail' = trail \cup {Target(DemoSays)}
        BY <1>2, <2>1, <4>1 DEF Enter
      <4>3. CASE Way(Target(DemoSays), trail \cup {Target(DemoSays)})
        BY <1>1, <4>2, <4>3 DEF Way, RequestWay, ApprovalWay, KnowledgeWay, IntakeWay,
          DiagnosticWay, AnswerOf, Given0, DemoAnswer, Default
      <4> QED
        BY <4>1, <4>2, <4>3
    <3> QED
      BY <3>1, <3>2
  <2> QED
    BY <1>1, <1>2, <1>3, <2>3, <2>4 DEF TrialInv
<1>5. CASE ~ Visit
  <2>1. UNCHANGED <<facts, at, trail>>
    BY <1>5 DEF AgentNext, GiveUp, agentVars
  <2>2. TrialFacts'
    BY <1>1, <1>2, <2>1 DEF TrialFacts, AnswerOf, Given0, DemoAnswer, Default
  <2> QED
    BY <1>1, <1>2, <1>3, <2>1, <2>2, WayStays DEF TrialInv
<1> QED
  BY <1>4, <1>5

(* Whatever the configuration, whatever the handlers of a host say and       *)
(* however the run loops, a compiled agent commits itself only where its      *)
(* configuration and its facts allow it, and is never stuck; and its test     *)
(* cases come by the states their outcomes name, but for the ones listed.     *)
THEOREM AgentsAlwaysDecide ==
  ASSUME AgentsAssumption PROVE AgentSpec => []AgentsDecideAsConfigured
<1>1. AgentInit => AgentInv /\ TrialInv
  BY AgentStarts, TrialStarts
<1>2. AgentInv /\ TrialInv /\ [AgentNext]_agentVars => AgentInv' /\ TrialInv'
  BY AgentSteps, TrialSteps
<1>3. AgentInv /\ TrialInv => AgentsDecideAsConfigured
  BY KnowingIsDeciding, TrialMoves DEF AgentsDecideAsConfigured, CasesComeTrue
<1> QED
  BY <1>1, <1>2, <1>3, PTL DEF AgentSpec

=============================================================================
