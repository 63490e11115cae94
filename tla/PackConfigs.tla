------------------------------ MODULE PackConfigs ------------------------------
(***************************************************************************)
(* What is asked of a pack configuration before and after it is compiled:  *)
(* its validation, the further demands of a publish, the compilation that  *)
(* fails closed, and the readiness preview made of what comes out.  A      *)
(* configuration is told by what the checks tell apart: its archetype, one *)
(* field of its rules and one of its templates with where their values     *)
(* come from, its adapter, its governance, and whether its strategies and  *)
(* capabilities are known and its agent passes the DSL inspection.         *)
(***************************************************************************)
EXTENDS Sequences, SequencesExt

Supported == {"request", "approval", "knowledge", "intake", "diagnostic"}
Known     == Supported \cup {"process"}     \* archetypes the schema accepts
Strict    == {"prod-like", "production"}

Codes == {"DSL_INVALID", "FAIL_CLOSED", "INVALID", "MISSING", "REAL_ADAPTER", "SECRET",
          "UNCONFIRMED", "UNGUARDED", "UNSUPPORTED"}
Issues == [code : Codes, severity : {"error", "warning"}]
Issue(code, severity) == [code |-> code, severity |-> severity]
Error(code)   == <<Issue(code, "error")>>
Warning(code) == <<Issue(code, "warning")>>
When(condition, issues) == IF condition THEN issues ELSE <<>>
HasErrors(issues) == \E i \in DOMAIN issues : issues[i].severity = "error"
Has(issues, code) == \E i \in DOMAIN issues : issues[i].code = code

-----------------------------------------------------------------------------
NeedsConfirmation(field) == field.source = "inferredByAI" \/ field.flagged
Missing(field)           == field.source = "requiredButMissing"
Confirmed(field)         == field.source = "confirmedByUser"

(* The schema: an inferred field is flagged, and no adapter is marked as    *)
(* holding a secret or an endpoint.                                         *)
Parses(c) ==
  /\ c.archetype \in Known
  /\ ~c.marked
  /\ \A f \in {c.rule, c.template} : f.source = "inferredByAI" => f.flagged

AdapterIssues(c) == When(c.marked, Error("SECRET"))

(* validatePackConfig looks at capabilities, rules and policies; of         *)
(* templates it knows nothing.                                              *)
PackIssues(c) ==
  IF Parses(c)
  THEN When(NeedsConfirmation(c.rule), Warning("UNCONFIRMED"))
       \o When(Missing(c.rule), Error("MISSING"))
       \o AdapterIssues(c)
       \o When(c.auto = "write", Warning("INVALID"))
  ELSE Error("INVALID") \o When(c.archetype \notin Known, Error("INVALID")) \o AdapterIssues(c)

(* Signals, limits, strategies and switches, each of them explicit          *)
DiagnosticIssues(c) == When(~c.strategies, Error("INVALID"))

(* The validators of the five archetypes begin with all of it once more.    *)
ArchetypeIssues(c) ==
  IF c.archetype \notin Supported THEN <<>>
  ELSE PackIssues(c)
       \o When(Parses(c) /\ ~c.capability, Warning("INVALID"))
       \o When(Parses(c) /\ c.archetype = "diagnostic", DiagnosticIssues(c))

PublishIssues(c) ==
  LET of(f) ==
        When(~Confirmed(f),
             When(Missing(f), Error("MISSING"))
             \o When(c.environment \in Strict /\ NeedsConfirmation(f), Error("UNCONFIRMED")))
  IN  PackIssues(c)
      \o When(Parses(c),
              When(~c.publishable, Error("INVALID"))
              \o of(c.rule) \o of(c.template)
              \o When(c.environment \in Strict /\ c.adapter = "real_placeholder",
                      Error("REAL_ADAPTER")))

(* validateCompileInput: the preview's checks, and in a publish its own     *)
InputIssues(c, mode) ==
  PackIssues(c) \o ArchetypeIssues(c)
  \o When(c.archetype \notin Supported, Error("UNSUPPORTED"))
  \o When(mode = "publish", PublishIssues(c))
  \o AdapterIssues(c)
  \o When(~c.handoff, Error("FAIL_CLOSED"))
  \o When(c.auto = "write", Error("UNGUARDED"))

(* validateCompileOutput: what the templates of the compiler make complete  *)
(* whatever the configuration, and an agent that may not be valid DSL       *)
OutputIssues(c) == When(~c.dsl, Error("DSL_INVALID"))

-----------------------------------------------------------------------------
(* emptyReport: what it says of the schema it says of every issue that the  *)
(* compiler has no name of its own for, warnings too.                       *)
RefusedReport(issues) ==
  [status |-> "failed",
   schema |-> IF Has(issues, "INVALID") THEN "failed" ELSE "passed",
   required |-> IF Has(issues, "MISSING") THEN "missing" ELSE "covered",
   effects |-> IF Has(issues, "UNGUARDED") THEN "unsafe" ELSE "policy_guarded",
   handoff |-> IF Has(issues, "FAIL_CLOSED") THEN "missing" ELSE "covered"]

PassedReport(issues) ==
  [status |-> IF HasErrors(issues) THEN "failed" ELSE "passed",
   schema |-> "passed", required |-> "covered", effects |-> "policy_guarded",
   handoff |-> "covered"]

(* Nothing is made of a configuration with errors; what was made is kept    *)
(* beside the issues of its validation.                                     *)
CompilePack(c, mode) ==
  LET input == InputIssues(c, mode)
      all   == input \o OutputIssues(c)
  IN  IF HasErrors(input)
      THEN [ok |-> FALSE, artifacts |-> FALSE, mode |-> mode, issues |-> input,
            report |-> RefusedReport(input)]
      ELSE [ok |-> ~HasErrors(all), artifacts |-> TRUE, mode |-> mode, issues |-> all,
            report |-> PassedReport(all)]

-----------------------------------------------------------------------------
Levels == {"ready", "warning", "blocked"}
GateNames ==
  {"compile", "artifacts", "test_cases", "trace_expectation", "fail_closed", "publish_gate",
   "side_effect", "adapter_safety", "manual_runtime_run", "official_certification"}

ReadyIf(condition) == IF condition THEN "ready" ELSE "blocked"

(* The adapter artifact says of every adapter that it holds neither secret  *)
(* nor endpoint: only its mode is left to judge.                            *)
AdapterSafety(c, output) ==
  IF output.artifacts /\ c.adapter = "real_placeholder" THEN "warning" ELSE "ready"

Gates(c, output) ==
  [compile |-> ReadyIf(output.ok /\ output.report.status = "passed" /\ ~HasErrors(output.issues)),
   artifacts |-> ReadyIf(output.artifacts),
   test_cases |-> ReadyIf(output.artifacts),
   trace_expectation |-> ReadyIf(output.artifacts),
   fail_closed |-> ReadyIf(output.report.handoff = "covered"),
   publish_gate |-> IF output.mode = "publish" /\ ~output.ok THEN "blocked" ELSE "warning",
   side_effect |-> ReadyIf(output.report.effects = "policy_guarded"),
   adapter_safety |-> AdapterSafety(c, output),
   manual_runtime_run |-> "warning",
   official_certification |-> "warning"]

Overall(gates) ==
  LET levels == {gates[g] : g \in DOMAIN gates}
  IN  IF "blocked" \in levels THEN "blocked"
      ELSE IF "warning" \in levels THEN "warning" ELSE "ready"

(* buildCreatorCompilePreview hands out artifacts of good compilations only. *)
Response(c, mode) ==
  LET output == CompilePack(c, mode)
  IN  [of |-> c, ok |-> output.ok /\ output.artifacts, gates |-> Gates(c, output),
       error |-> IF output.ok THEN "" ELSE output.issues[1].code]

-----------------------------------------------------------------------------
(* What may be published may be previewed, and a publish leaves nothing     *)
(* open: no field is missing, templates included, and in strict             *)
(* environments nothing is inferred or placed for later.                    *)
PublishIsStricter(c) ==
  CompilePack(c, "publish").ok =>
    /\ CompilePack(c, "preview").ok
    /\ ~Missing(c.rule) /\ ~Missing(c.template)
    /\ c.environment \in Strict =>
         /\ c.adapter # "real_placeholder"
         /\ \A f \in {c.rule, c.template} : NeedsConfirmation(f) => Confirmed(f)

(* The readiness preview and the compiler, which judge by different data,   *)
(* agree on what is blocked, and nothing is ever called ready.              *)
ReadinessFollowsCompiler(c, mode) ==
  Overall(Gates(c, CompilePack(c, mode))) =
    IF CompilePack(c, mode).ok THEN "warning" ELSE "blocked"

(* A compilation fails closed: without a handoff, with unguarded effects or *)
(* marked adapters there are no artifacts at all.                           *)
FailsClosed(c, mode) ==
  (~c.handoff \/ c.auto = "write" \/ c.marked \/ Missing(c.rule)) =>
    ~CompilePack(c, mode).artifacts

=============================================================================
