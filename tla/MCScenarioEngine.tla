--------------------------- MODULE MCScenarioEngine ---------------------------
(* ScenarioEngine with the document and the requests of ClaimsDesk.          *)
EXTENDS ScenarioEngine

CONSTANTS a, b

INSTANCE ClaimsDesk

=============================================================================
