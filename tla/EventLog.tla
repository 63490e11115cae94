------------------------------- MODULE EventLog -------------------------------
(***************************************************************************)
(* What a trace is worth: an event that was accepted is on its way, then   *)
(* in the log for good, at one place, unless its loss was reported. Events *)
(* may overtake one another on the way.                                    *)
(***************************************************************************)
EXTENDS Sequences

CONSTANT Event

VARIABLES pending, log, lost

logVars == <<pending, log, lost>>

InLog == {log[i] : i \in DOMAIN log}

Known == pending \cup lost \cup InLog

LogInit == pending = {} /\ log = <<>> /\ lost = {}

Submit(es) ==
  /\ es \cap Known = {}
  /\ pending' = pending \cup es
  /\ UNCHANGED <<log, lost>>

Store(e) ==
  /\ e \in pending
  /\ log' = Append(log, e)
  /\ pending' = pending \ {e}
  /\ UNCHANGED lost

(* A store without delay: one of the new or waiting events goes through.   *)
SubmitAndStore(es, e) ==
  /\ es \cap Known = {} /\ e \in pending \cup es
  /\ log' = Append(log, e)
  /\ pending' = (pending \cup es) \ {e}
  /\ UNCHANGED lost

ReportLoss(e) ==
  /\ e \in pending
  /\ lost' = lost \cup {e}
  /\ pending' = pending \ {e}
  /\ UNCHANGED log

LogNext ==
  \/ \E es \in SUBSET Event : Submit(es) \/ \E e \in Event : SubmitAndStore(es, e)
  \/ \E e \in Event : Store(e) \/ ReportLoss(e)

LogSpec == LogInit /\ [][LogNext]_logVars

=============================================================================
