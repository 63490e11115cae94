------------------------------ MODULE AttemptRace ------------------------------
(***************************************************************************)
(* The attempts of one idempotent action against the handlers they start:  *)
(* the loop of executeAction with withTimeout, shouldRetry and delay of    *)
(* packages/runtime/src/action-executor.ts. A handler whose attempt timed  *)
(* out is not stopped: it works on beside the next attempts and beside the *)
(* call of a resumed run, and answers nobody.                              *)
(*                                                                         *)
(* A handler [call, attempt] is working, has done its effect, and has      *)
(* answered; the last two may come at any time, or never.                  *)
(***************************************************************************)
EXTENDS Naturals, FiniteSets

CONSTANTS
  MaxCalls,     \* executions of the action: of a run and of its resumptions
  MaxAttempts,  \* RetryPolicy.maxAttempts
  None

RaceAssumption == MaxCalls \in Nat \ {0} /\ MaxAttempts \in Nat \ {0}

Handler == (1 .. MaxCalls) \X (1 .. MaxAttempts)

Verdicts == {"ok", "timeout", "retryable", "final"}

NoneAssumption == None \notin Handler \cup Verdicts

VARIABLES
  now,       \* <<call, attempt>> of the latest attempt
  phase,     \* of that call
  started,   \* handlers started
  effects,   \* handlers whose effect has happened
  answered,  \* handlers that have settled
  told,      \* [Handler -> what onAttemptResult said of the attempt]
  merged,    \* handlers whose patch went into the context
  recorded   \* the handler whose answer is in the idempotency store

raceVars == <<now, phase, started, effects, answered, told, merged, recorded>>

RaceTypeOK ==
  /\ now \in (1 .. MaxCalls) \X (0 .. MaxAttempts)
  /\ phase \in {"attempt", "await", "judge", "done"}
  /\ started \subseteq Handler /\ effects \subseteq started /\ answered \subseteq started
  /\ told \in [Handler -> Verdicts \cup {None}]
  /\ merged \subseteq Handler /\ recorded \in Handler \cup {None}

RaceInit ==
  /\ now = <<1, 0>> /\ phase = "attempt"
  /\ started = {} /\ effects = {} /\ answered = {} /\ merged = {}
  /\ told = [h \in Handler |-> None] /\ recorded = None

-----------------------------------------------------------------------------
StartAttempt ==
  /\ phase = "attempt" /\ now[2] < MaxAttempts
  /\ now' = <<now[1], now[2] + 1>>
  /\ started' = started \cup {now'}
  /\ phase' = "await"
  /\ UNCHANGED <<effects, answered, told, merged, recorded>>

(* What handlers do, awaited or not.                                        *)
DoEffect(h) ==
  /\ h \in started \ (effects \cup answered)
  /\ effects' = effects \cup {h}
  /\ UNCHANGED <<now, phase, started, answered, told, merged, recorded>>

Awaited(h) == phase = "await" /\ h = now

(* The answer that wins against the timer. ok is merged and recorded before *)
(* anybody else can move.                                                   *)
AnswerInTime(h, verdict) ==
  /\ h \in started \ answered /\ Awaited(h) /\ verdict # "timeout"
  /\ verdict = "ok" => h \in effects
  /\ answered' = answered \cup {h}
  /\ told' = [told EXCEPT ![h] = verdict]
  /\ phase' = IF verdict = "ok" THEN "done" ELSE "judge"
  /\ merged' = IF verdict = "ok" THEN merged \cup {h} ELSE merged
  /\ recorded' = IF verdict = "ok" THEN h ELSE recorded
  /\ UNCHANGED <<now, started, effects>>

(* A late answer that is merged all the same (not what the code does).      *)
MergeLate(h) ==
  /\ h \in started \ answered /\ ~ Awaited(h)
  /\ answered' = answered \cup {h}
  /\ merged' = IF h \in effects THEN merged \cup {h} ELSE merged
  /\ UNCHANGED <<now, phase, started, effects, told, recorded>>

(* An answer after the timer: resolve and reject have no effect any more.   *)
AnswerLate(h) ==
  /\ h \in started \ answered /\ ~ Awaited(h)
  /\ answered' = answered \cup {h}
  /\ UNCHANGED <<now, phase, started, effects, told, merged, recorded>>

(* The timer starts when the handler has answered (not what the code does).  *)
TimeOutAnswered ==
  /\ phase = "await" /\ now \in answered
  /\ told' = [told EXCEPT ![now] = "timeout"] /\ phase' = "judge"
  /\ UNCHANGED <<now, started, effects, answered, merged, recorded>>

TimeOut ==
  /\ phase = "await" /\ now \notin answered
  /\ told' = [told EXCEPT ![now] = "timeout"] /\ phase' = "judge"
  /\ UNCHANGED <<now, started, effects, answered, merged, recorded>>

(* shouldRetry: a timeout always, an error when it says so or the policy    *)
(* lists its code.                                                          *)
JudgeFailure ==
  /\ phase = "judge"
  /\ phase' = IF told[now] # "final" /\ now[2] < MaxAttempts THEN "attempt" ELSE "done"
  /\ UNCHANGED <<now, started, effects, answered, told, merged, recorded>>

(* A resumed run executes the action again, if no answer is on record; if   *)
(* one is, it is replayed and no handler starts.                            *)
CallAgain ==
  /\ phase = "done" /\ recorded = None /\ now[1] < MaxCalls
  /\ now' = <<now[1] + 1, 0>> /\ phase' = "attempt"
  /\ UNCHANGED <<started, effects, answered, told, merged, recorded>>

Executor == StartAttempt \/ TimeOut \/ JudgeFailure

RaceNext ==
  \/ Executor \/ CallAgain
  \/ \E h \in Handler :
       DoEffect(h) \/ AnswerLate(h) \/ \E verdict \in Verdicts : AnswerInTime(h, verdict)

RaceSpec == RaceInit /\ [][RaceNext]_raceVars

(* Timers fire and continuations run; a handler may hang for ever.          *)
RaceFairness == WF_raceVars(Executor)

-----------------------------------------------------------------------------
(* An effect that is not the accepted one is told of: its attempt was       *)
(* reported as failed or timed out, or is the one being awaited.            *)
ExtraEffectsAreTold ==
  \A h \in effects : recorded # h =>
    Awaited(h) \/ told[h] \in {"timeout", "retryable", "final"}

(* However many handlers answer ok, one patch is merged, and it is the one  *)
(* on record.                                                               *)
OneAnswerCounts == merged = IF recorded = None THEN {} ELSE {recorded}

(* From the record on no handler is started; what may still happen are the  *)
(* effects of handlers that had timed out before.                           *)
RecordEndsAttempts ==
  [][recorded # None =>
       /\ started' = started
       /\ \A h \in effects' \ effects : told[h] = "timeout"]_raceVars

(* However late answers come, a call is counted once, an effect beyond the  *)
(* one answered is told of, and no attempt begins for a key that has a      *)
(* record.                                                                  *)
AnswersCountOnce == [](ExtraEffectsAreTold /\ OneAnswerCounts) /\ RecordEndsAttempts

(* A call ends though its handlers hang.                                    *)
CallsEnd == phase # "done" ~> phase = "done"

=============================================================================
