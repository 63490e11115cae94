---------------------------- MODULE EffectLedger ----------------------------
(***************************************************************************)
(* What the idempotency store of the runtime promises, without states,     *)
(* snapshots or policies: the handler behind a key is tried at most        *)
(* MaxAttempts times by a run, its completion is recorded at most once,    *)
(* only after a try, and once it is recorded nobody tries it again,        *)
(* whatever crashes and resumptions come in between.                       *)
(***************************************************************************)
EXTENDS Naturals

CONSTANTS Runs, Keys, MaxAttempts

VARIABLES invoked,      \* tries by run and key
          completions   \* recorded completions by key

ledgerVars == <<invoked, completions>>

LedgerInit ==
  /\ invoked = [r \in Runs |-> [k \in Keys |-> 0]]
  /\ completions = [k \in Keys |-> 0]

Try(r, k) ==
  /\ completions[k] = 0
  /\ invoked[r][k] < MaxAttempts
  /\ invoked' = [invoked EXCEPT ![r][k] = @ + 1]
  /\ UNCHANGED completions

Complete(k) ==
  /\ completions[k] = 0
  /\ \E r \in Runs : invoked[r][k] > 0
  /\ completions' = [completions EXCEPT ![k] = @ + 1]
  /\ UNCHANGED invoked

LedgerNext ==
  \/ \E r \in Runs, k \in Keys : Try(r, k)
  \/ \E k \in Keys : Complete(k)

LedgerSpec == LedgerInit /\ [][LedgerNext]_ledgerVars

=============================================================================
