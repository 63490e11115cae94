---------------------------- MODULE MemoizedCalls ----------------------------
(***************************************************************************)
(* What an in-process idempotency ledger promises its callers: the work    *)
(* behind a key is executed at most once, for the first request that       *)
(* brings the key, and everyone who brings the key with that same request  *)
(* is given the result of that one execution.                              *)
(***************************************************************************)
CONSTANTS Callers, Keys, Requests, Results, KeyOf, Unset

VARIABLES bound,    \* the request a key is bound to, or Unset
          outcome,  \* the result of the execution behind a key, or Unset
          given     \* what each caller was given, or Unset

memoVars == <<bound, outcome, given>>

MemoInit ==
  /\ bound = [k \in Keys |-> Unset]
  /\ outcome = [k \in Keys |-> Unset]
  /\ given = [c \in Callers |-> Unset]

Bind(q) ==
  /\ bound[KeyOf[q]] = Unset
  /\ bound' = [bound EXCEPT ![KeyOf[q]] = q]
  /\ UNCHANGED <<outcome, given>>

Resolve(k) ==
  /\ bound[k] # Unset /\ outcome[k] = Unset
  /\ \E x \in Results : outcome' = [outcome EXCEPT ![k] = x]
  /\ UNCHANGED <<bound, given>>

(* A key refused the moment it is bound, by an adapter that is busy.       *)
BindResolved(q) ==
  /\ bound[KeyOf[q]] = Unset
  /\ bound' = [bound EXCEPT ![KeyOf[q]] = q]
  /\ \E x \in Results : outcome' = [outcome EXCEPT ![KeyOf[q]] = x]
  /\ UNCHANGED given

Give(c, q) ==
  /\ given[c] = Unset
  /\ bound[KeyOf[q]] = q /\ outcome[KeyOf[q]] # Unset
  /\ given' = [given EXCEPT ![c] = <<q, outcome[KeyOf[q]]>>]
  /\ UNCHANGED <<bound, outcome>>

MemoNext ==
  \/ \E q \in Requests : Bind(q) \/ BindResolved(q)
  \/ \E k \in Keys : Resolve(k)
  \/ \E c \in Callers, q \in Requests : Give(c, q)

MemoSpec == MemoInit /\ [][MemoNext]_memoVars

=============================================================================
