-------------------------- MODULE RunRecords_proofs --------------------------
(* Proofs about what a run leaves behind: its events (TraceRecorder), which  *)
(* are stored in order and as EventLog promises, its snapshots              *)
(* (SnapshotStore), what its skills did (SkillCalls), which answer of a     *)
(* handler counts (AttemptRace), what the trace tells of the context        *)
(* (ContextReplay) and what is reported of a trace file (TraceReports), for *)
(* any runs, recorders, processes, skills, edits, attempts, patches and     *)
(* files. The components share no state.                                    *)
EXTENDS MCRunRecords, ScenarioEngine_proofs,
        FiniteSetTheorems, NaturalsInduction, WellFoundedInduction, TLAPS

(* A queue without repetitions, its head taken, two of them joined.         *)
LEMMA TailOfInj ==
  ASSUME NEW S, NEW q \in Seq(S), q # <<>>, IsInjective(q)
  PROVE  /\ Tail(q) \in Seq(S) /\ IsInjective(Tail(q)) /\ Head(q) \in S
         /\ Head(q) \in ToSet(q) /\ ToSet(Tail(q)) = ToSet(q) \ {Head(q)}
<1>1. Tail(q) \in Seq(S) /\ Len(Tail(q)) = Len(q) - 1 /\ Head(q) = q[1] /\ Len(q) \in Nat \ {0}
      /\ \A i \in 1 .. Len(q) - 1 : Tail(q)[i] = q[i + 1]
  OBVIOUS
<1>2. DOMAIN q = 1 .. Len(q) /\ DOMAIN Tail(q) = 1 .. Len(q) - 1
  BY <1>1
<1>3. IsInjective(Tail(q))
  BY <1>1, <1>2 DEF IsInjective
<1>4. Head(q) \in S /\ Head(q) \in ToSet(q)
  BY <1>1, <1>2 DEF ToSet
<1>5. ASSUME NEW e \in ToSet(Tail(q)) PROVE e \in ToSet(q) \ {Head(q)}
  <2>1. PICK i \in 1 .. Len(q) - 1 : e = q[i + 1]
    BY <1>1, <1>2 DEF ToSet
  <2> QED
    BY <1>1, <1>2, <2>1 DEF ToSet, IsInjective
<1>6. ASSUME NEW e \in ToSet(q) \ {Head(q)} PROVE e \in ToSet(Tail(q))
  <2>1. PICK i \in 1 .. Len(q) : e = q[i] /\ i # 1
    BY <1>1, <1>2 DEF ToSet
  <2>2. i - 1 \in 1 .. Len(q) - 1 /\ Tail(q)[i - 1] = q[i]
    BY <1>1, <2>1
  <2> QED
    BY <1>2, <2>1, <2>2 DEF ToSet
<1> QED
  BY <1>1, <1>3, <1>4, <1>5, <1>6

LEMMA ConcatOfInj ==
  ASSUME NEW S, NEW s \in Seq(S), NEW t \in Seq(S),
         IsInjective(s), IsInjective(t), ToSet(s) \cap ToSet(t) = {}
  PROVE  s \o t \in Seq(S) /\ IsInjective(s \o t) /\ ToSet(s \o t) = ToSet(s) \cup ToSet(t)
<1> DEFINE u == s \o t
<1>1. u \in Seq(S) /\ DOMAIN u = 1 .. Len(s) + Len(t) /\ Len(s) \in Nat /\ Len(t) \in Nat
      /\ DOMAIN s = 1 .. Len(s) /\ DOMAIN t = 1 .. Len(t)
      /\ (\A i \in 1 .. Len(s) : u[i] = s[i])
      /\ \A i \in 1 .. Len(t) : u[Len(s) + i] = t[i]
  OBVIOUS
<1> HIDE DEF u
<1>2. \A i \in DOMAIN u :
        \/ i \in 1 .. Len(s) /\ u[i] = s[i]
        \/ i - Len(s) \in 1 .. Len(t) /\ u[i] = t[i - Len(s)]
  <2>1. TAKE i \in DOMAIN u
  <2>2. CASE i <= Len(s)
    BY <1>1, <2>2
  <2>3. CASE ~ i <= Len(s)
    <3>1. i - Len(s) \in 1 .. Len(t) /\ Len(s) + (i - Len(s)) = i
      BY <1>1, <2>3
    <3> QED
      BY <1>1, <3>1
  <2> QED
    BY <2>2, <2>3
<1>3. ToSet(u) = ToSet(s) \cup ToSet(t)
  <2>1. ToSet(u) \subseteq ToSet(s) \cup ToSet(t)
    BY <1>1, <1>2 DEF ToSet
  <2>2. ToSet(s) \subseteq ToSet(u)
    BY <1>1 DEF ToSet
  <2>3. ASSUME NEW i \in 1 .. Len(t) PROVE t[i] \in ToSet(u)
    <3>1. Len(s) + i \in DOMAIN u
      BY <1>1
    <3> QED
      BY <1>1, <3>1 DEF ToSet
  <2>4. ToSet(t) \subseteq ToSet(u)
    BY <1>1, <2>3 DEF ToSet
  <2> QED
    BY <2>1, <2>2, <2>4
<1>4. IsInjective(u)
  <2>1. SUFFICES ASSUME NEW i \in DOMAIN u, NEW j \in DOMAIN u, u[i] = u[j] PROVE i = j
    BY DEF IsInjective
  <2>2. ~ (i \in 1 .. Len(s) /\ u[i] = s[i]
           /\ j - Len(s) \in 1 .. Len(t) /\ u[j] = t[j - Len(s)])
    BY <1>1, <2>1 DEF ToSet
  <2>3. ~ (j \in 1 .. Len(s) /\ u[j] = s[j]
           /\ i - Len(s) \in 1 .. Len(t) /\ u[i] = t[i - Len(s)])
    BY <1>1, <2>1 DEF ToSet
  <2>4. CASE i \in 1 .. Len(s) /\ u[i] = s[i] /\ j \in 1 .. Len(s) /\ u[j] = s[j]
    BY <1>1, <2>1, <2>4 DEF IsInjective
  <2>5. CASE i - Len(s) \in 1 .. Len(t) /\ u[i] = t[i - Len(s)]
             /\ j - Len(s) \in 1 .. Len(t) /\ u[j] = t[j - Len(s)]
    <3>1. i - Len(s) = j - Len(s)
      BY <1>1, <2>1, <2>5 DEF IsInjective
    <3> QED
      BY <1>1, <2>1, <3>1
  <2> QED
    BY <1>2, <2>1, <2>2, <2>3, <2>4, <2>5
<1> QED
  BY <1>1, <1>3, <1>4 DEF u

(* What a sequence holds once an element is appended.                       *)
LEMMA AppendToSet ==
  ASSUME NEW S, NEW s \in Seq(S), NEW e \in S
  PROVE  Append(s, e) \in Seq(S) /\ ToSet(Append(s, e)) = ToSet(s) \cup {e}
<1>1. Append(s, e) \in Seq(S) /\ DOMAIN Append(s, e) = 1 .. Len(s) + 1 /\ Len(s) \in Nat
      /\ DOMAIN s = 1 .. Len(s) /\ Append(s, e)[Len(s) + 1] = e
      /\ \A i \in 1 .. Len(s) : Append(s, e)[i] = s[i]
  OBVIOUS
<1>2. \A i \in 1 .. Len(s) + 1 : i \in 1 .. Len(s) \/ i = Len(s) + 1
  BY <1>1
<1> QED
  BY <1>1, <1>2 DEF ToSet

-----------------------------------------------------------------------------
(* Nothing the recorder knows of is there twice, and all of it was emitted. *)
Kept == Pending \cup lost \cup ToSet(stored)

AllWereEmitted == \A e \in Kept : e[2] <= call[e[1]].emitted

NoneIsTwice ==
  /\ \A q \in Recorders : IsInjective(buffer[q])
  /\ \A p, q \in Recorders : p # q => ToSet(buffer[p]) \cap ToSet(buffer[q]) = {}
  /\ \A r \in Runs : call[r].phase = "storing" => call[r].holding \in Event \ Buffered
  /\ \A r, s \in Runs :
       r # s /\ call[r].phase = "storing" /\ call[s].phase = "storing" =>
         call[r].holding # call[s].holding

RecorderInv == RecorderTypeOK /\ AllWereEmitted /\ NoneIsTwice

(* The n events of an append are events nobody has seen.                    *)
LEMMA BatchIsNew ==
  ASSUME RecorderAssumption, RecorderInv, NEW r \in Runs, NEW n \in Nat,
         call[r].emitted + n <= MaxEvents
  PROVE  /\ Batch(r, n) \in Seq(Event) /\ IsInjective(Batch(r, n))
         /\ ToSet(Batch(r, n)) \cap Kept = {}
         /\ \A e \in ToSet(Batch(r, n)) : e[1] = r /\ e[2] <= call[r].emitted + n
<1>1. call[r].emitted \in Nat /\ MaxEvents \in Nat
  BY DEF RecorderAssumption, RecorderInv, RecorderTypeOK, Call
<1>2. \A i \in 1 .. n : <<r, call[r].emitted + i>> \in Event
  BY <1>1 DEF Event
<1>3. Batch(r, n) \in Seq(Event) /\ DOMAIN Batch(r, n) = 1 .. n
  BY <1>2 DEF Batch
<1>4. \A i \in 1 .. n : Batch(r, n)[i] = <<r, call[r].emitted + i>>
  BY DEF Batch
<1>5. IsInjective(Batch(r, n))
  BY <1>1, <1>3, <1>4 DEF IsInjective
<1>6. ASSUME NEW e \in ToSet(Batch(r, n))
      PROVE  e[1] = r /\ e[2] <= call[r].emitted + n /\ ~ e[2] <= call[e[1]].emitted
  <2>1. PICK i \in 1 .. n : e = <<r, call[r].emitted + i>>
    BY <1>3, <1>4 DEF ToSet
  <2> QED
    BY <1>1, <2>1
<1> QED
  BY <1>3, <1>5, <1>6 DEF RecorderInv, AllWereEmitted

(* The waiting events of a recorder, and n new ones of run r behind them.   *)
Queue(r, n) == buffer[RecorderOf(r)] \o Batch(r, n)

(* buffer.shift() and storage.append: the first of the queue is stored at   *)
(* once, or is on its way.                                                  *)
LEMMA HandOverFacts ==
  ASSUME RecorderAssumption, RecorderInv, NEW r \in Runs, NEW n \in Nat, NEW c \in Call,
         call[r].phase \in {"idle", "stored"}, c.emitted = call[r].emitted + n,
         c.emitted <= MaxEvents, Queue(r, n) # <<>>,
         HandOver(r, c, Queue(r, n)),
         UNCHANGED <<wiring, closed, lost>>
  PROVE  LET k  == RecorderOf(r)
             es == ToSet(Batch(r, n))
             q  == Queue(r, n)
             e  == Head(q)
         IN  /\ k \in Recorders /\ e \in Event /\ es \subseteq Event /\ q \in Seq(Event)
             /\ es \cap Kept = {}
             /\ \A f \in es : f[1] = r /\ f[2] <= call[r].emitted + n
             /\ Tail(q) \in Seq(Event) /\ IsInjective(Tail(q))
             /\ e \in ToSet(q) /\ ToSet(q) = ToSet(buffer[k]) \cup es
             /\ ToSet(Tail(q)) = ToSet(q) \ {e}
             /\ buffer' = [buffer EXCEPT ![k] = Tail(q)] /\ lost' = lost
             /\ closed' = closed /\ wiring' = wiring
             /\ Buffered' = (Buffered \cup es) \ {e}
             /\ e \notin InFlight /\ e \in Buffered \cup es
             /\ \A s \in Runs \ {r} : call'[s] = call[s]
             /\ call'[r].emitted = call[r].emitted + n /\ call'[r].holding = e
             /\ call'[r].batch = c.batch /\ call'[r].acked = c.acked
             /\ call' \in [Runs -> Call]
             /\ call'[r].phase = IF wiring.storage = "memory" THEN "stored" ELSE "storing"
             /\ InFlight' = IF wiring.storage = "memory" THEN InFlight
                                                       ELSE InFlight \cup {e}
             /\ stored' = IF wiring.storage = "memory" THEN Append(stored, e) ELSE stored
             /\ stored' \in Seq(Event)
             /\ ToSet(stored') = IF wiring.storage = "memory" THEN ToSet(stored) \cup {e}
                                                             ELSE ToSet(stored)
<1> DEFINE k  == RecorderOf(r)
           es == ToSet(Batch(r, n))
           q  == Queue(r, n)
           e  == Head(q)
<1>1. k \in Recorders /\ buffer[k] \in Seq(Event) /\ stored \in Seq(Event)
  BY DEF RecorderInv, RecorderTypeOK, Wiring, RecorderOf
<1>2. /\ Batch(r, n) \in Seq(Event) /\ IsInjective(Batch(r, n)) /\ es \cap Kept = {}
      /\ \A f \in es : f[1] = r /\ f[2] <= call[r].emitted + n
  BY BatchIsNew
<1>3. ToSet(buffer[k]) \cap es = {}
  BY <1>1, <1>2 DEF Kept, Pending, Buffered
<1>4. q \in Seq(Event) /\ IsInjective(q) /\ ToSet(q) = ToSet(buffer[k]) \cup es
  BY <1>1, <1>2, <1>3, ConcatOfInj DEF RecorderInv, NoneIsTwice, Queue
<1>5. /\ Tail(q) \in Seq(Event) /\ IsInjective(Tail(q)) /\ e \in Event
      /\ e \in ToSet(q) /\ ToSet(Tail(q)) = ToSet(q) \ {e}
  BY <1>4, TailOfInj
<1>6. es \subseteq Event
  BY <1>2 DEF ToSet
<1> HIDE DEF q, e, es
<1> USE <1>1, <1>2, <1>4, <1>5, <1>6
<1>7. buffer' = [buffer EXCEPT ![k] = Tail(q)] /\ lost' = lost /\ closed' = closed /\ wiring' = wiring
  BY DEF HandOver, HandEvent, q
<1>8. Buffered' = (Buffered \cup es) \ {e}
  <2>1. \A p, o \in Recorders : p # o => ToSet(buffer[p]) \cap ToSet(buffer[o]) = {}
    BY DEF RecorderInv, NoneIsTwice
  <2>2. ASSUME NEW o \in Recorders \ {k} PROVE e \notin ToSet(buffer[o])
    <3>1. ToSet(buffer[o]) \subseteq Kept
      BY DEF Kept, Pending, Buffered
    <3>2. e \in ToSet(buffer[k]) \cup es
      OBVIOUS
    <3> QED
      BY <2>1, <3>1, <3>2
  <2>3. DOMAIN buffer = Recorders
    BY DEF RecorderInv, RecorderTypeOK
  <2>4. /\ ToSet(buffer'[k]) = (ToSet(buffer[k]) \cup es) \ {e}
        /\ \A o \in Recorders \ {k} : buffer'[o] = buffer[o]
    BY <1>7, <2>3
  <2>5. \A x : x \in Buffered <=> \E o \in Recorders : x \in ToSet(buffer[o])
    BY DEF Buffered
  <2>6. \A x : x \in Buffered' <=> \E o \in Recorders : x \in ToSet(buffer'[o])
    BY DEF Buffered
  <2> QED
    BY <2>2, <2>4, <2>5, <2>6
<1>9. e \notin InFlight /\ e \in Buffered \cup es
  BY DEF InFlight, Buffered, RecorderInv, NoneIsTwice, Kept, Pending
<1>10. /\ call \in [Runs -> Call] /\ call[r].emitted \in Nat /\ lost \in SUBSET Event
       /\ \A f \in Kept : f[2] <= call[f[1]].emitted
  BY DEF RecorderInv, RecorderTypeOK, AllWereEmitted, Call
<1>11. \/ /\ wiring.storage = "memory"
          /\ stored' = Append(stored, e)
          /\ call' = [call EXCEPT ![r] = [c EXCEPT !.phase = "stored", !.holding = e]]
       \/ /\ wiring.storage = "jsonl"
          /\ call' = [call EXCEPT ![r] = [c EXCEPT !.phase = "storing", !.holding = e]]
          /\ stored' = stored
  BY DEF HandOver, HandEvent, q, e
<1>12. /\ \A s \in Runs \ {r} : call'[s] = call[s]
       /\ call'[r].emitted = call[r].emitted + n /\ call'[r].holding = e /\ call' \in [Runs -> Call]
       /\ call'[r].batch = c.batch /\ call'[r].acked = c.acked
       /\ call'[r].phase = IF wiring.storage = "memory" THEN "stored" ELSE "storing"
  <2>1. PICK p \in {"stored", "storing"} :
          /\ call' = [call EXCEPT ![r] = [c EXCEPT !.phase = p, !.holding = e]]
          /\ p = IF wiring.storage = "memory" THEN "stored" ELSE "storing"
    BY <1>11
  <2>2. [c EXCEPT !.phase = p, !.holding = e] \in Call
    BY DEF Call, Phases
  <2>3. call'[r] = [c EXCEPT !.phase = p, !.holding = e]
    BY <1>10, <2>1
  <2>4. [c EXCEPT !.phase = p, !.holding = e].phase = p
        /\ [c EXCEPT !.phase = p, !.holding = e].holding = e
        /\ [c EXCEPT !.phase = p, !.holding = e].emitted = c.emitted
        /\ [c EXCEPT !.phase = p, !.holding = e].batch = c.batch
        /\ [c EXCEPT !.phase = p, !.holding = e].acked = c.acked
    BY DEF Call
  <2> QED
    BY <1>10, <2>1, <2>2, <2>3, <2>4
<1>13. InFlight' = IF wiring.storage = "memory" THEN InFlight ELSE InFlight \cup {e}
  <2>1. call[r].phase # "storing"
    OBVIOUS
  <2>2. CASE wiring.storage = "memory"
    <3>1. \A s \in Runs : call'[s].phase = "storing" <=> call[s].phase = "storing"
      BY <1>12, <2>1, <2>2
    <3>2. \A s \in Runs : call[s].phase = "storing" => call'[s].holding = call[s].holding
      BY <1>12, <2>1
    <3>3. InFlight' \subseteq InFlight
      BY <3>1, <3>2 DEF InFlight
    <3>4. InFlight \subseteq InFlight'
      BY <3>1, <3>2 DEF InFlight
    <3> QED
      BY <2>2, <3>3, <3>4
  <2>3. CASE wiring.storage # "memory"
    <3>1. \A s \in Runs : call'[s].phase = "storing" <=> call[s].phase = "storing" \/ s = r
      BY <1>12, <2>1, <2>3
    <3>2. \A s \in Runs : call'[s].holding = IF s = r THEN e ELSE call[s].holding
      BY <1>12
    <3> QED
      <4>1. e \in InFlight' /\ InFlight' \subseteq InFlight \cup {e}
        <5>1. call'[r].phase = "storing" /\ call'[r].holding = e
          BY <3>1, <3>2
        <5>2. e \in InFlight'
          BY <5>1 DEF InFlight
        <5> SUFFICES ASSUME NEW s \in Runs, call'[s].phase = "storing"
                     PROVE  call'[s].holding \in InFlight \cup {e}
          BY <5>2 DEF InFlight
        <5>3. CASE s = r
          BY <5>1, <5>3
        <5>4. CASE s # r
          <6>1. call[s].phase = "storing" /\ call'[s].holding = call[s].holding
            BY <3>1, <3>2, <5>4
          <6> QED
            BY <6>1 DEF InFlight
        <5> QED
          BY <5>3, <5>4
      <4>2. InFlight \subseteq InFlight'
        <5> SUFFICES ASSUME NEW s \in Runs, call[s].phase = "storing"
                     PROVE  call[s].holding \in InFlight'
          BY DEF InFlight
        <5>1. s # r /\ call'[s].phase = "storing" /\ call'[s].holding = call[s].holding
          BY <2>1, <3>1, <3>2
        <5> QED
          BY <5>1 DEF InFlight
      <4> QED
        BY <2>3, <4>1, <4>2
  <2> QED
    BY <2>2, <2>3
<1>14. stored' \in Seq(Event)
       /\ ToSet(stored') = IF wiring.storage = "memory" THEN ToSet(stored) \cup {e} ELSE ToSet(stored)
  <2>1. Append(stored, e) \in Seq(Event) /\ ToSet(Append(stored, e)) = ToSet(stored) \cup {e}
    BY AppendToSet
  <2> QED
    BY <1>11, <2>1
<1>15. stored' = IF wiring.storage = "memory" THEN Append(stored, e) ELSE stored
  BY <1>11
<1> QED
  BY <1>7, <1>8, <1>9, <1>12, <1>13, <1>14, <1>15 DEF q, e, es

(* In the log, an event is stored at once or all are on their way.          *)
LEMMA HandOverStep ==
  ASSUME RecorderAssumption, RecorderInv, NEW r \in Runs, NEW n \in Nat, NEW c \in Call,
         call[r].phase \in {"idle", "stored"}, c.emitted = call[r].emitted + n,
         c.emitted <= MaxEvents,
         Queue(r, n) # <<>>, HandOver(r, c, Queue(r, n)),
         UNCHANGED <<wiring, closed, lost>>
  PROVE  RecorderInv' /\ Log!LogNext
<1> DEFINE k  == RecorderOf(r)
           es == ToSet(Batch(r, n))
           q  == Queue(r, n)
           e  == Head(q)
<1>1. /\ k \in Recorders /\ e \in Event /\ es \subseteq Event /\ es \cap Kept = {}
      /\ \A f \in es : f[1] = r /\ f[2] <= call[r].emitted + n
      /\ Tail(q) \in Seq(Event) /\ IsInjective(Tail(q))
      /\ ToSet(q) = ToSet(buffer[k]) \cup es /\ ToSet(Tail(q)) = ToSet(q) \ {e}
  BY HandOverFacts
<1>7. buffer' = [buffer EXCEPT ![k] = Tail(q)] /\ lost' = lost /\ closed' = closed /\ wiring' = wiring
  BY HandOverFacts
<1>8. Buffered' = (Buffered \cup es) \ {e}
  BY HandOverFacts
<1>9. e \notin InFlight /\ e \in Buffered \cup es
  BY HandOverFacts
<1>12. /\ \A s \in Runs \ {r} : call'[s] = call[s]
       /\ call'[r].emitted = call[r].emitted + n /\ call'[r].holding = e /\ call' \in [Runs -> Call]
       /\ call'[r].phase = IF wiring.storage = "memory" THEN "stored" ELSE "storing"
  BY HandOverFacts
<1>13. InFlight' = IF wiring.storage = "memory" THEN InFlight ELSE InFlight \cup {e}
  BY HandOverFacts
<1>14. /\ stored' = IF wiring.storage = "memory" THEN Append(stored, e) ELSE stored
       /\ stored' \in Seq(Event)
       /\ ToSet(stored') = IF wiring.storage = "memory" THEN ToSet(stored) \cup {e} ELSE ToSet(stored)
  BY HandOverFacts
<1> HIDE DEF q, e, es
<1> USE <1>1
<1>10. /\ call \in [Runs -> Call] /\ call[r].emitted \in Nat /\ lost \in SUBSET Event
       /\ \A f \in Kept : f[2] <= call[f[1]].emitted
  BY DEF RecorderInv, RecorderTypeOK, AllWereEmitted, Call
<1>15. RecorderTypeOK'
  BY <1>7, <1>12, <1>14 DEF RecorderInv, RecorderTypeOK
<1>16. Kept' \subseteq Kept \cup es
  BY <1>7, <1>8, <1>9, <1>13, <1>14 DEF Kept, Pending
<1>17. AllWereEmitted'
  <2>1. SUFFICES ASSUME NEW f \in Kept \cup es PROVE f[2] <= call'[f[1]].emitted
    BY <1>16 DEF AllWereEmitted
  <2>2. f \in Event
    BY <1>10 DEF Kept, Pending, Buffered, InFlight, RecorderInv, RecorderTypeOK, NoneIsTwice, ToSet
  <2>3. f[1] \in Runs /\ f[2] \in Nat /\ call[f[1]].emitted \in Nat
    BY <1>10, <2>2 DEF Event, Call
  <2>4. CASE f[1] = r
    BY <1>10, <1>12, <2>1, <2>3, <2>4
  <2>5. CASE f[1] # r
    BY <1>10, <1>12, <2>1, <2>3, <2>5
  <2> QED
    BY <2>4, <2>5
<1>18. NoneIsTwice'
  <2>1. \A p \in Recorders : IsInjective(buffer'[p]) /\ (p # k => buffer'[p] = buffer[p])
    BY <1>7 DEF RecorderInv, RecorderTypeOK, NoneIsTwice
  <2>2. buffer'[k] = Tail(q) /\ ToSet(buffer'[k]) \subseteq ToSet(buffer[k]) \cup es
    BY <1>7 DEF RecorderInv, RecorderTypeOK
  <2>3. \A p \in Recorders : ToSet(buffer[p]) \cap es = {}
    BY DEF Kept, Pending, Buffered
  <2>4. \A p, s \in Recorders : p # s => ToSet(buffer'[p]) \cap ToSet(buffer'[s]) = {}
    <3>1. \A p, s \in Recorders : p # s => ToSet(buffer[p]) \cap ToSet(buffer[s]) = {}
      BY DEF RecorderInv, NoneIsTwice
    <3>2. \A p \in Recorders \ {k} : ToSet(buffer'[p]) = ToSet(buffer[p])
      BY <2>1
    <3>3. \A p \in Recorders \ {k} : ToSet(buffer'[p]) \cap ToSet(buffer'[k]) = {}
      BY <2>2, <2>3, <3>1, <3>2
    <3> QED
      BY <3>1, <3>2, <3>3
  <2>5. \A s \in Runs : call'[s].phase = "storing" => call'[s].holding \in Event \ Buffered'
    <3>1. TAKE s \in Runs
    <3>2. CASE s = r
      BY <1>8, <1>12, <3>2
    <3>3. CASE s # r
      <4>1. HAVE call'[s].phase = "storing"
      <4>2. call[s].holding \in Event \ Buffered /\ call[s].holding \in InFlight
        BY <1>12, <3>3, <4>1 DEF RecorderInv, NoneIsTwice, InFlight
      <4>3. call[s].holding \notin es
        BY <4>2 DEF Kept, Pending
      <4> QED
        BY <1>8, <1>12, <3>3, <4>2, <4>3
    <3> QED
      BY <3>2, <3>3
  <2>6. \A s, t \in Runs :
          s # t /\ call'[s].phase = "storing" /\ call'[t].phase = "storing" =>
            call'[s].holding # call'[t].holding
    BY <1>9, <1>12 DEF RecorderInv, NoneIsTwice, InFlight
  <2> QED
    BY <2>1, <2>4, <2>5, <2>6 DEF NoneIsTwice
<1>19. CASE wiring.storage = "memory"
  <2>1. Pending' = (Pending \cup es) \ {e} /\ stored' = Append(stored, e)
    BY <1>8, <1>9, <1>13, <1>14, <1>19 DEF Pending
  <2>2. es \cap Log!Known = {} /\ e \in Pending \cup es
    BY <1>9 DEF Log!Known, Log!InLog, Kept, Pending, ToSet
  <2>3. Log!SubmitAndStore(es, e)
    BY <1>7, <2>1, <2>2 DEF Log!SubmitAndStore
  <2> QED
    BY <1>15, <1>17, <1>18, <2>3 DEF RecorderInv, Log!LogNext
<1>20. CASE wiring.storage # "memory"
  <2>1. Pending' = Pending \cup es /\ stored' = stored
    BY <1>8, <1>9, <1>13, <1>14, <1>20 DEF Pending
  <2>2. es \cap Log!Known = {}
    BY DEF Log!Known, Log!InLog, Kept, Pending, ToSet
  <2>3. Log!Submit(es)
    BY <1>7, <2>1, <2>2 DEF Log!Submit
  <2> QED
    BY <1>15, <1>17, <1>18, <2>3 DEF RecorderInv, Log!LogNext
<1> QED
  BY <1>19, <1>20

(* Steps the log does not see.                                              *)
LEMMA QuietStep ==
  ASSUME RecorderInv, UNCHANGED <<wiring, buffer, stored, lost>>,
         call' \in [Runs -> Call], closed' \in [Recorders -> BOOLEAN],
         \A s \in Runs :
           /\ call'[s].emitted = call[s].emitted
           /\ call'[s].phase = "storing" <=> call[s].phase = "storing"
           /\ call[s].phase = "storing" => call'[s].holding = call[s].holding
  PROVE  RecorderInv' /\ UNCHANGED Log!logVars
<1>1. Buffered' = Buffered /\ InFlight' = InFlight
  BY DEF Buffered, InFlight
<1>2. Kept' = Kept
  BY <1>1 DEF Kept, Pending
<1>3. Kept \subseteq Event
  BY DEF RecorderInv, RecorderTypeOK, NoneIsTwice, Kept, Pending, Buffered, InFlight, ToSet
<1>4. RecorderTypeOK'
  BY DEF RecorderInv, RecorderTypeOK
<1>5. AllWereEmitted'
  BY <1>2, <1>3 DEF RecorderInv, AllWereEmitted, Event
<1>6. NoneIsTwice'
  BY <1>1 DEF RecorderInv, NoneIsTwice
<1> QED
  BY <1>1, <1>4, <1>5, <1>6 DEF RecorderInv, Log!logVars, Pending

(* An event that leaves the hands of run r: into storage, or lost.          *)
LEMMA LeavesFlight ==
  ASSUME RecorderInv, NEW r \in Runs, call[r].phase = "storing",
         UNCHANGED <<wiring, buffer, closed>>, call' \in [Runs -> Call],
         \A s \in Runs \ {r} : call'[s] = call[s],
         call'[r].emitted = call[r].emitted, call'[r].phase # "storing",
         stored' \in Seq(Event), lost' \in SUBSET Event,
         ToSet(stored') \cup lost' = ToSet(stored) \cup lost \cup {call[r].holding}
  PROVE  /\ RecorderInv' /\ call[r].holding \in Pending
         /\ Pending' = Pending \ {call[r].holding} /\ Kept' = Kept
         /\ InFlight' = InFlight \ {call[r].holding} /\ Buffered' = Buffered
<1> DEFINE e == call[r].holding
<1>1. e \in Event \ Buffered /\ e \in InFlight
  BY DEF RecorderInv, NoneIsTwice, InFlight
<1>2. Buffered' = Buffered
  BY DEF Buffered
<1>3. InFlight' = InFlight \ {e}
  <2>1. \A s \in Runs : call'[s].phase = "storing" <=> s # r /\ call[s].phase = "storing"
    OBVIOUS
  <2> QED
    BY <2>1 DEF InFlight, RecorderInv, NoneIsTwice
<1>4. Pending' = Pending \ {e} /\ Kept' = Kept
  BY <1>1, <1>2, <1>3 DEF Pending, Kept
<1>5. Kept \subseteq Event
  BY DEF RecorderInv, RecorderTypeOK, NoneIsTwice, Kept, Pending, Buffered, InFlight, ToSet
<1>6. RecorderTypeOK'
  BY DEF RecorderInv, RecorderTypeOK
<1>7. AllWereEmitted'
  <2>1. \A s \in Runs : call'[s].emitted = call[s].emitted
    OBVIOUS
  <2> QED
    BY <1>4, <1>5, <2>1 DEF RecorderInv, AllWereEmitted, Event
<1>8. NoneIsTwice'
  <2>1. \A s \in Runs : call'[s].phase = "storing" =>
                        s # r /\ call[s].phase = "storing" /\ call'[s].holding = call[s].holding
    OBVIOUS
  <2>2. /\ \A q \in Recorders : IsInjective(buffer'[q])
        /\ \A p, q \in Recorders : p # q => ToSet(buffer'[p]) \cap ToSet(buffer'[q]) = {}
    BY DEF RecorderInv, NoneIsTwice
  <2>3. \A s \in Runs : call'[s].phase = "storing" => call'[s].holding \in Event \ Buffered'
    BY <1>2, <2>1 DEF RecorderInv, NoneIsTwice
  <2>4. \A s, t \in Runs :
          s # t /\ call'[s].phase = "storing" /\ call'[t].phase = "storing" =>
            call'[s].holding # call'[t].holding
    BY <2>1 DEF RecorderInv, NoneIsTwice
  <2> QED
    BY <2>2, <2>3, <2>4 DEF NoneIsTwice
<1>9. e \in Pending
  BY <1>1 DEF Pending
<1> QED
  BY <1>2, <1>3, <1>4, <1>6, <1>7, <1>8, <1>9 DEF RecorderInv

(* Every wiring starts as an empty log.                                     *)
LEMMA RecorderBegins ==
  ASSUME RecorderAssumption, RecorderInit PROVE RecorderInv /\ Log!LogInit
<1>1. PICK w \in Wiring : Wired(w)
  BY DEF RecorderInit
<1>2. Buffered = {} /\ InFlight = {} /\ ToSet(stored) = {}
  BY <1>1 DEF Wired, Buffered, InFlight, ToSet
<1>3. call \in [Runs -> Call]
  <2>1. 0 \in 0 .. MaxEvents
    BY DEF RecorderAssumption
  <2>2. [phase |-> "idle", op |-> "flush", batch |-> {}, holding |-> Nothing, emitted |-> 0,
         acked |-> {}] \in Call
    BY <2>1 DEF Call, Phases
  <2> QED
    BY <1>1, <2>2 DEF Wired
<1>4. RecorderTypeOK
  <2>1. <<>> \in Seq(Event)
    OBVIOUS
  <2>2. buffer \in [Recorders -> Seq(Event)] /\ closed \in [Recorders -> BOOLEAN]
    BY <1>1, <2>1 DEF Wired
  <2> QED
    BY <1>1, <1>3, <2>1, <2>2 DEF Wired, RecorderTypeOK
<1>5. AllWereEmitted
  BY <1>1, <1>2 DEF Wired, AllWereEmitted, Kept, Pending
<1>6. NoneIsTwice
  BY <1>1 DEF Wired, NoneIsTwice, IsInjective, ToSet
<1> QED
  BY <1>1, <1>2, <1>4, <1>5, <1>6 DEF RecorderInv, Log!LogInit, Pending, Wired

(* Each step keeps the invariant and is a step of the log, or none.         *)
LEMMA RecorderSteps ==
  ASSUME RecorderAssumption, RecorderInv, [RecorderNext]_recorderVars
  PROVE  RecorderInv' /\ [Log!LogNext]_(Log!logVars)
<1> DEFINE Goal == RecorderInv' /\ [Log!LogNext]_(Log!logVars)
<1>1. /\ call \in [Runs -> Call] /\ closed \in [Recorders -> BOOLEAN] /\ MaxEvents \in Nat
      /\ stored \in Seq(Event) /\ lost \in SUBSET Event
      /\ \A r \in Runs : RecorderOf(r) \in Recorders /\ buffer[RecorderOf(r)] \in Seq(Event)
  BY DEF RecorderAssumption, RecorderInv, RecorderTypeOK, Wiring, RecorderOf
<1>2. ASSUME NEW r \in Runs, NEW op \in {"append", "flush", "close"}, NEW n \in Nat,
             call[r].emitted + n <= MaxEvents
      PROVE  Begun(r, op, n) \in Call /\ Begun(r, op, n).emitted = call[r].emitted + n
             /\ Begun(r, op, n).phase = call[r].phase
  <2>1. ToSet(Batch(r, n)) \in SUBSET Event
    BY <1>2, BatchIsNew DEF ToSet
  <2>2. call[r] \in Call /\ call[r].emitted + n \in 0 .. MaxEvents
    BY <1>1, <1>2 DEF Call
  <2> QED
    BY <2>1, <2>2 DEF Begun, Call
<1>3. \A r \in Runs : Batch(r, 0) = <<>> /\ buffer[RecorderOf(r)] \o Batch(r, 0) = buffer[RecorderOf(r)]
  BY <1>1 DEF Batch
<1>4. ASSUME NEW r \in Runs, NEW n \in 1 .. MaxBatch, AppendEvents(r, n) PROVE Goal
  <2>1. n \in Nat /\ n >= 1
    BY DEF RecorderAssumption
  <2>2. buffer[RecorderOf(r)] \o Batch(r, n) # <<>>
    <3>1. Batch(r, n) \in Seq(Event) /\ Len(Batch(r, n)) = n
      BY <1>4, <2>1, BatchIsNew DEF AppendEvents, Batch
    <3> QED
      BY <1>1, <2>1, <3>1
  <2> QED
    BY <1>2, <1>4, <2>1, <2>2, HandOverStep DEF AppendEvents, Queue
<1>5. ASSUME NEW r \in Runs, RefuseAppend(r) PROVE Goal
  <2>1. call' \in [Runs -> Call]
    <3>1. [call[r] EXCEPT !.phase = "failed"] \in Call
      BY <1>1 DEF Call, Phases
    <3> QED
      BY <1>1, <1>5, <3>1 DEF RefuseAppend
  <2>2. \A s \in Runs : call'[s].emitted = call[s].emitted
          /\ (call'[s].phase = "storing" <=> call[s].phase = "storing")
          /\ call'[s].holding = call[s].holding
    BY <1>1, <1>5 DEF RefuseAppend, Call
  <2> QED
    BY <1>1, <1>5, <2>1, <2>2, QuietStep DEF RefuseAppend
<1>6. ASSUME NEW r \in Runs, NEW op \in {"flush", "close"}, WorkOff(r, op) PROVE Goal
  <2>1. call[r].emitted + 0 <= MaxEvents /\ call[r].emitted + 0 = call[r].emitted
    BY <1>1 DEF Call
  <2> QED
    BY <1>2, <1>3, <1>6, <2>1, HandOverStep DEF WorkOff, Idle, Queue
<1>7. ASSUME NEW r \in Runs, NEW c \in Call, Settle(r, c), c.emitted = call[r].emitted,
             call[r].phase # "storing", UNCHANGED <<wiring, closed, lost>> PROVE Goal
  <2>1. \A p \in {"closing", "idle"} :
          [c EXCEPT !.phase = p, !.holding = Nothing, !.batch = {}, !.acked = @ \cup c.batch] \in Call
    BY DEF Call, Phases
  <2>2. PICK p \in {"closing", "idle"} :
          call' = [call EXCEPT ![r] = [c EXCEPT !.phase = p, !.holding = Nothing, !.batch = {},
                                                !.acked = @ \cup c.batch]]
    BY <1>7 DEF Settle
  <2>3. call' \in [Runs -> Call]
    BY <1>1, <2>1, <2>2
  <2>4. call'[r].emitted = call[r].emitted /\ call'[r].phase # "storing"
        /\ \A s \in Runs \ {r} : call'[s] = call[s]
    BY <1>1, <1>7, <2>2 DEF Call
  <2> QED
    BY <1>1, <1>7, <2>3, <2>4, QuietStep DEF Settle
<1>8. ASSUME NEW r \in Runs, CloseEmpty(r) PROVE Goal
  <2>1. call[r].emitted + 0 <= MaxEvents /\ call[r].emitted + 0 = call[r].emitted
    BY <1>1 DEF Call
  <2> QED
    BY <1>2, <1>7, <1>8, <2>1 DEF CloseEmpty, Idle
<1>9. ASSUME NEW r \in Runs, WriteLine(r) PROVE Goal
  <2>1. call' \in [Runs -> Call] /\ call'[r].phase = "stored" /\ call'[r].emitted = call[r].emitted
        /\ \A s \in Runs \ {r} : call'[s] = call[s]
    <3>1. call[r] \in Call /\ [call[r] EXCEPT !.phase = "stored"] \in Call
      BY <1>1 DEF Call, Phases
    <3>2. call' = [call EXCEPT ![r] = [call[r] EXCEPT !.phase = "stored"]]
      BY <1>9 DEF WriteLine
    <3>3. /\ [call[r] EXCEPT !.phase = "stored"].phase = "stored"
          /\ [call[r] EXCEPT !.phase = "stored"].emitted = call[r].emitted
      BY <3>1 DEF Call
    <3> QED
      BY <1>1, <3>1, <3>2, <3>3
  <2>2. call[r].holding \in Event
    BY <1>9 DEF WriteLine, RecorderInv, NoneIsTwice
  <2>3. stored' \in Seq(Event) /\ ToSet(stored') = ToSet(stored) \cup {call[r].holding}
    BY <1>1, <1>9, <2>2, AppendToSet DEF WriteLine
  <2>4. RecorderInv' /\ call[r].holding \in Pending /\ Pending' = Pending \ {call[r].holding}
    BY <1>1, <1>9, <2>1, <2>3, LeavesFlight DEF WriteLine
  <2>5. Log!Store(call[r].holding)
    BY <1>9, <2>4 DEF Log!Store, WriteLine
  <2> QED
    BY <2>2, <2>4, <2>5 DEF Log!LogNext
<1>10. ASSUME NEW r \in Runs, RejectLine(r) PROVE Goal
  <2>1. call' \in [Runs -> Call] /\ call'[r].phase = "failed" /\ call'[r].emitted = call[r].emitted
        /\ \A s \in Runs \ {r} : call'[s] = call[s]
    <3> DEFINE c == [call[r] EXCEPT !.phase = "failed", !.holding = Nothing]
    <3>1. c \in Call /\ c.phase = "failed" /\ c.emitted = call[r].emitted
      BY <1>1 DEF Call, Phases
    <3>2. call' = [call EXCEPT ![r] = c]
      BY <1>1, <1>10 DEF RejectLine
    <3> QED
      BY <1>1, <3>1, <3>2
  <2>2. call[r].holding \in Event
    BY <1>10 DEF RejectLine, RecorderInv, NoneIsTwice
  <2>3. RecorderInv' /\ call[r].holding \in Pending /\ Pending' = Pending \ {call[r].holding}
    BY <1>1, <1>10, <2>1, <2>2, LeavesFlight DEF RejectLine
  <2>4. Log!ReportLoss(call[r].holding)
    BY <1>10, <2>3 DEF Log!ReportLoss, RejectLine
  <2> QED
    BY <2>2, <2>3, <2>4 DEF Log!LogNext
<1>11. ASSUME NEW r \in Runs, ContinueFlush(r) PROVE Goal
  <2>1. call[r] \in Call /\ call[r].emitted + 0 = call[r].emitted /\ call[r].emitted <= MaxEvents
    BY <1>1 DEF Call
  <2>2. CASE buffer[RecorderOf(r)] # <<>>
    BY <1>3, <1>11, <2>1, <2>2, HandOverStep DEF ContinueFlush, Queue
  <2>3. CASE buffer[RecorderOf(r)] = <<>>
    BY <1>7, <1>11, <2>1, <2>3 DEF ContinueFlush
  <2> QED
    BY <2>2, <2>3
<1>12. ASSUME NEW r \in Runs, MarkClosed(r) PROVE Goal
  <2>1. call' \in [Runs -> Call] /\ closed' \in [Recorders -> BOOLEAN]
    <3>1. call[r] \in Call /\ [call[r] EXCEPT !.phase = "idle"] \in Call
      BY <1>1 DEF Call, Phases
    <3>2. call' = [call EXCEPT ![r] = [call[r] EXCEPT !.phase = "idle"]]
      BY <1>12 DEF MarkClosed
    <3>3. closed' \in [Recorders -> BOOLEAN]
      BY <1>1, <1>12 DEF MarkClosed
    <3> QED
      BY <1>1, <3>1, <3>2, <3>3
  <2>2. \A s \in Runs : call'[s].emitted = call[s].emitted
          /\ (call'[s].phase = "storing" <=> call[s].phase = "storing")
          /\ call'[s].holding = call[s].holding
    BY <1>1, <1>12 DEF MarkClosed, Call
  <2> QED
    BY <1>1, <1>12, <2>1, <2>2, QuietStep DEF MarkClosed
<1>13. CASE UNCHANGED recorderVars
  BY <1>1, <1>13, QuietStep DEF recorderVars
<1> QED
  BY <1>4, <1>5, <1>6, <1>8, <1>9, <1>10, <1>11, <1>12, <1>13 DEF RecorderNext, Settling

(* However runs share recorders and storages, in batches of any size, every *)
(* accepted event is stored once or its loss is reported.                   *)
THEOREM RecorderKeepsLog ==
  ASSUME RecorderAssumption PROVE RecorderSpec => StoredOnceOrReported
<1>1. RecorderInit => RecorderInv /\ Log!LogInit
  BY RecorderBegins
<1>2. RecorderInv /\ [RecorderNext]_recorderVars => RecorderInv' /\ [Log!LogNext]_(Log!logVars)
  BY RecorderSteps
<1> QED
  BY <1>1, <1>2, PTL DEF RecorderSpec, StoredOnceOrReported, Log!LogSpec

-----------------------------------------------------------------------------
(* EventsAreKept.                                                           *)

(* Events wait in, and are taken from, the recorder of the run that emitted *)
(* them; the memory storage keeps nobody waiting and rejects nothing.       *)
HomeInv ==
  /\ \A q \in Recorders : \A e \in ToSet(buffer[q]) : RecorderOf(e[1]) = q
  /\ \A r \in Runs : call[r].phase = "storing" =>
       RecorderOf(call[r].holding[1]) = RecorderOf(r)
  /\ wiring.storage = "memory" => lost = {} /\ \A r \in Runs : call[r].phase # "storing"

(* An event that was emitted is somewhere, and nowhere else if it is stored. *)
OnceInv ==
  /\ IsInjective(stored)
  /\ ToSet(stored) \cap Pending = {}
  /\ \A r \in Runs : \A n \in 1 .. call[r].emitted : <<r, n>> \in Kept
  /\ \A r \in Runs : \A e \in call[r].batch \cup call[r].acked :
       e[1] = r /\ e[2] <= call[r].emitted

Gone == InFlight \cup lost \cup ToSet(stored)

(* What r emitted before an event of a queue has left it or is before it.   *)
Ahead(r, q) ==
  \A j \in DOMAIN q : q[j][1] = r =>
    \A n \in 1 .. q[j][2] - 1 :
      <<r, n>> \in Gone \/ \E i \in 1 .. j - 1 : q[i] = <<r, n>>

InOrder(r) ==
  /\ Ahead(r, buffer[RecorderOf(r)])
  /\ call[r].phase = "storing" =>
       \A n \in 1 .. call[r].holding[2] - 1 : <<r, n>> \in ToSet(stored)
  /\ (\E e \in lost : e[1] = r) => call[r].phase = "failed"
  /\ call[r].acked \subseteq ToSet(stored)
  /\ RunOrder(r)

OrderInv ==
  /\ RecorderInv /\ HomeInv /\ OnceInv /\ BufferHasAKeeper
  /\ \A r \in Runs : Orderly(r) => InOrder(r)

(* An event goes to the end of the storage after all its run emitted before. *)
LEMMA AppendInOrder ==
  ASSUME stored \in Seq(Event), NEW e \in Event, e \notin ToSet(stored),
         stored' = Append(stored, e), NEW r, RunOrder(r),
         e[1] = r => \A n \in 1 .. e[2] - 1 : <<r, n>> \in ToSet(stored)
  PROVE  RunOrder(r)'
<1>1. /\ Len(stored) \in Nat /\ DOMAIN stored = 1 .. Len(stored)
      /\ DOMAIN stored' = 1 .. Len(stored) + 1 /\ stored'[Len(stored) + 1] = e
      /\ \A i \in 1 .. Len(stored) : stored'[i] = stored[i]
  OBVIOUS
<1>2. SUFFICES ASSUME NEW j \in 1 .. Len(stored) + 1, stored'[j][1] = r
      PROVE  /\ \A i \in 1 .. j - 1 : stored'[i] # stored'[j]
             /\ \A n \in 1 .. stored'[j][2] - 1 : \E i \in 1 .. j - 1 : stored'[i] = <<r, n>>
  BY <1>1 DEF RunOrder
<1>3. CASE j \in 1 .. Len(stored)
  <2>1. stored'[j] = stored[j] /\ \A i \in 1 .. j - 1 : stored'[i] = stored[i]
    BY <1>1, <1>3
  <2>2. /\ \A i \in 1 .. j - 1 : stored[i] # stored[j]
        /\ \A n \in 1 .. stored[j][2] - 1 : \E i \in 1 .. j - 1 : stored[i] = <<r, n>>
    BY <1>1, <1>2, <1>3, <2>1 DEF RunOrder
  <2>3. \A n \in 1 .. stored'[j][2] - 1 : \E i \in 1 .. j - 1 : stored'[i] = <<r, n>>
    <3>1. TAKE n \in 1 .. stored'[j][2] - 1
    <3>2. PICK i \in 1 .. j - 1 : stored[i] = <<r, n>>
      BY <2>1, <2>2, <3>1
    <3> QED
      BY <2>1, <3>2
  <2> QED
    BY <2>1, <2>2, <2>3
<1>4. CASE j = Len(stored) + 1
  <2>1. stored'[j] = e /\ j - 1 = Len(stored)
    BY <1>1, <1>4
  <2>2. \A i \in 1 .. j - 1 : stored'[i] = stored[i] /\ stored[i] \in ToSet(stored)
    BY <1>1, <2>1 DEF ToSet
  <2>3. \A n \in 1 .. e[2] - 1 : \E i \in 1 .. Len(stored) : stored[i] = <<r, n>>
    BY <1>1, <1>2, <2>1 DEF ToSet
  <2> QED
    BY <2>1, <2>2, <2>3
<1>5. j \in 1 .. Len(stored) \/ j = Len(stored) + 1
  BY <1>1
<1> QED
  BY <1>3, <1>4, <1>5

LEMMA SameOrder ==
  ASSUME stored' = stored, NEW r, RunOrder(r) PROVE RunOrder(r)'
<1>1. SUFFICES ASSUME NEW j \in DOMAIN stored, stored[j][1] = r
      PROVE  /\ \A i \in 1 .. j - 1 : stored[i] # stored[j]
             /\ \A n \in 1 .. stored[j][2] - 1 : \E i \in 1 .. j - 1 : stored[i] = <<r, n>>
  BY DEF RunOrder
<1> QED
  BY <1>1 DEF RunOrder

LEMMA SameAhead ==
  ASSUME Gone' = Gone, buffer' = buffer, wiring' = wiring, NEW r,
         Ahead(r, buffer[RecorderOf(r)])
  PROVE  Ahead(r, buffer[RecorderOf(r)])'
<1>1. PICK q : q = buffer[RecorderOf(r)]
  OBVIOUS
<1>2. buffer'[RecorderOf(r)'] = q
  BY <1>1 DEF RecorderOf
<1>3. Ahead(r, q)'
  BY <1>1 DEF Ahead
<1> QED
  BY <1>2, <1>3 DEF Ahead

LEMMA AppendOnce ==
  ASSUME NEW S, NEW s \in Seq(S), NEW e \in S, IsInjective(s), e \notin ToSet(s)
  PROVE  IsInjective(Append(s, e))
<1>1. DOMAIN Append(s, e) = 1 .. Len(s) + 1 /\ Len(s) \in Nat
      /\ DOMAIN s = 1 .. Len(s) /\ Append(s, e)[Len(s) + 1] = e
      /\ \A i \in 1 .. Len(s) : Append(s, e)[i] = s[i]
  OBVIOUS
<1>2. \A i \in 1 .. Len(s) + 1 : i \in 1 .. Len(s) \/ i = Len(s) + 1
  BY <1>1
<1> QED
  BY <1>1, <1>2 DEF IsInjective, ToSet

(* The queue of a recorder is in order for its runs if its buffer is.       *)
LEMMA QueueInOrder ==
  ASSUME RecorderInv, HomeInv, OnceInv, NEW r \in Runs, NEW n \in Nat, NEW s \in Runs,
         RecorderOf(s) = RecorderOf(r), Ahead(s, buffer[RecorderOf(r)])
  PROVE  Ahead(s, Queue(r, n))
<1> DEFINE b == buffer[RecorderOf(r)]
           t == Batch(r, n)
           q == Queue(r, n)
           m == call[r].emitted
<1>1. m \in Nat /\ b \in Seq(Event) /\ RecorderOf(r) \in Recorders
  BY DEF RecorderInv, RecorderTypeOK, Call, Wiring, RecorderOf
<1>2. /\ DOMAIN t = 1 .. n
      /\ \A i \in 1 .. n : t[i] = <<r, m + i>>
  BY DEF Batch
<1>3. /\ Len(b) \in Nat /\ DOMAIN b = 1 .. Len(b) /\ DOMAIN q = 1 .. Len(b) + n
      /\ \A i \in 1 .. Len(b) : q[i] = b[i]
      /\ \A i \in 1 .. n : q[Len(b) + i] = t[i]
  <2> DEFINE S == Runs \X Nat
  <2>1. t \in Seq(S) /\ Len(t) = n
    BY <1>1 DEF Batch
  <2>2. b \in Seq(S)
    BY <1>1 DEF Event
  <2>3. q = b \o t
    BY DEF Queue
  <2> HIDE DEF b, t, q, S
  <2>4. /\ DOMAIN (b \o t) = 1 .. Len(b) + Len(t)
        /\ Len(b) \in Nat /\ DOMAIN b = 1 .. Len(b)
        /\ \A i \in 1 .. Len(b) : (b \o t)[i] = b[i]
        /\ \A i \in 1 .. Len(t) : (b \o t)[Len(b) + i] = t[i]
    BY <2>1, <2>2
  <2> QED
    BY <2>1, <2>3, <2>4
<1> HIDE DEF b, t, q, m
<1>4. SUFFICES ASSUME NEW j \in 1 .. Len(b) + n, q[j][1] = s, NEW l \in 1 .. q[j][2] - 1
      PROVE  <<s, l>> \in Gone \/ \E i \in 1 .. j - 1 : q[i] = <<s, l>>
  BY <1>3 DEF Ahead, q
<1>5. CASE j \in 1 .. Len(b)
  <2>1. <<s, l>> \in Gone \/ \E i \in 1 .. j - 1 : b[i] = <<s, l>>
    BY <1>3, <1>4, <1>5 DEF Ahead, b
  <2>2. \A i \in 1 .. j - 1 : q[i] = b[i]
    BY <1>3, <1>5
  <2> QED
    BY <2>1, <2>2
<1>6. CASE j \notin 1 .. Len(b)
  <2>1. j - Len(b) \in 1 .. n /\ j = Len(b) + (j - Len(b))
    BY <1>3, <1>6
  <2>2. q[j] = <<r, m + (j - Len(b))>>
    BY <1>2, <1>3, <2>1
  <2>3. s = r /\ l \in 1 .. m + (j - Len(b)) - 1
    <3>1. q[j][1] = r /\ q[j][2] = m + (j - Len(b))
      BY <2>2
    <3> QED
      BY <1>1, <1>3, <1>4, <2>1, <3>1 DEF m
  <2>4. CASE l <= m
    <3>1. <<r, l>> \in Kept
      BY <1>1, <2>3, <2>4 DEF OnceInv, m
    <3>2. CASE <<r, l>> \in Buffered
      <4>1. PICK p \in Recorders : <<r, l>> \in ToSet(buffer[p])
        BY <3>2 DEF Buffered
      <4>2. p = RecorderOf(r)
        <5>1. RecorderOf(<<r, l>>[1]) = p
          BY <4>1 DEF HomeInv
        <5> QED
          BY <5>1
      <4>3. PICK i \in 1 .. Len(b) : b[i] = <<r, l>>
        BY <1>3, <4>1, <4>2 DEF ToSet, b
      <4>4. i \in 1 .. j - 1 /\ q[i] = <<s, l>>
        BY <1>3, <1>6, <2>1, <2>3, <4>3
      <4> QED
        BY <4>4
    <3> QED
      BY <2>3, <3>1, <3>2 DEF Kept, Pending, Gone
  <2>5. CASE ~ l <= m
    <3> DEFINE i == l - m
    <3>1. i \in 1 .. n /\ Len(b) + i \in 1 .. j - 1 /\ m + i = l
      BY <1>1, <1>3, <2>1, <2>3, <2>5
    <3>2. q[Len(b) + i] = <<s, l>>
      BY <1>2, <1>3, <2>3, <3>1
    <3> QED
      BY <3>1, <3>2
  <2> QED
    BY <2>4, <2>5
<1> QED
  BY <1>5, <1>6

(* Who is orderly and busy has lost nothing and holds nothing of its own:   *)
(* what it emitted before the first event of its queue is stored.           *)
LEMMA FirstIsNext ==
  ASSUME RecorderInv, HomeInv, NEW r \in Runs, call[r].phase \in {"idle", "stored"},
         NEW s \in Runs, s = r \/ wiring.storage = "memory", Orderly(s), InOrder(s),
         NEW q \in Seq(Event), q # <<>>, Ahead(s, q), Head(q)[1] = s
  PROVE  \A n \in 1 .. Head(q)[2] - 1 : <<s, n>> \in ToSet(stored)
<1>1. 1 \in DOMAIN q /\ Head(q) = q[1]
  OBVIOUS
<1>2. \A n \in 1 .. Head(q)[2] - 1 : <<s, n>> \in Gone
  BY <1>1 DEF Ahead
<1>3. wiring \in Wiring
  BY DEF RecorderInv, RecorderTypeOK
<1>4. \A n : <<s, n>> \notin lost
  BY <1>3 DEF HomeInv, InOrder, Wiring
<1>5. ASSUME NEW n, <<s, n>> \in InFlight PROVE FALSE
  <2>1. PICK t \in Runs : call[t].phase = "storing" /\ call[t].holding = <<s, n>>
    BY <1>5 DEF InFlight
  <2>2. RecorderOf(<<s, n>>[1]) = RecorderOf(t) /\ wiring.storage # "memory"
    BY <2>1 DEF HomeInv
  <2>3. RecorderOf(s) = RecorderOf(t) /\ s = r
    BY <2>2
  <2> QED
    BY <2>1, <2>2, <2>3 DEF Orderly
<1> QED
  BY <1>2, <1>4, <1>5 DEF Gone

LEMMA HandOverOrder ==
  ASSUME RecorderAssumption, OrderInv, NEW r \in Runs, NEW n \in Nat, NEW c \in Call,
         call[r].phase \in {"idle", "stored"}, c.emitted = call[r].emitted + n,
         c.emitted <= MaxEvents, Queue(r, n) # <<>>, HandOver(r, c, Queue(r, n)),
         c.acked = call[r].acked, c.batch \subseteq ToSet(Batch(r, n)) \cup call[r].batch,
         UNCHANGED <<wiring, closed, lost>>
  PROVE  OrderInv'
<1>q. PICK q, k, e : q = Queue(r, n) /\ k = RecorderOf(r) /\ e = Head(q)
  OBVIOUS
<1> DEFINE es == ToSet(Batch(r, n))
           m  == call[r].emitted
<1>0. /\ RecorderInv /\ HomeInv /\ OnceInv /\ BufferHasAKeeper
      /\ \A s \in Runs : Orderly(s) => InOrder(s)
  BY DEF OrderInv
<1>1. /\ k \in Recorders /\ e \in Event /\ es \subseteq Event /\ q \in Seq(Event)
      /\ es \cap Kept = {}
      /\ \A f \in es : f[1] = r /\ f[2] <= m + n
      /\ Tail(q) \in Seq(Event) /\ e \in ToSet(q)
      /\ ToSet(q) = ToSet(buffer[k]) \cup es /\ ToSet(Tail(q)) = ToSet(q) \ {e}
  BY <1>0, <1>q, HandOverFacts
<1>2. /\ buffer' = [buffer EXCEPT ![k] = Tail(q)] /\ lost' = lost /\ wiring' = wiring
      /\ Buffered' = (Buffered \cup es) \ {e}
      /\ e \notin InFlight /\ e \in Buffered \cup es
  BY <1>0, <1>q, HandOverFacts
<1>3. /\ \A s \in Runs \ {r} : call'[s] = call[s]
      /\ call'[r].emitted = m + n /\ call'[r].holding = e
      /\ call'[r].batch \subseteq es \cup call[r].batch /\ call'[r].acked = call[r].acked
      /\ call'[r].phase = IF wiring.storage = "memory" THEN "stored" ELSE "storing"
  BY <1>0, <1>q, HandOverFacts
<1>4. /\ InFlight' = IF wiring.storage = "memory" THEN InFlight ELSE InFlight \cup {e}
      /\ stored' = IF wiring.storage = "memory" THEN Append(stored, e) ELSE stored
      /\ ToSet(stored') = IF wiring.storage = "memory" THEN ToSet(stored) \cup {e}
                                                       ELSE ToSet(stored)
  BY <1>0, <1>q, HandOverFacts
<1>5. RecorderInv'
  BY <1>0, HandOverStep
<1>6. /\ m \in Nat /\ stored \in Seq(Event) /\ wiring \in Wiring /\ q # <<>>
      /\ \A s \in Runs : RecorderOf(s) \in Recorders /\ RecorderOf(s)' = RecorderOf(s)
                         /\ call[s].emitted \in Nat
      /\ buffer \in [Recorders -> Seq(Event)]
  BY <1>0, <1>2, <1>q DEF RecorderInv, RecorderTypeOK, Wiring, RecorderOf, Call
<1>7. \A f \in ToSet(q) : RecorderOf(f[1]) = k
  BY <1>0, <1>1, <1>q DEF HomeInv
<1>8. \A s \in Runs, l \in 1 .. n : s = r => <<r, m + l>> \in es
  BY DEF Batch, ToSet
<1>queue. \A s \in Runs : RecorderOf(s) = k /\ Orderly(s) => Ahead(s, q)
  BY <1>0, <1>q, QueueInOrder DEF InOrder
<1> HIDE DEF es, m
<1>9. HomeInv'
  <2>1. \A p \in Recorders : \A f \in ToSet(buffer'[p]) : RecorderOf(f[1])' = p
    <3>1. TAKE p \in Recorders
    <3>2. TAKE f \in ToSet(buffer'[p])
    <3>3. CASE p = k
      <4>1. f \in ToSet(q) /\ f \in Event
        BY <1>0, <1>1, <1>2, <1>6, <3>2, <3>3 DEF ToSet
      <4>2. RecorderOf(f[1])' = RecorderOf(f[1])
        BY <1>2 DEF RecorderOf
      <4> QED
        BY <1>7, <3>3, <4>1, <4>2
    <3>4. CASE p # k
      <4>1. f \in ToSet(buffer[p]) /\ RecorderOf(f[1])' = RecorderOf(f[1])
        BY <1>2, <1>6, <3>2, <3>4 DEF RecorderOf
      <4> QED
        BY <1>0, <4>1 DEF HomeInv
    <3> QED
      BY <3>3, <3>4
  <2>2. ASSUME NEW s \in Runs, call'[s].phase = "storing"
        PROVE  RecorderOf(call[s].holding[1])' = RecorderOf(s)' \/ s = r
    <3>1. \A x : RecorderOf(x)' = RecorderOf(x)
      BY <1>2 DEF RecorderOf
    <3> QED
      BY <1>0, <1>3, <2>2, <3>1 DEF HomeInv
  <2>3. RecorderOf(e[1])' = RecorderOf(r)'
    <3>1. \A x : RecorderOf(x)' = RecorderOf(x)
      BY <1>2 DEF RecorderOf
    <3> QED
      BY <1>q, <1>1, <1>7, <3>1
  <2>4. \A s \in Runs : call'[s].phase = "storing" =>
          RecorderOf(call[s].holding[1])' = RecorderOf(s)'
    <3>1. \A s \in Runs : call'[s].phase = "storing" /\ s # r =>
            RecorderOf(call[s].holding[1])' = RecorderOf(s)'
      BY <2>2
    <3>2. RecorderOf(call[r].holding[1])' = RecorderOf(r)'
      BY <1>3, <2>3 DEF RecorderOf
    <3> QED
      BY <3>1, <3>2
  <2>5. wiring'.storage = "memory" => lost' = {} /\ \A s \in Runs : call'[s].phase # "storing"
    BY <1>0, <1>2, <1>3 DEF HomeInv
  <2> QED
    BY <2>1, <2>4, <2>5 DEF HomeInv
<1>10. e \notin ToSet(stored)
  BY <1>0, <1>1, <1>2 DEF OnceInv, Kept, Pending
<1>11. Kept' = Kept \cup es
  BY <1>1, <1>2, <1>4, <1>10 DEF Kept, Pending
<1>12. OnceInv'
  <2>1. IsInjective(stored')
    BY <1>0, <1>1, <1>4, <1>6, <1>10, AppendOnce DEF OnceInv
  <2>2. ToSet(stored') \cap Pending' = {}
    BY <1>0, <1>1, <1>2, <1>4, <1>10 DEF OnceInv, Kept, Pending
  <2>3. \A s \in Runs : \A l \in 1 .. call'[s].emitted : <<s, l>> \in Kept'
    <3>1. TAKE s \in Runs
    <3>2. TAKE l \in 1 .. call'[s].emitted
    <3>3. CASE s # r \/ l <= m
      BY <1>0, <1>3, <1>6, <1>11, <3>2, <3>3 DEF OnceInv, m
    <3>4. CASE s = r /\ ~ l <= m
      <4>1. l - m \in 1 .. n /\ m + (l - m) = l
        BY <1>3, <1>6, <3>2, <3>4
      <4> QED
        BY <1>8, <1>11, <3>4, <4>1
    <3> QED
      BY <3>3, <3>4
  <2>4. \A s \in Runs : \A f \in call'[s].batch \cup call'[s].acked :
          f[1] = s /\ f[2] <= call'[s].emitted
    <3>1. TAKE s \in Runs
    <3>2. TAKE f \in call'[s].batch \cup call'[s].acked
    <3>3. CASE s # r
      BY <1>0, <1>3, <3>2, <3>3 DEF OnceInv
    <3>4. CASE s = r /\ f \in es
      BY <1>1, <1>3, <3>4
    <3>5. CASE s = r /\ f \notin es
      <4>1. f \in call[r].batch \cup call[r].acked
        BY <1>3, <3>2, <3>5
      <4>2. call[r] \in Call
        BY <1>0 DEF RecorderInv, RecorderTypeOK
      <4>3. f[1] = r /\ f[2] <= m /\ f[2] \in Nat
        BY <1>0, <4>1, <4>2 DEF OnceInv, Call, Event, m
      <4> QED
        BY <1>3, <1>6, <3>5, <4>3
    <3> QED
      BY <3>3, <3>4, <3>5
  <2> QED
    BY <2>1, <2>2, <2>3, <2>4 DEF OnceInv
<1>13. BufferHasAKeeper'
  <2>1. \A p \in Recorders \ {k} : buffer'[p] = buffer[p]
    BY <1>2, <1>6
  <2>2. RecorderOf(r)' = k /\ call'[r].phase \in {"storing", "stored", "failed"}
    BY <1>q, <1>3, <1>6
  <2>3. \A p \in Recorders \ {k} : buffer[p] # <<>> =>
          \E s \in Runs : RecorderOf(s) = p /\ call[s].phase \in {"storing", "stored", "failed"}
                          /\ s # r
    BY <1>q, <1>0 DEF BufferHasAKeeper
  <2>4. ASSUME NEW p \in Recorders, buffer'[p] # <<>>
        PROVE  \E s \in Runs :
                 RecorderOf(s)' = p /\ call'[s].phase \in {"storing", "stored", "failed"}
    <3>1. CASE p = k
      BY <2>2, <3>1
    <3>2. CASE p # k
      <4>1. PICK s \in Runs : /\ RecorderOf(s) = p /\ s # r
                              /\ call[s].phase \in {"storing", "stored", "failed"}
        BY <2>1, <2>3, <2>4, <3>2
      <4> QED
        BY <1>3, <1>6, <4>1
    <3> QED
      BY <3>1, <3>2
  <2> QED
    BY <2>4 DEF BufferHasAKeeper
<1>14. ASSUME NEW s \in Runs, Orderly(s) PROVE InOrder(s)'
  <2>0. InOrder(s)
    BY <1>0, <1>14
  <2>1. CASE RecorderOf(s) # k
    <3>1. s # r /\ buffer'[RecorderOf(s)] = buffer[RecorderOf(s)] /\ call'[s] = call[s]
      BY <1>q, <1>2, <1>3, <1>6, <2>1
    <3>2. e[1] # s
      BY <1>1, <1>7, <2>1
    <3>3. Gone \subseteq Gone' /\ ToSet(stored) \subseteq ToSet(stored')
      BY <1>2, <1>4 DEF Gone
    <3>4. RunOrder(s)'
      <4>1. CASE stored' = stored
        <5>1. RunOrder(s)
          BY <2>0 DEF InOrder
        <5> QED
          BY <4>1, <5>1, SameOrder
      <4>2. CASE stored' = Append(stored, e)
        BY <1>1, <1>6, <1>10, <2>0, <3>2, <4>2, AppendInOrder DEF InOrder
      <4> QED
        BY <1>4, <4>1, <4>2
    <3>5. Ahead(s, buffer[RecorderOf(s)])'
      BY <1>6, <2>0, <3>1, <3>3 DEF InOrder, Ahead
    <3> QED
      BY <1>2, <1>6, <2>0, <3>1, <3>3, <3>4, <3>5 DEF InOrder
  <2>2. CASE RecorderOf(s) = k
    <3>1. s = r \/ wiring.storage = "memory"
      BY <1>q, <1>14, <2>2 DEF Orderly
    <3>2. Ahead(s, q)
      BY <1>14, <1>queue, <2>2
    <3>3. e[1] = s => \A l \in 1 .. e[2] - 1 : <<s, l>> \in ToSet(stored)
      BY <1>0, <1>1, <1>6, <1>14, <2>0, <3>1, <3>2, <1>q, FirstIsNext
    <3>4. RunOrder(s)'
      <4>1. CASE stored' = stored
        <5>1. RunOrder(s)
          BY <2>0 DEF InOrder
        <5> QED
          BY <4>1, <5>1, SameOrder
      <4>2. CASE stored' = Append(stored, e)
        BY <1>1, <1>6, <1>10, <2>0, <3>3, <4>2, AppendInOrder DEF InOrder
      <4> QED
        BY <1>4, <4>1, <4>2
    <3>5. Gone \cup {e} \subseteq Gone' /\ ToSet(stored) \subseteq ToSet(stored')
      BY <1>2, <1>4 DEF Gone
    <3>6. Ahead(s, Tail(q))'
      <4>1. /\ Len(q) \in Nat \ {0} /\ DOMAIN q = 1 .. Len(q)
            /\ DOMAIN Tail(q) = 1 .. Len(q) - 1 /\ e = q[1]
            /\ \A i \in 1 .. Len(q) - 1 : Tail(q)[i] = q[i + 1]
        BY <1>1, <1>6, <1>q
      <4> DEFINE w == Tail(q)
      <4>2. SUFFICES ASSUME NEW j \in 1 .. Len(q) - 1, w[j][1] = s,
                            NEW l \in 1 .. w[j][2] - 1, <<s, l>> \notin Gone'
                     PROVE  \E i \in 1 .. j - 1 : w[i] = <<s, l>>
        BY <4>1 DEF Ahead
      <4>3. j + 1 \in DOMAIN q /\ q[j + 1] = w[j] /\ <<s, l>> \notin Gone /\ <<s, l>> # e
        BY <3>5, <4>1, <4>2
      <4>4. PICK i \in 1 .. j : q[i] = <<s, l>>
        <5>1. l \in 1 .. q[j + 1][2] - 1 /\ q[j + 1][1] = s /\ (j + 1) - 1 = j
          BY <4>1, <4>2, <4>3
        <5> QED
          BY <3>2, <4>3, <5>1 DEF Ahead
      <4>5. i # 1 /\ i - 1 \in 1 .. j - 1 /\ w[i - 1] = q[i]
        <5>1. i # 1
          BY <4>1, <4>3, <4>4
        <5>2. i - 1 \in 1 .. j - 1 /\ i - 1 \in 1 .. Len(q) - 1 /\ (i - 1) + 1 = i
          BY <4>1, <5>1
        <5> QED
          BY <4>1, <5>1, <5>2
      <4> QED
        BY <4>4, <4>5
    <3>7. Ahead(s, buffer[RecorderOf(s)])'
      <4>1. buffer'[RecorderOf(s)'] = Tail(q)
        BY <1>1, <1>2, <1>6, <2>2
      <4> QED
        BY <3>6, <4>1 DEF Ahead
    <3>8. call'[s].phase = "storing" =>
            \A l \in 1 .. call'[s].holding[2] - 1 : <<s, l>> \in ToSet(stored')
      <4>1. CASE wiring.storage = "memory"
        BY <1>0, <1>3, <4>1 DEF HomeInv
      <4>2. CASE wiring.storage # "memory"
        <5>1. s = r /\ RecorderOf(e[1]) = RecorderOf(r) /\ e[1] \in Runs
          BY <1>q, <1>1, <1>7, <3>1, <4>2 DEF Event
        <5>2. e[1] = s
          BY <1>14, <4>2, <5>1 DEF Orderly
        <5> QED
          BY <1>3, <3>3, <3>5, <5>1, <5>2
      <4> QED
        BY <4>1, <4>2
    <3>9. (\E f \in lost' : f[1] = s) => call'[s].phase = "failed"
      BY <1>0, <1>2, <1>3, <2>0, <3>1 DEF InOrder, HomeInv
    <3>10. call'[s].acked \subseteq ToSet(stored')
      BY <1>3, <2>0, <3>5 DEF InOrder
    <3> QED
      BY <3>4, <3>7, <3>8, <3>9, <3>10 DEF InOrder
  <2> QED
    BY <2>1, <2>2
<1>15. \A s \in Runs : Orderly(s)' <=> Orderly(s)
  BY <1>2 DEF Orderly, RecorderOf
<1> QED
  BY <1>5, <1>9, <1>12, <1>13, <1>14, <1>15 DEF OrderInv

(* The storage has answered for the event that r handed it.                 *)
LEMMA SettledOrder ==
  ASSUME RecorderAssumption, OrderInv, NEW r \in Runs, call[r].phase = "storing",
         UNCHANGED <<wiring, buffer, closed>>, call' \in [Runs -> Call],
         \A s \in Runs \ {r} : call'[s] = call[s],
         call'[r].emitted = call[r].emitted, call'[r].batch = call[r].batch,
         call'[r].acked = call[r].acked, call'[r].phase \in {"stored", "failed"},
         \/ stored' = Append(stored, call[r].holding) /\ lost' = lost
         \/ /\ stored' = stored /\ lost' = lost \cup {call[r].holding}
            /\ call'[r].phase = "failed"
  PROVE  OrderInv'
<1>h. PICK h : h = call[r].holding
  OBVIOUS
<1>0. /\ RecorderInv /\ HomeInv /\ OnceInv /\ BufferHasAKeeper
      /\ \A s \in Runs : Orderly(s) => InOrder(s)
  BY DEF OrderInv
<1>1. /\ h \in Event /\ h \in InFlight /\ h \in Pending /\ stored \in Seq(Event)
      /\ lost \in SUBSET Event /\ \A s \in Runs : call[s] \in Call
  BY <1>0, <1>h DEF RecorderInv, RecorderTypeOK, NoneIsTwice, InFlight, Pending
<1>2. /\ h \notin ToSet(stored) /\ Append(stored, h) \in Seq(Event)
      /\ ToSet(Append(stored, h)) = ToSet(stored) \cup {h}
  BY <1>0, <1>1, AppendToSet DEF OnceInv
<1>3. /\ stored' \in Seq(Event) /\ lost' \in SUBSET Event
      /\ ToSet(stored') \cup lost' = ToSet(stored) \cup lost \cup {h}
      /\ ToSet(stored) \subseteq ToSet(stored') /\ ToSet(stored') \subseteq ToSet(stored) \cup {h}
  BY <1>h, <1>1, <1>2
<1>4. /\ RecorderInv' /\ Pending' = Pending \ {h} /\ Kept' = Kept
      /\ InFlight' = InFlight \ {h}
  BY <1>0, <1>h, <1>3, LeavesFlight
<1>5. Gone' = Gone
  BY <1>1, <1>3, <1>4 DEF Gone
<1>6. /\ \A x : RecorderOf(x)' = RecorderOf(x)
      /\ \A s \in Runs : Orderly(s)' <=> Orderly(s)
  BY DEF RecorderOf, Orderly
<1>7. \A s \in Runs : h[1] = s /\ Orderly(s) => s = r
  BY <1>0, <1>h DEF HomeInv, Orderly
<1>8. HomeInv'
  <2>1. \A s \in Runs : call'[s].phase = "storing" =>
          RecorderOf(call[s].holding[1])' = RecorderOf(s)'
    BY <1>0 DEF HomeInv, RecorderOf
  <2>2. \A p \in Recorders : \A f \in ToSet(buffer'[p]) : RecorderOf(f[1])' = p
    BY <1>0, <1>6 DEF HomeInv
  <2>3. wiring'.storage # "memory"
    BY <1>0 DEF HomeInv
  <2> QED
    BY <2>1, <2>2, <2>3 DEF HomeInv
<1>9. OnceInv'
  <2>1. IsInjective(stored')
    <3>1. IsInjective(stored) /\ IsInjective(Append(stored, h))
      BY <1>0, <1>1, <1>2, AppendOnce DEF OnceInv
    <3> QED
      BY <1>h, <3>1
  <2>2. ToSet(stored') \cap Pending' = {}
    BY <1>0, <1>3, <1>4 DEF OnceInv
  <2>3. \A s \in Runs : /\ call'[s].emitted = call[s].emitted
                        /\ call'[s].batch = call[s].batch /\ call'[s].acked = call[s].acked
    OBVIOUS
  <2> QED
    BY <1>0, <1>4, <2>1, <2>2, <2>3 DEF OnceInv
<1>10. BufferHasAKeeper'
  <2>1. \A s \in Runs : call[s].phase \in {"storing", "stored", "failed"} =>
                          call'[s].phase \in {"storing", "stored", "failed"}
    OBVIOUS
  <2> QED
    BY <1>0, <1>6, <2>1 DEF BufferHasAKeeper
<1>11. ASSUME NEW s \in Runs, Orderly(s) PROVE InOrder(s)'
  <2>0. InOrder(s)
    BY <1>0, <1>11
  <2>1. Ahead(s, buffer[RecorderOf(s)])'
    BY <1>5, <2>0, SameAhead DEF InOrder
  <2>2. call'[s].phase = "storing" =>
          \A n \in 1 .. call'[s].holding[2] - 1 : <<s, n>> \in ToSet(stored')
    BY <1>3, <2>0 DEF InOrder
  <2>3. (\E f \in lost' : f[1] = s) => call'[s].phase = "failed"
    <3>1. CASE \E f \in lost : f[1] = s
      BY <2>0, <3>1 DEF InOrder
    <3>2. CASE lost' = lost \cup {h} /\ h[1] = s /\ call'[r].phase = "failed"
      BY <1>7, <1>11, <3>2
    <3> QED
      BY <1>h, <3>1, <3>2
  <2>4. call'[s].acked \subseteq ToSet(stored')
    <3>1. call'[s].acked = call[s].acked
      OBVIOUS
    <3> QED
      BY <1>3, <2>0, <3>1 DEF InOrder
  <2>5. RunOrder(s)'
    <3>0. RunOrder(s)
      BY <2>0 DEF InOrder
    <3>1. CASE stored' = stored
      BY <3>0, <3>1, SameOrder
    <3>2. CASE stored' = Append(stored, h)
      <4>1. h[1] = s => \A n \in 1 .. h[2] - 1 : <<s, n>> \in ToSet(stored)
        BY <1>h, <1>7, <1>11, <2>0 DEF InOrder
      <4> QED
        BY <1>1, <1>2, <3>0, <3>2, <4>1, AppendInOrder
    <3> QED
      BY <1>h, <3>1, <3>2
  <2> QED
    BY <2>1, <2>2, <2>3, <2>4, <2>5 DEF InOrder
<1> QED
  BY <1>4, <1>6, <1>8, <1>9, <1>10, <1>11 DEF OrderInv

(* Steps that move no event.                                                *)
LEMMA QuietOrder ==
  ASSUME OrderInv, UNCHANGED <<wiring, buffer, stored, lost>>,
         call' \in [Runs -> Call], closed' \in [Recorders -> BOOLEAN],
         \A s \in Runs :
           /\ call'[s].emitted = call[s].emitted
           /\ call'[s].phase = "storing" <=> call[s].phase = "storing"
           /\ call[s].phase = "storing" => call'[s].holding = call[s].holding
           /\ call[s].phase = "failed" => call'[s].phase = "failed"
           /\ call[s].phase = "stored" /\ call'[s].phase # "stored" =>
                buffer[RecorderOf(s)] = <<>>
           /\ call'[s].batch \cup call'[s].acked \subseteq call[s].batch \cup call[s].acked
           /\ Orderly(s) => call'[s].acked \subseteq ToSet(stored)
  PROVE  OrderInv'
<1>0. /\ RecorderInv /\ HomeInv /\ OnceInv /\ BufferHasAKeeper
      /\ \A s \in Runs : Orderly(s) => InOrder(s)
  BY DEF OrderInv
<1>1. RecorderInv'
  BY <1>0, QuietStep
<1>2. InFlight' = InFlight /\ Buffered' = Buffered
  BY DEF InFlight, Buffered
<1>3. Gone' = Gone /\ Kept' = Kept /\ Pending' = Pending
  BY <1>2 DEF Gone, Kept, Pending
<1>4. /\ \A x : RecorderOf(x)' = RecorderOf(x)
      /\ \A s \in Runs : Orderly(s)' <=> Orderly(s)
  BY DEF RecorderOf, Orderly
<1>5. HomeInv'
  <2>1. \A s \in Runs : call'[s].phase = "storing" =>
          RecorderOf(call[s].holding[1])' = RecorderOf(s)'
    BY <1>0 DEF HomeInv, RecorderOf
  <2>2. \A p \in Recorders : \A f \in ToSet(buffer'[p]) : RecorderOf(f[1])' = p
    BY <1>0, <1>4 DEF HomeInv
  <2>3. wiring'.storage = "memory" => lost' = {} /\ \A s \in Runs : call'[s].phase # "storing"
    BY <1>0 DEF HomeInv
  <2> QED
    BY <2>1, <2>2, <2>3 DEF HomeInv
<1>6. OnceInv'
  <2>1. \A s \in Runs : \A f \in call'[s].batch \cup call'[s].acked :
          f[1] = s /\ f[2] <= call'[s].emitted
    BY <1>0 DEF OnceInv
  <2> QED
    BY <1>0, <1>3, <2>1 DEF OnceInv
<1>7. BufferHasAKeeper'
  <2>1. SUFFICES ASSUME NEW q \in Recorders, buffer[q] # <<>>
        PROVE  \E s \in Runs : RecorderOf(s) = q
                               /\ call'[s].phase \in {"storing", "stored", "failed"}
    BY <1>4 DEF BufferHasAKeeper
  <2>2. PICK s \in Runs : RecorderOf(s) = q
                          /\ call[s].phase \in {"storing", "stored", "failed"}
    BY <1>0, <2>1 DEF BufferHasAKeeper
  <2>3. call'[s].phase \in {"storing", "stored", "failed"}
    BY <2>1, <2>2
  <2> QED
    BY <2>2, <2>3
<1>8. ASSUME NEW s \in Runs, Orderly(s) PROVE InOrder(s)'
  <2>0. InOrder(s)
    BY <1>0, <1>8
  <2>1. Ahead(s, buffer[RecorderOf(s)])'
    BY <1>3, <2>0, SameAhead DEF InOrder
  <2>2. call'[s].phase = "storing" =>
          \A n \in 1 .. call'[s].holding[2] - 1 : <<s, n>> \in ToSet(stored')
    BY <2>0 DEF InOrder
  <2>3. (\E f \in lost' : f[1] = s) => call'[s].phase = "failed"
    BY <2>0 DEF InOrder
  <2>4. call'[s].acked \subseteq ToSet(stored')
    BY <1>8
  <2>5. RunOrder(s)'
    BY <2>0, SameOrder DEF InOrder
  <2> QED
    BY <2>1, <2>2, <2>3, <2>4, <2>5 DEF InOrder
<1> QED
  BY <1>1, <1>4, <1>5, <1>6, <1>7, <1>8 DEF OrderInv

(* A call that finds nothing left to write returns: all its run emitted is  *)
(* in storage, if nobody else can hold it.                                  *)
LEMMA SettleOrder ==
  ASSUME OrderInv, NEW r \in Runs, NEW c \in Call, Settle(r, c),
         call[r].phase \in {"idle", "stored"}, buffer[RecorderOf(r)] = <<>>,
         c.emitted = call[r].emitted, c.acked = call[r].acked, c.batch \subseteq call[r].batch,
         UNCHANGED <<wiring, closed, lost>>
  PROVE  OrderInv'
<1>0. /\ RecorderInv /\ HomeInv /\ OnceInv /\ call \in [Runs -> Call] /\ wiring \in Wiring
      /\ closed \in [Recorders -> BOOLEAN]
      /\ \A s \in Runs : Orderly(s) => InOrder(s)
  BY DEF OrderInv, RecorderInv, RecorderTypeOK
<1>1. ASSUME Orderly(r), NEW f \in call[r].batch PROVE f \in ToSet(stored)
  <2>1. f = <<r, f[2]>> /\ f[2] \in 1 .. call[r].emitted
    <3>1. f \in Event /\ f[1] = r /\ f[2] <= call[r].emitted /\ call[r].emitted \in Nat
      BY <1>0, <1>1 DEF Call, OnceInv
    <3> QED
      BY <3>1 DEF Event
  <2>2. f \in Kept
    BY <1>0, <2>1 DEF OnceInv
  <2>3. f \notin Buffered
    <3>1. ASSUME NEW p \in Recorders, f \in ToSet(buffer[p]) PROVE FALSE
      <4>1. RecorderOf(r) = p
        BY <1>0, <2>1, <3>1 DEF HomeInv
      <4> QED
        BY <3>1, <4>1 DEF ToSet
    <3> QED
      BY <3>1 DEF Buffered
  <2>4. f \notin lost
    BY <1>0, <1>1, <2>1 DEF InOrder
  <2>5. ASSUME f \in InFlight PROVE FALSE
    <3>1. PICK t \in Runs : call[t].phase = "storing" /\ call[t].holding = f
      BY <2>5 DEF InFlight
    <3>2. RecorderOf(r) = RecorderOf(t) /\ wiring.storage # "memory" /\ t # r
      BY <1>0, <2>1, <3>1 DEF HomeInv
    <3> QED
      BY <1>1, <3>2 DEF Orderly
  <2> QED
    BY <2>2, <2>3, <2>4, <2>5 DEF Kept, Pending
<1>2. PICK p \in {"closing", "idle"} :
        call' = [call EXCEPT ![r] = [c EXCEPT !.phase = p, !.holding = Nothing, !.batch = {},
                                              !.acked = @ \cup c.batch]]
  BY DEF Settle
<1> DEFINE d == [c EXCEPT !.phase = p, !.holding = Nothing, !.batch = {},
                          !.acked = @ \cup c.batch]
<1>3. /\ d \in Call /\ d.phase = p /\ d.emitted = call[r].emitted /\ d.batch = {}
      /\ d.acked = call[r].acked \cup c.batch
  BY DEF Call, Phases
<1> HIDE DEF d
<1>4. call' \in [Runs -> Call] /\ call'[r] = d /\ \A s \in Runs \ {r} : call'[s] = call[s]
  BY <1>0, <1>2, <1>3 DEF d
<1>5. Orderly(r) => d.acked \subseteq ToSet(stored)
  BY <1>0, <1>1, <1>3 DEF InOrder
<1>6. UNCHANGED <<wiring, buffer, stored, lost>> /\ closed' \in [Recorders -> BOOLEAN]
  BY <1>0 DEF Settle
<1>7. ASSUME NEW s \in Runs
      PROVE  /\ call'[s].emitted = call[s].emitted
             /\ call'[s].phase = "storing" <=> call[s].phase = "storing"
             /\ call[s].phase = "storing" => call'[s].holding = call[s].holding
             /\ call[s].phase = "failed" => call'[s].phase = "failed"
             /\ call[s].phase = "stored" /\ call'[s].phase # "stored" =>
                  buffer[RecorderOf(s)] = <<>>
             /\ call'[s].batch \cup call'[s].acked \subseteq call[s].batch \cup call[s].acked
             /\ Orderly(s) => call'[s].acked \subseteq ToSet(stored)
  <2>1. CASE s = r
    BY <1>2, <1>3, <1>4, <1>5, <2>1
  <2>2. CASE s # r
    BY <1>0, <1>4, <2>2 DEF InOrder
  <2> QED
    BY <2>1, <2>2
<1> QED
  BY <1>4, <1>6, <1>7, QuietOrder

LEMMA OrderBegins ==
  ASSUME RecorderAssumption, RecorderInit PROVE OrderInv
<1>1. PICK w \in Wiring : Wired(w)
  BY DEF RecorderInit
<1>2. /\ \A q \in Recorders : buffer[q] = <<>> /\ ToSet(buffer[q]) = {}
      /\ stored = <<>> /\ lost = {} /\ ToSet(stored) = {} /\ DOMAIN stored = {}
      /\ \A r \in Runs : /\ call[r].phase = "idle" /\ call[r].emitted = 0
                         /\ call[r].batch = {} /\ call[r].acked = {}
  BY <1>1 DEF Wired, ToSet
<1>3. RecorderInv
  BY RecorderBegins
<1>4. \A r \in Runs : RecorderOf(r) \in Recorders
  BY <1>3 DEF RecorderInv, RecorderTypeOK, Wiring, RecorderOf
<1>5. HomeInv /\ BufferHasAKeeper
  BY <1>2 DEF HomeInv, BufferHasAKeeper
<1>6. OnceInv
  BY <1>2 DEF OnceInv, IsInjective
<1>7. \A r \in Runs : InOrder(r)
  BY <1>2, <1>4 DEF InOrder, Ahead, RunOrder
<1> QED
  BY <1>3, <1>5, <1>6, <1>7 DEF OrderInv

LEMMA OrderSteps ==
  ASSUME RecorderAssumption, OrderInv, [RecorderNext]_recorderVars
  PROVE  OrderInv'
<1>1. /\ RecorderInv /\ call \in [Runs -> Call] /\ closed \in [Recorders -> BOOLEAN]
      /\ MaxEvents \in Nat
      /\ \A r \in Runs : RecorderOf(r) \in Recorders /\ buffer[RecorderOf(r)] \in Seq(Event)
      /\ \A r \in Runs : Orderly(r) => call[r].acked \subseteq ToSet(stored)
  BY DEF RecorderAssumption, OrderInv, RecorderInv, RecorderTypeOK, Wiring, RecorderOf, InOrder
<1>2. ASSUME NEW r \in Runs, NEW op \in {"append", "flush", "close"}, NEW n \in Nat,
             call[r].emitted + n <= MaxEvents
      PROVE  /\ Begun(r, op, n) \in Call /\ Begun(r, op, n).emitted = call[r].emitted + n
             /\ Begun(r, op, n).acked = call[r].acked
             /\ Begun(r, op, n).batch = ToSet(Batch(r, n))
  <2>1. ToSet(Batch(r, n)) \in SUBSET Event
    BY <1>1, <1>2, BatchIsNew DEF ToSet
  <2>2. call[r] \in Call /\ call[r].emitted + n \in 0 .. MaxEvents
    BY <1>1, <1>2 DEF Call
  <2> QED
    BY <2>1, <2>2 DEF Begun, Call
<1>3. \A r \in Runs : /\ call[r] \in Call /\ call[r].emitted <= MaxEvents
                      /\ call[r].emitted \in Nat /\ call[r].emitted + 0 = call[r].emitted
                      /\ Batch(r, 0) = <<>> /\ Queue(r, 0) = buffer[RecorderOf(r)]
                      /\ ToSet(Batch(r, 0)) = {}
  BY <1>1 DEF Batch, Queue, Call, ToSet
<1>4. ASSUME NEW r \in Runs, NEW n \in 1 .. MaxBatch, AppendEvents(r, n) PROVE OrderInv'
  <2>1. n \in Nat /\ n >= 1
    BY DEF RecorderAssumption
  <2>2. Queue(r, n) # <<>>
    <3>1. RecorderInv /\ call[r].emitted + n <= MaxEvents
      BY <1>1, <1>4 DEF AppendEvents
    <3>2. Batch(r, n) \in Seq(Event)
      BY <2>1, <3>1, BatchIsNew
    <3>3. Len(Batch(r, n)) = n
      BY <2>1 DEF Batch
    <3> QED
      BY <1>1, <2>1, <3>2, <3>3 DEF Queue
  <2>3. /\ call[r].phase = "idle" /\ call[r].emitted + n <= MaxEvents
        /\ HandOver(r, Begun(r, "append", n), Queue(r, n))
        /\ UNCHANGED <<wiring, closed, lost>>
    BY <1>4 DEF AppendEvents, Queue
  <2> QED
    BY <1>2, <2>1, <2>2, <2>3, HandOverOrder
<1>5. ASSUME NEW r \in Runs, NEW op \in {"flush", "close"}, WorkOff(r, op) PROVE OrderInv'
  <2>1. /\ call[r].phase = "idle" /\ Queue(r, 0) # <<>>
        /\ HandOver(r, Begun(r, op, 0), Queue(r, 0))
        /\ UNCHANGED <<wiring, closed, lost>>
    BY <1>3, <1>5 DEF WorkOff, Idle
  <2> QED
    BY <1>2, <1>3, <2>1, HandOverOrder
<1>6. ASSUME NEW r \in Runs, CloseEmpty(r) PROVE OrderInv'
  <2>1. /\ call[r].phase = "idle" /\ buffer[RecorderOf(r)] = <<>>
        /\ Settle(r, Begun(r, "close", 0)) /\ UNCHANGED <<wiring, closed, lost>>
    BY <1>6 DEF CloseEmpty, Idle
  <2>2. /\ Begun(r, "close", 0) \in Call /\ Begun(r, "close", 0).emitted = call[r].emitted
        /\ Begun(r, "close", 0).acked = call[r].acked
        /\ Begun(r, "close", 0).batch \subseteq call[r].batch
    BY <1>2, <1>3
  <2> QED
    BY <2>1, <2>2, SettleOrder
<1>7. ASSUME NEW r \in Runs, ContinueFlush(r) PROVE OrderInv'
  <2>1. call[r].phase = "stored" /\ UNCHANGED <<wiring, closed, lost>>
    BY <1>7 DEF ContinueFlush
  <2>2. CASE Queue(r, 0) # <<>> /\ HandOver(r, call[r], Queue(r, 0))
    BY <1>3, <2>1, <2>2, HandOverOrder
  <2>3. CASE buffer[RecorderOf(r)] = <<>> /\ Settle(r, call[r])
    BY <1>3, <2>1, <2>3, SettleOrder
  <2> QED
    BY <1>3, <1>7, <2>2, <2>3 DEF ContinueFlush
<1>8. ASSUME NEW r \in Runs, WriteLine(r) \/ RejectLine(r) PROVE OrderInv'
  <2>1. PICK p \in {"stored", "failed"}, h \in {call[r].holding, Nothing} :
          /\ call' = [call EXCEPT ![r] = [call[r] EXCEPT !.phase = p, !.holding = h]]
          /\ RejectLine(r) => p = "failed"
    <3>1. CASE WriteLine(r)
      <4>1. call[r] = [call[r] EXCEPT !.holding = call[r].holding]
        BY <1>3 DEF Call
      <4>2. call' = [call EXCEPT ![r] = [call[r] EXCEPT !.phase = "stored",
                                                        !.holding = call[r].holding]]
        BY <1>3, <3>1 DEF WriteLine, Call
      <4>3. RejectLine(r) => FALSE
        BY <1>1, <1>3, <3>1 DEF WriteLine, RejectLine, Call
      <4> QED
        BY <4>2, <4>3
    <3>2. CASE RejectLine(r)
      BY <1>1, <3>2 DEF RejectLine
    <3> QED
      BY <1>8, <3>1, <3>2
  <2> DEFINE d == [call[r] EXCEPT !.phase = p, !.holding = h]
  <2>2. /\ d \in Call /\ d.phase = p /\ d.emitted = call[r].emitted
        /\ d.batch = call[r].batch /\ d.acked = call[r].acked
    BY <1>3 DEF Call, Phases
  <2> HIDE DEF d
  <2>3. call' \in [Runs -> Call] /\ call'[r] = d /\ \A s \in Runs \ {r} : call'[s] = call[s]
    BY <1>1, <2>1, <2>2 DEF d
  <2>4. /\ call[r].phase = "storing" /\ UNCHANGED <<wiring, buffer, closed>>
        /\ \/ stored' = Append(stored, call[r].holding) /\ lost' = lost
           \/ /\ stored' = stored /\ lost' = lost \cup {call[r].holding}
              /\ RejectLine(r)
    BY <1>8 DEF WriteLine, RejectLine
  <2> QED
    BY <2>1, <2>2, <2>3, <2>4, SettledOrder
<1>9. ASSUME NEW r \in Runs, RefuseAppend(r) \/ MarkClosed(r) PROVE OrderInv'
  <2>1. PICK p \in {"failed", "idle"} :
          /\ call' = [call EXCEPT ![r] = [call[r] EXCEPT !.phase = p]]
          /\ call[r].phase \in {"idle", "closing"}
    BY <1>9 DEF RefuseAppend, MarkClosed
  <2> DEFINE d == [call[r] EXCEPT !.phase = p]
  <2>2. /\ d \in Call /\ d.phase = p /\ d.emitted = call[r].emitted
        /\ d.batch = call[r].batch /\ d.acked = call[r].acked
    BY <1>3 DEF Call, Phases
  <2> HIDE DEF d
  <2>3. call' \in [Runs -> Call] /\ call'[r] = d /\ \A s \in Runs \ {r} : call'[s] = call[s]
    BY <1>1, <2>1, <2>2 DEF d
  <2>4. UNCHANGED <<wiring, buffer, stored, lost>> /\ closed' \in [Recorders -> BOOLEAN]
    BY <1>1, <1>9 DEF RefuseAppend, MarkClosed
  <2> QED
    BY <1>1, <2>1, <2>2, <2>3, <2>4, QuietOrder
<1>10. CASE UNCHANGED recorderVars
  BY <1>1, <1>10, QuietOrder DEF recorderVars
<1> QED
  BY <1>4, <1>5, <1>6, <1>7, <1>8, <1>9, <1>10 DEF RecorderNext, Settling

(* For any runs, recorders and batches: what was acknowledged is stored and *)
(* the stored events of a run are its first ones in order, unless the run   *)
(* shares its recorder over files; no buffered event is without a call that *)
(* works it off or a caller that was told of the failure; and the recorder  *)
(* keeps the log EventLog promises.                                         *)
THEOREM EventsAlwaysKept ==
  ASSUME RecorderAssumption PROVE RecorderSpec => EventsAreKept
<1>1. RecorderInit => OrderInv
  BY OrderBegins
<1>2. OrderInv /\ [RecorderNext]_recorderVars => OrderInv'
  BY OrderSteps
<1>3. OrderInv => AcknowledgedIsStored /\ StoredInRunOrder /\ BufferHasAKeeper
  BY DEF OrderInv, InOrder, AcknowledgedIsStored, StoredInRunOrder
<1> QED
  BY <1>1, <1>2, <1>3, RecorderKeepsLog, PTL DEF RecorderSpec, EventsAreKept

-----------------------------------------------------------------------------
(* Sets of numbers below a bound have a least and a greatest element.       *)
LEMMA LeastExists ==
  ASSUME NEW S \in SUBSET Nat, S # {}
  PROVE  \E i \in S : \A j \in S : i <= j
<1> DEFINE R == OpToRel(<, Nat)
<1>1. IsWellFoundedOn(R, Nat)
  BY NatLessThanWellFounded
<1> HIDE DEF R
<1>2. PICK i \in S : \A j \in S : ~ (<<j, i>> \in R)
  BY <1>1, WFMin
<1>3. ASSUME NEW j \in S PROVE i <= j
  <2>1. ~ (j < i)
    BY <1>2 DEF R, OpToRel
  <2> QED
    BY <2>1
<1> QED
  BY <1>3

LEMMA GreatestExists ==
  ASSUME NEW n \in Nat, NEW S, S \subseteq 0 .. n, S # {}
  PROVE  \E i \in S : \A j \in S : j <= i
<1> DEFINE D == {n - i : i \in S}
<1>1. \A i \in S : n - i \in Nat /\ n - i \in D
  OBVIOUS
<1>2. \A x \in D : \E i \in S : x = n - i
  OBVIOUS
<1>3. D \in SUBSET Nat /\ D # {}
  BY <1>1, <1>2
<1> HIDE DEF D
<1>4. PICK x \in D : \A y \in D : x <= y
  BY <1>3, LeastExists
<1>5. PICK i \in S : x = n - i
  BY <1>2
<1>6. \A j \in S : n - i <= n - j
  BY <1>1, <1>4, <1>5
<1> QED
  BY <1>6

-----------------------------------------------------------------------------
(* SnapshotStore: for any processes, snapshots and ticks.                    *)

(* A map in memory is written by one process, whose clock goes on.          *)
MemoryInv ==
  medium = "memory" =>
    /\ ~ torn /\ kept \subseteq ToSet(content)
    /\ \A p \in Owners : reading[p] = Unread
    /\ \A i \in DOMAIN content :
         content[i].ts <= clock /\ content[i].no <= taken[content[i].run]
    /\ \A i, j \in DOMAIN content : i < j =>
         /\ content[i].ts <= content[j].ts
         /\ content[i].run = content[j].run => content[i].no <= content[j].no

(* What a save has read of the file was all there was, but for what was     *)
(* written since.                                                           *)
ReadInv ==
  \A p \in Owners : reading[p] # Unread =>
    taken[p] < MaxSnapshots /\ kept \ ToSet(reading[p]) \subseteq raced

StoreInv ==
  StoreTypeOK /\ MemoryInv /\ ReadInv /\ (torn => content = <<>>) /\ KeptUnlessRaced

(* A snapshot more at the end.                                              *)
LEMMA SavedAtEnd ==
  ASSUME NEW q \in Seq(Snapshot), NEW s \in Snapshot
  PROVE  /\ Append(q, s) \in Seq(Snapshot) /\ ToSet(Append(q, s)) = ToSet(q) \cup {s}
         /\ DOMAIN q = 1 .. Len(q) /\ DOMAIN Append(q, s) = 1 .. Len(q) + 1 /\ Len(q) \in Nat
         /\ \A i \in 1 .. Len(q) : Append(q, s)[i] = q[i]
         /\ Append(q, s)[Len(q) + 1] = s
<1> DEFINE l == Append(q, s)
<1>1. /\ l \in Seq(Snapshot)
      /\ DOMAIN q = 1 .. Len(q) /\ DOMAIN l = 1 .. Len(q) + 1 /\ Len(q) \in Nat
      /\ \A i \in 1 .. Len(q) : l[i] = q[i]
      /\ l[Len(q) + 1] = s
  OBVIOUS
<1> HIDE DEF l
<1>2. ToSet(l) = ToSet(q) \cup {s}
  BY <1>1 DEF ToSet
<1> QED
  BY <1>1, <1>2 DEF l

(* An opened store is empty.                                                *)
LEMMA StoreStarts == StoreInit => StoreInv
<1> SUFFICES ASSUME StoreInit PROVE StoreInv
  OBVIOUS
<1>1. StoreTypeOK
  <2>1. PICK m \in {"memory", "file"} : Opened(m)
    BY DEF StoreInit
  <2>2. reading \in [Owners -> Seq(Snapshot) \cup {Unread}] /\ content \in Seq(Snapshot)
    BY <2>1 DEF Opened
  <2>3. medium \in {"memory", "file"} /\ torn \in BOOLEAN /\ clock = 0 /\ kept = {} /\ raced = {}
    BY <2>1 DEF Opened
  <2>4. taken \in [Owners -> 0 .. MaxSnapshots]
    BY <2>1, StoreAssumption DEF Opened
  <2> QED
    BY <2>2, <2>3, <2>4, StoreAssumption DEF StoreTypeOK
<1>2. MemoryInv /\ ReadInv /\ KeptUnlessRaced /\ ~ torn
  BY DEF StoreInit, Opened, MemoryInv, ReadInv, KeptUnlessRaced
<1> QED
  BY <1>1, <1>2 DEF StoreInv

(* The map of the memory store keeps all, in order.                         *)
LEMMA SaveKeeps ==
  ASSUME StoreInv, NEW p \in Owners, SaveInMemory(p)
  PROVE  StoreInv'
<1> DEFINE s == NextSnapshot(p)
<1>1. /\ s \in Snapshot /\ s.run = p /\ s.ts = clock /\ s.no = taken[p] + 1
      /\ clock \in Nat /\ taken[p] \in Nat
  BY StoreAssumption DEF StoreInv, StoreTypeOK, SaveInMemory, MayTake, NextSnapshot, Snapshot
<1>2. /\ medium = "memory" /\ content' = Append(content, s) /\ kept' = kept \cup {s}
      /\ taken' = [taken EXCEPT ![p] = @ + 1] /\ taken[p] < MaxSnapshots
      /\ UNCHANGED <<medium, torn, clock, reading, raced>>
  BY DEF SaveInMemory, MayTake
<1> HIDE DEF s
<1>3. /\ content' \in Seq(Snapshot) /\ ToSet(content') = ToSet(content) \cup {s}
      /\ DOMAIN content = 1 .. Len(content) /\ DOMAIN content' = 1 .. Len(content) + 1
      /\ Len(content) \in Nat
      /\ \A i \in 1 .. Len(content) : content'[i] = content[i]
      /\ content'[Len(content) + 1] = s
  BY <1>1, <1>2, SavedAtEnd DEF StoreInv, StoreTypeOK
<1>4. \A q \in Owners : taken'[q] = IF q = p THEN taken[p] + 1 ELSE taken[q]
  BY <1>2 DEF StoreInv, StoreTypeOK
<1>5. StoreTypeOK'
  <2>1. taken' \in [Owners -> 0 .. MaxSnapshots]
    BY <1>1, <1>2, StoreAssumption DEF StoreInv, StoreTypeOK
  <2> QED
    BY <1>1, <1>2, <1>3, <2>1 DEF StoreInv, StoreTypeOK
<1>6. \A i \in DOMAIN content :
        /\ content[i] \in Snapshot /\ content[i].run \in Owners /\ content[i].ts \in Nat
        /\ content[i].no \in Nat /\ taken[content[i].run] \in Nat
        /\ content[i].ts <= clock /\ content[i].no <= taken[content[i].run]
  <2>1. \A i \in DOMAIN content : content[i] \in Snapshot
    BY <1>3 DEF StoreInv, StoreTypeOK
  <2>2. \A i \in DOMAIN content :
          content[i].ts <= clock /\ content[i].no <= taken[content[i].run]
    BY <1>2 DEF StoreInv, MemoryInv
  <2>3. \A q \in Owners : taken[q] \in Nat
    BY StoreAssumption DEF StoreInv, StoreTypeOK
  <2> QED
    BY <2>1, <2>2, <2>3, StoreAssumption DEF Snapshot
<1>7. MemoryInv'
  <2>1. ~ torn' /\ kept' \subseteq ToSet(content') /\ \A q \in Owners : reading'[q] = Unread
    BY <1>2, <1>3 DEF StoreInv, MemoryInv
  <2>2. \A i \in DOMAIN content' :
          content'[i].ts <= clock' /\ content'[i].no <= taken'[content'[i].run]
    <3> SUFFICES ASSUME NEW i \in DOMAIN content'
                 PROVE  content'[i].ts <= clock' /\ content'[i].no <= taken'[content'[i].run]
      OBVIOUS
    <3>1. CASE i = Len(content) + 1
      BY <1>1, <1>2, <1>3, <1>4, <3>1
    <3>2. CASE i # Len(content) + 1
      BY <1>1, <1>2, <1>3, <1>4, <1>6, <3>2
    <3> QED
      BY <3>1, <3>2
  <2>3. \A i, j \in DOMAIN content' : i < j =>
          /\ content'[i].ts <= content'[j].ts
          /\ content'[i].run = content'[j].run => content'[i].no <= content'[j].no
    <3> SUFFICES ASSUME NEW i \in DOMAIN content', NEW j \in DOMAIN content', i < j
                 PROVE  /\ content'[i].ts <= content'[j].ts
                        /\ content'[i].run = content'[j].run =>
                             content'[i].no <= content'[j].no
      OBVIOUS
    <3>1. i \in DOMAIN content /\ content'[i] = content[i]
      BY <1>3
    <3>2. CASE j = Len(content) + 1
      BY <1>1, <1>3, <1>6, <3>1, <3>2
    <3>3. CASE j # Len(content) + 1
      <4>1. j \in DOMAIN content /\ content'[j] = content[j]
        BY <1>3, <3>3
      <4> QED
        BY <1>2, <3>1, <4>1 DEF StoreInv, MemoryInv
    <3> QED
      BY <3>2, <3>3
  <2> QED
    BY <2>1, <2>2, <2>3 DEF MemoryInv
<1>8. ReadInv'
  BY <1>2 DEF StoreInv, MemoryInv, ReadInv
<1>9. ~ torn' /\ KeptUnlessRaced'
  BY <1>2, <1>3 DEF StoreInv, MemoryInv, KeptUnlessRaced
<1> QED
  BY <1>5, <1>7, <1>8, <1>9 DEF StoreInv

(* A save reads all the file holds.                                         *)
LEMMA ReadKeeps ==
  ASSUME StoreInv, NEW p \in Owners, ReadFile(p)
  PROVE  StoreInv'
<1>1. /\ medium = "file" /\ taken[p] < MaxSnapshots /\ ~ torn
      /\ reading' = [reading EXCEPT ![p] = content]
      /\ UNCHANGED <<medium, content, torn, clock, taken, kept, raced>>
  BY DEF ReadFile, MayTake
<1>2. StoreTypeOK'
  BY <1>1 DEF StoreInv, StoreTypeOK
<1>3. \A q \in Owners : reading'[q] = IF q = p THEN content ELSE reading[q]
  BY <1>1 DEF StoreInv, StoreTypeOK
<1>4. ReadInv'
  BY <1>1, <1>3 DEF StoreInv, ReadInv, KeptUnlessRaced
<1>5. MemoryInv' /\ KeptUnlessRaced'
  BY <1>1 DEF StoreInv, MemoryInv, KeptUnlessRaced
<1> QED
  BY <1>1, <1>2, <1>4, <1>5 DEF StoreInv

(* What another save had not read when this one was written, it loses.      *)
LEMMA WriteKeeps ==
  ASSUME StoreInv, NEW p \in Owners, WriteFile(p)
  PROVE  StoreInv'
<1> DEFINE s == NextSnapshot(p)
<1>1. /\ reading[p] # Unread /\ content' = Append(reading[p], s) /\ torn' = FALSE
      /\ taken' = [taken EXCEPT ![p] = @ + 1] /\ reading' = [reading EXCEPT ![p] = Unread]
      /\ kept' = kept \cup {s} /\ UNCHANGED <<medium, clock>>
      /\ raced' = IF Others(p) = {} THEN raced ELSE raced \cup {s}
  BY DEF WriteFile
<1>2. /\ medium = "file" /\ taken[p] < MaxSnapshots
      /\ kept \ ToSet(reading[p]) \subseteq raced
      /\ reading[p] \in Seq(Snapshot) /\ medium' = medium
  BY <1>1 DEF StoreInv, MemoryInv, ReadInv, StoreTypeOK
<1>3. s \in Snapshot
  BY <1>2, StoreAssumption DEF StoreInv, StoreTypeOK, NextSnapshot, Snapshot
<1> HIDE DEF s
<1>4. content' \in Seq(Snapshot) /\ ToSet(content') = ToSet(reading[p]) \cup {s}
  BY <1>1, <1>2, <1>3, SavedAtEnd
<1>5. StoreTypeOK'
  <2>1. taken' \in [Owners -> 0 .. MaxSnapshots]
    BY <1>1, <1>2, StoreAssumption DEF StoreInv, StoreTypeOK
  <2> QED
    BY <1>1, <1>2, <1>3, <1>4, <2>1 DEF StoreInv, StoreTypeOK
<1>6. ReadInv'
  <2> SUFFICES ASSUME NEW q \in Owners, reading'[q] # Unread
               PROVE  taken'[q] < MaxSnapshots /\ kept' \ ToSet(reading'[q]) \subseteq raced'
    BY DEF ReadInv
  <2>1. q # p /\ reading'[q] = reading[q] /\ taken'[q] = taken[q]
    BY <1>1 DEF StoreInv, StoreTypeOK
  <2>2. q \in Others(p)
    BY <2>1 DEF Others
  <2>3. taken[q] < MaxSnapshots /\ kept \ ToSet(reading[q]) \subseteq raced
    BY <2>1 DEF StoreInv, ReadInv
  <2> QED
    BY <1>1, <2>1, <2>2, <2>3
<1>7. MemoryInv' /\ KeptUnlessRaced'
  BY <1>1, <1>2, <1>4 DEF MemoryInv, KeptUnlessRaced
<1> QED
  BY <1>1, <1>5, <1>6, <1>7 DEF StoreInv

(* A process that dies writing leaves a file nobody can read.               *)
LEMMA DyingKeeps ==
  ASSUME StoreInv, NEW p \in Owners, DieWriting(p)
  PROVE  StoreInv'
<1>1. /\ reading[p] # Unread /\ content' = <<>> /\ torn' = TRUE
      /\ reading' = [reading EXCEPT ![p] = Unread]
      /\ taken' = [taken EXCEPT ![p] = MaxSnapshots]
      /\ UNCHANGED <<medium, clock, kept, raced>>
  BY DEF DieWriting
<1>2. medium = "file"
  BY <1>1 DEF StoreInv, MemoryInv, StoreTypeOK
<1>3. StoreTypeOK'
  BY <1>1, StoreAssumption DEF StoreInv, StoreTypeOK
<1>4. ReadInv'
  BY <1>1 DEF StoreInv, StoreTypeOK, ReadInv
<1> QED
  BY <1>1, <1>2, <1>3, <1>4 DEF StoreInv, MemoryInv, KeptUnlessRaced

LEMMA TickKeeps == ASSUME StoreInv, Tick PROVE StoreInv'
<1>1. clock \in Nat /\ clock' = clock + 1 /\ clock' \in 0 .. MaxTicks
      /\ UNCHANGED <<medium, content, torn, reading, taken, kept, raced>>
  BY StoreAssumption DEF StoreInv, StoreTypeOK, Tick
<1>2. StoreTypeOK' /\ ReadInv' /\ KeptUnlessRaced'
  BY <1>1 DEF StoreInv, StoreTypeOK, ReadInv, KeptUnlessRaced
<1>3. MemoryInv'
  <2>1. \A i \in DOMAIN content : content[i].ts \in Nat
    <3>1. \A i \in DOMAIN content : content[i] \in Snapshot
      BY DEF StoreInv, StoreTypeOK
    <3> QED
      BY <3>1, StoreAssumption DEF Snapshot
  <2> QED
    BY <1>1, <2>1 DEF StoreInv, MemoryInv
<1> QED
  BY <1>1, <1>2, <1>3 DEF StoreInv

(* The comparator puts one snapshot of a run before all the others.         *)
LEMMA LatestIsFirst ==
  ASSUME StoreInv, NEW r, OfRun(r) # {}
  PROVE  \E k \in OfRun(r) : /\ LatestByRun(r) = content[k]
                             /\ \A j \in OfRun(r) \ {k} : SortsBefore(content[k], k, content[j], j)
<1> DEFINE S == OfRun(r)
           T == {content[i].ts : i \in S}
<1>1. S \subseteq 1 .. Len(content) /\ Len(content) \in Nat /\ S # {}
      /\ \A i \in S : content[i].ts \in 0 .. MaxTicks
  <2>1. content \in Seq(Snapshot)
    BY DEF StoreInv, StoreTypeOK
  <2>2. \A i \in DOMAIN content : content[i] \in Snapshot
    BY <2>1
  <2> QED
    BY <2>1, <2>2 DEF OfRun, Snapshot
<1>2. T \subseteq 0 .. MaxTicks /\ T # {}
  BY <1>1
<1>3. PICK t \in T : \A u \in T : u <= t
  BY <1>2, GreatestExists, StoreAssumption
<1> DEFINE I == {i \in S : content[i].ts = t}
<1>4. I \subseteq S /\ I # {} /\ \A i \in S : content[i].ts <= t
  BY <1>3
<1>5. \A i \in I : content[i].ts = t
  OBVIOUS
<1>6. \A i \in S \ I : content[i].ts < t
  BY <1>1, <1>2, <1>4
<1> HIDE DEF T, I
<1>7. PICK k \in I : \A j \in I \ {k} : IF medium = "memory" THEN k > j ELSE k < j
  <2>1. CASE medium = "memory"
    <3>1. I \subseteq 0 .. Len(content)
      BY <1>1, <1>4
    <3>2. PICK k \in I : \A j \in I : j <= k
      BY <1>1, <1>4, <3>1, GreatestExists
    <3> QED
      BY <1>1, <1>4, <2>1, <3>2
  <2>2. CASE medium # "memory"
    <3>1. PICK k \in I : \A j \in I : k <= j
      BY <1>1, <1>4, LeastExists
    <3> QED
      BY <1>1, <1>4, <2>2, <3>1
  <2> QED
    BY <2>1, <2>2
<1>8. k \in S /\ \A j \in S \ {k} : SortsBefore(content[k], k, content[j], j)
  BY <1>4, <1>5, <1>6, <1>7 DEF SortsBefore
<1> DEFINE f == CHOOSE i \in S : \A j \in S \ {i} : SortsBefore(content[i], i, content[j], j)
<1>9. f \in S /\ \A j \in S \ {f} : SortsBefore(content[f], f, content[j], j)
  BY <1>8
<1> QED
  BY <1>9 DEF LatestByRun

(* That snapshot is as recent as any that is kept.                          *)
LEMMA KeptIsNoNewer == StoreInv => LatestIsRecent
<1> SUFFICES ASSUME StoreInv, NEW r \in Owners, OfRun(r) # {},
                    NEW s \in kept \ raced, s.run = r
             PROVE  /\ s.ts <= LatestByRun(r).ts
                    /\ medium = "memory" => s.no <= LatestByRun(r).no
  BY DEF LatestIsRecent
<1>1. content \in Seq(Snapshot) /\ ~ torn
  BY DEF StoreInv, StoreTypeOK, OfRun
<1>2. PICK i \in DOMAIN content : content[i] = s
  BY <1>1 DEF StoreInv, KeptUnlessRaced, ToSet
<1>3. i \in OfRun(r)
  BY <1>2 DEF OfRun
<1>4. PICK k \in OfRun(r) :
        /\ LatestByRun(r) = content[k]
        /\ \A j \in OfRun(r) \ {k} : SortsBefore(content[k], k, content[j], j)
  BY LatestIsFirst
<1>5. k \in DOMAIN content /\ i \in Nat /\ k \in Nat /\ content[k].run = r
  BY <1>1, <1>4 DEF OfRun
<1>6. content[i] \in Snapshot /\ content[k] \in Snapshot
  BY <1>1, <1>5
<1>7. /\ content[i].ts \in Nat /\ content[k].ts \in Nat
      /\ content[i].no \in Nat /\ content[k].no \in Nat
  BY <1>6 DEF Snapshot
<1>8. CASE i = k
  BY <1>2, <1>4, <1>7, <1>8
<1>9. CASE i # k
  <2>1. SortsBefore(content[k], k, content[i], i)
    BY <1>3, <1>4, <1>9
  <2>2. content[i].ts <= content[k].ts
    BY <1>7, <2>1 DEF SortsBefore
  <2>3. ASSUME medium = "memory" PROVE content[i].no <= content[k].no
    <3>1. CASE i < k
      BY <1>2, <1>5, <2>3, <3>1 DEF StoreInv, MemoryInv
    <3>2. CASE k < i
      <4>1. content[k].ts <= content[i].ts
        BY <1>5, <2>3, <3>2 DEF StoreInv, MemoryInv
      <4> QED
        BY <1>5, <1>7, <2>1, <2>3, <3>2, <4>1 DEF SortsBefore
    <3> QED
      BY <1>5, <1>9, <3>1, <3>2
  <2> QED
    BY <1>2, <1>4, <2>2, <2>3
<1> QED
  BY <1>8, <1>9

(* Every step keeps it.                                                     *)
LEMMA StoreSteps == StoreInv /\ [StoreNext]_storeVars => StoreInv'
<1> SUFFICES ASSUME StoreInv, [StoreNext]_storeVars PROVE StoreInv'
  OBVIOUS
<1>1. CASE StoreNext
  BY <1>1, SaveKeeps, ReadKeeps, WriteKeeps, DyingKeeps, TickKeeps DEF StoreNext
<1>2. CASE UNCHANGED storeVars
  BY <1>2 DEF storeVars, StoreInv, StoreTypeOK, MemoryInv, ReadInv, KeptUnlessRaced
<1> QED
  BY <1>1, <1>2

(* For any processes and any number of saves: the latest snapshot is of the *)
(* newest tick there is, and a save that returned is lost only to one that  *)
(* raced it or to a process that died writing (snapshot-store.ts).          *)
THEOREM SnapshotsAreAlwaysKept == StoreSpec => []SnapshotsAreKept
<1>1. StoreInv => SnapshotsAreKept
  BY KeptIsNoNewer DEF SnapshotsAreKept, StoreInv
<1> QED
  BY <1>1, StoreSteps, StoreStarts, PTL DEF StoreSpec

-----------------------------------------------------------------------------
(* SkillCalls: for any skills, actions, attempts and edits.                  *)

(* What an attempt knows and has done at each step of its way.              *)
Stage(at) ==
  /\ at.step \in {"resolve", "load"} => at.effect = "none" /\ at.manifest = Absent
  /\ at.step = "resolve" => at.found = Absent
  /\ at.step \in {"load", "import", "running"} => at.found \in SkillDirs
  /\ at.step \in {"resolve", "load", "import", "running"} <=> at.answer = Absent
  /\ at.step \in {"import", "running"} => at.manifest # Absent /\ at.manifest.fits
  /\ at.effect # "none" =>
       /\ at.manifest # Absent /\ at.manifest.fits
       /\ at.answer # Absent => at.answer.inputValidated
  /\ at.manifest # Absent => at.found \in SkillDirs
  /\ at.found \in SkillDirs /\ at.action.place = Absent => at.bearers \in {{at.found}, {}}

(* The directory the files on disk give for an action, and what is there.   *)
Dirs(a) == IF Bearers(Registry, a.name) # {} THEN Bearers(Registry, a.name)
           ELSE Bearers(SearchPath, a.name)
Where(a) ==
  IF a.place # Absent THEN a.place
  ELSE IF Dirs(a) = {} \/ \E d, e \in Dirs(a) : d # e THEN Absent
  ELSE CHOOSE d \in Dirs(a) : TRUE

(* While nobody edits the files, what an attempt found is what is there.    *)
Undisturbed(at) ==
  /\ at.step # "resolve" => at.found = Where(at.action)
  /\ at.manifest # Absent => at.manifest = disk[at.found]
  /\ at.step \in {"over", "heard"} /\ at.manifest = Absent =>
       at.found = Absent \/ disk[at.found] = Absent
  /\ at.effect # "none" => at.effect = at.manifest.sideEffect

(* The class the executor goes by after the first n attempts of a list.     *)
Heard(at, c) == at.call = c /\ at.step = "heard" /\ at.manifest # Absent
ClassAt(list, c, a, n) ==
  IF \E i \in 1 .. n : Heard(list[i], c) THEN disk[Where(a)].sideEffect ELSE a.declared

SkillTypes ==
  /\ disk \in [SkillDirs -> Skills \cup {Absent}]
  /\ evaluated \in [SkillDirs -> {"read", "external", Absent}]
  /\ attempts \in Seq(AttemptType)
  /\ sideEffect \in Believed /\ edits \in Nat /\ awaited \in BOOLEAN
  /\ awaited => attempts # <<>>

(* Calls follow one another, each of one action.                            *)
CallsInv ==
  \A i, j \in DOMAIN attempts :
    /\ i <= j => attempts[i].call <= attempts[j].call
    /\ attempts[i].call = attempts[j].call => attempts[i].action = attempts[j].action

StagesInv == \A i \in DOMAIN attempts : Stage(attempts[i])

(* Without edits: what a process imported is what is on disk, and every     *)
(* attempt was counted by what the executor had been told before.           *)
UneditedInv ==
  edits = 0 =>
    /\ \A d \in SkillDirs : evaluated[d] # Absent =>
         disk[d] # Absent /\ evaluated[d] = disk[d].sideEffect
    /\ \A i \in DOMAIN attempts :
         /\ Undisturbed(attempts[i])
         /\ attempts[i].believed = ClassAt(attempts, attempts[i].call, attempts[i].action, i - 1)
    /\ attempts # <<>> =>
         LET last == attempts[Len(attempts)]
         IN  sideEffect = ClassAt(attempts, last.call, last.action, Len(attempts))

SkillInv == SkillTypes /\ CallsInv /\ StagesInv /\ UneditedInv

LEMMA AttemptsAre ==
  ASSUME SkillTypes
  PROVE  /\ DOMAIN attempts = 1 .. Len(attempts) /\ Len(attempts) \in Nat
         /\ \A i \in DOMAIN attempts : attempts[i] \in AttemptType
         /\ attempts # <<>> => Len(attempts) \in DOMAIN attempts
BY DEF SkillTypes

(* Nothing was attempted at first.                                          *)
LEMMA SkillsStart == SkillInit => SkillInv
<1> SUFFICES ASSUME SkillInit PROVE SkillInv
  OBVIOUS
<1>1. SkillTypes
  <2>1. disk \in [SkillDirs -> Skills \cup {Absent}]
    BY FilesAssumption DEF SkillInit
  <2>2. evaluated \in [SkillDirs -> {"read", "external", Absent}] /\ attempts \in Seq(AttemptType)
    BY DEF SkillInit
  <2> QED
    BY <2>1, <2>2 DEF SkillInit, SkillTypes, Believed
<1> QED
  BY <1>1 DEF SkillInit, SkillInv, CallsInv, StagesInv, UneditedInv

(* Files that were edited bind nothing.                                     *)
LEMMA EditKeeps ==
  ASSUME SkillInv, NEW d \in SkillDirs, NEW s \in SkillFiles \cup {Absent}, Edit(d, s)
  PROVE  SkillInv'
<1>1. /\ disk' = [disk EXCEPT ![d] = s] /\ edits' = edits + 1
      /\ UNCHANGED <<evaluated, attempts, awaited, sideEffect>>
  BY DEF Edit
<1>2. SkillTypes' /\ edits' # 0
  BY <1>1, FilesAssumption DEF SkillInv, SkillTypes
<1> QED
  BY <1>1, <1>2 DEF SkillInv, CallsInv, StagesInv, UneditedInv

(* An attempt goes a step on.                                               *)
LEMMA MoveKeeps ==
  ASSUME SkillInv, NEW i \in DOMAIN attempts, NEW rec \in AttemptType, Moves(i, rec),
         attempts[i].step # "heard", rec.step # "heard",
         rec.call = attempts[i].call, rec.action = attempts[i].action,
         rec.believed = attempts[i].believed, Stage(rec),
         edits = 0 => Undisturbed(rec),
         evaluated' \in [SkillDirs -> {"read", "external", Absent}],
         edits = 0 => \A d \in SkillDirs : evaluated'[d] # Absent =>
                        disk[d] # Absent /\ evaluated'[d] = disk[d].sideEffect
  PROVE  SkillInv'
<1> DEFINE n == Len(attempts)
<1>1. /\ attempts' = [attempts EXCEPT ![i] = rec]
      /\ UNCHANGED <<disk, awaited, sideEffect, edits>>
  BY DEF Moves
<1>2. /\ attempts' \in Seq(AttemptType) /\ Len(attempts') = n /\ n \in Nat
      /\ DOMAIN attempts' = DOMAIN attempts /\ DOMAIN attempts = 1 .. n
      /\ \A j \in DOMAIN attempts : attempts'[j] = IF j = i THEN rec ELSE attempts[j]
  BY <1>1, AttemptsAre DEF SkillInv, SkillTypes
<1>3. SkillTypes'
  BY <1>1, <1>2 DEF SkillInv, SkillTypes
<1>4. \A j \in DOMAIN attempts :
        /\ attempts'[j].call = attempts[j].call /\ attempts'[j].action = attempts[j].action
        /\ attempts'[j].believed = attempts[j].believed
  BY <1>2
<1>5. CallsInv'
  BY <1>2, <1>4 DEF SkillInv, CallsInv
<1>6. StagesInv'
  BY <1>2 DEF SkillInv, StagesInv
<1>7. \A j \in DOMAIN attempts : \A c : Heard(attempts'[j], c) <=> Heard(attempts[j], c)
  BY <1>2 DEF Heard
<1>8. ASSUME NEW c, NEW a, NEW m \in 0 .. n
      PROVE  ClassAt(attempts, c, a, m)' = ClassAt(attempts, c, a, m)
  <2>1. \A d : disk'[d] = disk[d]
    BY <1>1
  <2>2. Where(a)' = Where(a)
    BY <1>1 DEF Where, Dirs, Bearers
  <2>3. 1 .. m \subseteq DOMAIN attempts
    BY <1>2
  <2> QED
    BY <1>1, <1>7, <2>2, <2>3 DEF ClassAt
<1>9. UneditedInv'
  <2> SUFFICES ASSUME edits = 0 PROVE UneditedInv'
    BY <1>1 DEF UneditedInv
  <2>1. \A d \in SkillDirs : evaluated'[d] # Absent =>
          disk'[d] # Absent /\ evaluated'[d] = disk'[d].sideEffect
    BY <1>1
  <2>2. ASSUME NEW j \in DOMAIN attempts PROVE Undisturbed(attempts[j])'
    <3>1. Undisturbed(attempts'[j])
      BY <1>2, <2>2 DEF SkillInv, UneditedInv
    <3> QED
      BY <1>1, <3>1 DEF Undisturbed, Where, Dirs, Bearers
  <2>3. ASSUME NEW j \in DOMAIN attempts
        PROVE  attempts'[j].believed
                 = ClassAt(attempts, attempts[j].call, attempts[j].action, j - 1)'
    <3>1. j - 1 \in 0 .. n
      BY <1>2
    <3>2. attempts[j].believed
            = ClassAt(attempts, attempts[j].call, attempts[j].action, j - 1)
      BY DEF SkillInv, UneditedInv
    <3> QED
      BY <1>4, <1>8, <3>1, <3>2
  <2>4. ASSUME attempts # <<>>
        PROVE  sideEffect' = ClassAt(attempts, attempts[n].call, attempts[n].action, n)'
    <3>1. sideEffect = ClassAt(attempts, attempts[n].call, attempts[n].action, n)
      BY <2>4 DEF SkillInv, UneditedInv
    <3>2. n \in DOMAIN attempts /\ n \in 0 .. n
      BY <1>2, <2>4, AttemptsAre DEF SkillInv
    <3>3. n' = n
      BY <1>2
    <3>4. ASSUME NEW c, NEW a PROVE ClassAt(attempts, c, a, n)' = ClassAt(attempts, c, a, n)
      <4>1. ClassAt(attempts, c, a, n)' = ClassAt(attempts, c, a, n')
        BY <1>8, <3>2, <3>3
      <4> QED
        BY <3>3, <4>1
    <3>5. /\ (attempts[n])'.call = attempts[n].call /\ (attempts[n])'.action = attempts[n].action
      BY <1>4, <3>2, <3>3
    <3> QED
      BY <1>1, <3>1, <3>4, <3>5
  <2>5. attempts' # <<>> => attempts # <<>>
    BY <1>2
  <2> QED
    BY <1>1, <1>2, <2>1, <2>2, <2>3, <2>4, <2>5 DEF UneditedInv
<1> QED
  BY <1>3, <1>5, <1>6, <1>9 DEF SkillInv

(* What an answer leaves of its attempt.                                    *)
AnsweredOf(rec, at, validated) ==
  /\ rec \in AttemptType /\ rec.step = "over" /\ rec.answer # Absent
  /\ rec.answer.inputValidated = validated
  /\ rec.call = at.call /\ rec.action = at.action /\ rec.believed = at.believed
  /\ rec.found = at.found /\ rec.bearers = at.bearers /\ rec.manifest = at.manifest
  /\ rec.effect = at.effect

LEMMA AnswersAre ==
  ASSUME NEW at \in AttemptType, NEW ok \in BOOLEAN, NEW validated \in BOOLEAN,
         NEW code \in Codes
  PROVE  AnsweredOf(Answers(at, ok, validated, code), at, validated)
<1> DEFINE sees == [ok |-> ok, inputValidated |-> validated, code |-> code]
           rec == [at EXCEPT !.step = "over", !.answer = sees]
<1>1. sees \in Answer /\ sees # Absent /\ sees.inputValidated = validated
  BY FilesAssumption DEF Answer
<1> HIDE DEF sees
<1>2. AnsweredOf(rec, at, validated)
  BY <1>1 DEF AttemptType, AnsweredOf
<1> QED
  BY <1>2 DEF Answers, sees

LEMMA FinishKeeps ==
  ASSUME SkillInv, NEW i \in DOMAIN attempts, NEW o \in SkillOutcomes, FinishSkill(i, o)
  PROVE  SkillInv'
<1> DEFINE at == attempts[i]
           rec == Answers(at, o = "ok", TRUE, o)
<1>1. at \in AttemptType /\ at.step = "running" /\ evaluated' = evaluated /\ Moves(i, rec)
  BY AttemptsAre DEF SkillInv, FinishSkill
<1>2. AnsweredOf(rec, at, TRUE)
  <2>1. o \in Codes /\ (o = "ok") \in BOOLEAN
    BY DEF SkillOutcomes, Codes
  <2> QED
    BY <1>1, <2>1, AnswersAre, Zenon
<1>3. Stage(at)
  BY DEF SkillInv, StagesInv
<1> USE DEF AnsweredOf
<1> HIDE DEF rec
<1>4. Stage(rec)
  BY <1>1, <1>2, <1>3 DEF Stage
<1>5. edits = 0 => Undisturbed(rec)
  <2>1. edits = 0 => Undisturbed(at)
    BY DEF SkillInv, UneditedInv
  <2> QED
    BY <1>1, <1>2, <1>3, <2>1 DEF Undisturbed, Stage
<1>6. /\ evaluated' \in [SkillDirs -> {"read", "external", Absent}]
      /\ edits = 0 => \A d \in SkillDirs : evaluated'[d] # Absent =>
                        disk[d] # Absent /\ evaluated'[d] = disk[d].sideEffect
  BY <1>1 DEF SkillInv, SkillTypes, UneditedInv
<1> QED
  BY <1>1, <1>2, <1>4, <1>5, <1>6, MoveKeeps

(* A process runs the code it imported first.                               *)
LEMMA ImportKeeps ==
  ASSUME SkillInv, NEW i \in DOMAIN attempts, ImportAndRun(i)
  PROVE  SkillInv'
<1> DEFINE at == attempts[i]
           code == Imported(at.found)
           rec == IF code = "fails" THEN Answers(at, FALSE, TRUE, "entry invalid")
                  ELSE [at EXCEPT !.step = "running", !.effect = code]
<1>1. /\ at \in AttemptType /\ at.step = "import" /\ Moves(i, rec)
      /\ evaluated' = IF code = "fails" THEN evaluated
                      ELSE [evaluated EXCEPT ![at.found] = code]
  BY AttemptsAre DEF SkillInv, ImportAndRun
<1>2. Stage(at) /\ at.found \in SkillDirs /\ at.manifest # Absent /\ at.manifest.fits
      /\ at.answer = Absent
  BY <1>1 DEF SkillInv, StagesInv, Stage
<1>3. code \in {"read", "external", "fails"}
  <2>1. evaluated[at.found] \in {"read", "external", Absent}
        /\ disk[at.found] \in Skills \cup {Absent}
    BY <1>2 DEF SkillInv, SkillTypes
  <2> QED
    BY <2>1, FilesAssumption DEF Imported, Skills
<1>4. edits = 0 /\ code # "fails" =>
        disk[at.found] # Absent /\ code = disk[at.found].sideEffect
  BY <1>2 DEF SkillInv, UneditedInv, Imported
<1>5. edits = 0 => Undisturbed(at)
  BY DEF SkillInv, UneditedInv
<1> HIDE DEF code
<1>6. /\ evaluated' \in [SkillDirs -> {"read", "external", Absent}]
      /\ edits = 0 => \A d \in SkillDirs : evaluated'[d] # Absent =>
                        disk[d] # Absent /\ evaluated'[d] = disk[d].sideEffect
  <2>1. evaluated \in [SkillDirs -> {"read", "external", Absent}]
    BY DEF SkillInv, SkillTypes
  <2>2. edits = 0 => \A d \in SkillDirs : evaluated[d] # Absent =>
                       disk[d] # Absent /\ evaluated[d] = disk[d].sideEffect
    BY DEF SkillInv, UneditedInv
  <2> QED
    BY <1>1, <1>2, <1>3, <1>4, <2>1, <2>2
<1>7. /\ rec \in AttemptType /\ rec.step \in {"over", "running"}
      /\ rec.call = at.call /\ rec.action = at.action /\ rec.believed = at.believed
      /\ rec.found = at.found /\ rec.bearers = at.bearers /\ rec.manifest = at.manifest
      /\ IF code = "fails"
         THEN rec.step = "over" /\ rec.answer # Absent /\ rec.answer.inputValidated
              /\ rec.effect = at.effect
         ELSE rec.step = "running" /\ rec.answer = Absent /\ rec.effect = code
  <2>1. CASE code = "fails"
    <3>1. AnsweredOf(rec, at, TRUE)
      BY <1>1, <2>1, AnswersAre DEF Codes
    <3> QED
      BY <2>1, <3>1 DEF AnsweredOf
  <2>2. CASE code # "fails"
    BY <1>1, <1>2, <1>3, <2>2 DEF AttemptType, Believed
  <2> QED
    BY <2>1, <2>2
<1> HIDE DEF rec
<1>8. Stage(rec)
  BY <1>1, <1>2, <1>3, <1>7 DEF Stage
<1>9. edits = 0 => Undisturbed(rec)
  BY <1>1, <1>2, <1>4, <1>5, <1>7 DEF Undisturbed
<1> QED
  BY <1>1, <1>6, <1>7, <1>8, <1>9, MoveKeeps

(* A manifest is read of the file that is there.                            *)
LEMMA LoadKeeps ==
  ASSUME SkillInv, NEW i \in DOMAIN attempts, Load(i)
  PROVE  SkillInv'
<1> DEFINE at == attempts[i]
           s == disk[at.found]
           read == [at EXCEPT !.manifest = s]
           rec == IF s = Absent THEN Answers(at, FALSE, FALSE, "no manifest")
                  ELSE IF Refused(s) # "none" THEN Answers(read, FALSE, FALSE, Refused(s))
                  ELSE [read EXCEPT !.step = "import"]
<1>1. at \in AttemptType /\ at.step = "load" /\ Moves(i, rec) /\ evaluated' = evaluated
  BY AttemptsAre DEF SkillInv, Load
<1>2. /\ Stage(at) /\ at.found \in SkillDirs /\ at.manifest = Absent /\ at.effect = "none"
      /\ at.answer = Absent
  BY <1>1 DEF SkillInv, StagesInv, Stage
<1>3. s \in Skills \cup {Absent}
  BY <1>2 DEF SkillInv, SkillTypes
<1>4. edits = 0 => Undisturbed(at)
  BY DEF SkillInv, UneditedInv
<1> DEFINE Same(r) ==
  /\ r \in AttemptType
  /\ r.call = at.call /\ r.action = at.action /\ r.believed = at.believed
  /\ r.found = at.found /\ r.bearers = at.bearers /\ r.effect = at.effect
<1>5. Same(rec)
      /\ IF s = Absent
         THEN rec.step = "over" /\ rec.answer # Absent /\ rec.manifest = Absent
         ELSE /\ rec.manifest = s
              /\ \/ rec.step = "over" /\ rec.answer # Absent
                 \/ rec.step = "import" /\ rec.answer = Absent /\ s.fits
  <2>1. CASE s = Absent
    <3>1. AnsweredOf(rec, at, FALSE)
      BY <1>1, <2>1, AnswersAre DEF Codes
    <3> QED
      BY <1>2, <2>1, <3>1 DEF AnsweredOf
  <2>2. CASE s # Absent
    <3>1. Same(read) /\ read.manifest = s /\ read.answer = Absent
      BY <1>1, <1>2, <1>3 DEF AttemptType
    <3>2. CASE Refused(s) # "none"
      <4>1. Refused(s) \in {"entry missing", "entry invalid", "input invalid", "none"}
        BY DEF Refused
      <4> HIDE DEF read, s
      <4>2. rec = Answers(read, FALSE, FALSE, Refused(s))
        BY <2>2, <3>2
      <4> HIDE DEF rec
      <4>3. Refused(s) \in Codes /\ read \in AttemptType
        BY <3>1, <3>2, <4>1 DEF Codes
      <4>4. AnsweredOf(rec, read, FALSE)
        BY <4>2, <4>3, AnswersAre
      <4> QED
        BY <2>2, <3>1, <4>4 DEF AnsweredOf
    <3>3. CASE Refused(s) = "none"
      <4>1. s.fits
        BY <1>3, <2>2, <3>3 DEF Refused, Skills
      <4> HIDE DEF read, s
      <4> QED
        BY <2>2, <3>1, <3>3, <4>1 DEF AttemptType
    <3> QED
      BY <3>2, <3>3
  <2> QED
    BY <2>1, <2>2
<1> HIDE DEF rec, read
<1>6. Stage(rec)
  BY <1>1, <1>2, <1>5 DEF Stage
<1>7. edits = 0 => Undisturbed(rec)
  BY <1>1, <1>2, <1>4, <1>5 DEF Undisturbed
<1>8. /\ evaluated' \in [SkillDirs -> {"read", "external", Absent}]
      /\ edits = 0 => \A d \in SkillDirs : evaluated'[d] # Absent =>
                        disk[d] # Absent /\ evaluated'[d] = disk[d].sideEffect
  BY <1>1 DEF SkillInv, SkillTypes, UneditedInv
<1> QED
  BY <1>1, <1>5, <1>6, <1>7, <1>8, MoveKeeps

(* A skill is found where its action says, else in the registry, else on    *)
(* the search path.                                                         *)
LEMMA ResolveKeeps ==
  ASSUME SkillInv, NEW i \in DOMAIN attempts, Resolve(i)
  PROVE  SkillInv'
<1> DEFINE at == attempts[i]
           registered == Bearers(Registry, at.action.name)
           searched == Bearers(SearchPath, at.action.name)
           named == [at EXCEPT !.bearers = registered]
           rec == IF at.action.place # Absent
                  THEN [at EXCEPT !.step = "load", !.found = at.action.place]
                  ELSE Lookup(registered, searched, named)
<1>1. at \in AttemptType /\ at.step = "resolve" /\ Moves(i, rec) /\ evaluated' = evaluated
  BY AttemptsAre DEF SkillInv, Resolve
<1>2. /\ Stage(at) /\ at.found = Absent /\ at.manifest = Absent /\ at.effect = "none"
      /\ at.answer = Absent
  BY <1>1 DEF SkillInv, StagesInv, Stage
<1>3. /\ registered \subseteq SkillDirs /\ searched \subseteq SkillDirs
      /\ at.action.place \in SkillDirs \cup {Absent} /\ Absent \notin SkillDirs
  BY <1>1, FilesAssumption DEF Bearers, AttemptType
<1> DEFINE Same(r) ==
  /\ r \in AttemptType
  /\ r.call = at.call /\ r.action = at.action /\ r.believed = at.believed
  /\ r.manifest = at.manifest /\ r.effect = at.effect
<1>4. /\ Same(rec) /\ rec.found = Where(at.action)
      /\ \/ rec.step = "load" /\ rec.answer = Absent /\ rec.found \in SkillDirs
         \/ rec.step = "over" /\ rec.answer # Absent /\ rec.found = Absent
      /\ rec.found \in SkillDirs /\ at.action.place = Absent =>
           rec.bearers \in {{rec.found}, {}}
  <2>1. CASE at.action.place # Absent
    BY <1>1, <1>2, <1>3, <2>1 DEF AttemptType, Where
  <2>2. CASE at.action.place = Absent
    <3>1. /\ Same(named) /\ named.found = Absent /\ named.answer = Absent
          /\ named.bearers = registered
      BY <1>1, <1>2, <1>3 DEF AttemptType
    <3>2. rec = Lookup(registered, searched, named)
      BY <2>2
    <3> DEFINE D == Dirs(at.action)
    <3>3. /\ D = IF registered # {} THEN registered ELSE searched
          /\ D \subseteq SkillDirs
      BY <1>3 DEF Dirs
    <3>4. Where(at.action) = IF D = {} \/ \E d, e \in D : d # e THEN Absent
                             ELSE CHOOSE d \in D : TRUE
      BY <2>2 DEF Where
    <3> HIDE DEF D, named, registered, searched
    <3>5. rec = IF D = {} THEN Answers(named, FALSE, FALSE, "not found")
                ELSE Found(D, named)
      BY <3>2, <3>3 DEF Lookup
    <3>6. CASE D = {}
      <4>1. AnsweredOf(rec, named, FALSE)
        BY <3>1, <3>5, <3>6, AnswersAre DEF Codes
      <4> QED
        BY <1>3, <3>1, <3>4, <3>6, <4>1 DEF AnsweredOf
    <3>7. CASE \E d, e \in D : d # e
      <4>1. rec = Answers(named, FALSE, FALSE, "ambiguous")
        BY <3>5, <3>7 DEF Found
      <4>2. AnsweredOf(rec, named, FALSE)
        BY <3>1, <4>1, AnswersAre DEF Codes
      <4> QED
        BY <1>3, <3>1, <3>4, <3>7, <4>2 DEF AnsweredOf
    <3>8. CASE D # {} /\ ~ \E d, e \in D : d # e
      <4>1. PICK d : D = {d}
        BY <3>8
      <4>2. Where(at.action) = d /\ d \in SkillDirs /\ (CHOOSE x \in D : TRUE) = d
        BY <3>3, <3>4, <3>8, <4>1
      <4>3. rec = [named EXCEPT !.step = "load", !.found = d]
        BY <3>5, <3>8, <4>2 DEF Found
      <4>4. registered \in {{d}, {}}
        BY <3>3, <4>1
      <4> QED
        BY <3>1, <4>2, <4>3, <4>4 DEF AttemptType
    <3> QED
      BY <3>6, <3>7, <3>8
  <2> QED
    BY <2>1, <2>2
<1> HIDE DEF rec, named, registered, searched
<1>5. Stage(rec)
  BY <1>1, <1>2, <1>3, <1>4 DEF Stage
<1>6. edits = 0 => Undisturbed(rec)
  BY <1>1, <1>2, <1>3, <1>4 DEF Undisturbed
<1>7. /\ evaluated' \in [SkillDirs -> {"read", "external", Absent}]
      /\ edits = 0 => \A d \in SkillDirs : evaluated'[d] # Absent =>
                        disk[d] # Absent /\ evaluated'[d] = disk[d].sideEffect
  BY <1>1 DEF SkillInv, SkillTypes, UneditedInv
<1> QED
  BY <1>1, <1>4, <1>5, <1>6, <1>7, MoveKeeps

(* An attempt more at the end of the list.                                  *)
LEMMA AppendedIs ==
  ASSUME NEW q \in Seq(AttemptType), NEW rec \in AttemptType
  PROVE  /\ Append(q, rec) \in Seq(AttemptType) /\ Append(q, rec) # <<>>
         /\ Len(q) \in Nat /\ DOMAIN q = 1 .. Len(q)
         /\ Len(Append(q, rec)) = Len(q) + 1
         /\ DOMAIN Append(q, rec) = 1 .. Len(q) + 1
         /\ \A i \in 1 .. Len(q) : Append(q, rec)[i] = q[i]
         /\ Append(q, rec)[Len(q) + 1] = rec
OBVIOUS

(* A new attempt of a call knows nothing yet.                               *)
LEMMA NewIs ==
  ASSUME NEW c \in 1 .. MaxSkillCalls, NEW a \in SkillActions, NEW b \in Believed
  PROVE  LET rec == [NewAttempt(c, a) EXCEPT !.believed = b]
         IN  /\ rec \in AttemptType /\ rec.call = c /\ rec.action = a /\ rec.believed = b
             /\ rec.step = "resolve" /\ Stage(rec) /\ Undisturbed(rec)
<1> DEFINE rec == [call |-> c, action |-> a, step |-> "resolve", believed |-> b,
                   found |-> Absent, bearers |-> {}, manifest |-> Absent, effect |-> "none",
                   answer |-> Absent]
<1>1. [NewAttempt(c, a) EXCEPT !.believed = b] = rec
  BY DEF NewAttempt
<1>2. /\ rec \in AttemptType /\ rec.call = c /\ rec.action = a /\ rec.believed = b
      /\ rec.step = "resolve" /\ rec.found = Absent /\ rec.manifest = Absent
      /\ rec.effect = "none" /\ rec.answer = Absent
  BY DEF AttemptType, Believed
<1> HIDE DEF rec
<1>3. Stage(rec) /\ Undisturbed(rec)
  BY <1>2, FilesAssumption DEF Stage, Undisturbed
<1> QED
  BY <1>1, <1>2, <1>3

(* A list of attempts that goes on where another ends.                      *)
LEMMA GrownKeeps ==
  ASSUME SkillInv, NEW tell \in Seq(AttemptType), Len(tell) = Len(attempts),
         \A i \in DOMAIN attempts :
           /\ tell[i].call = attempts[i].call /\ tell[i].action = attempts[i].action
           /\ tell[i].believed = attempts[i].believed
           /\ i # Len(attempts) => tell[i] = attempts[i]
           /\ Stage(tell[i]) /\ (edits = 0 => Undisturbed(tell[i])),
         NEW rec \in AttemptType, Stage(rec), Undisturbed(rec), rec.step = "resolve",
         attempts # <<>> => attempts[Len(attempts)].call <= rec.call,
         \A i \in DOMAIN attempts :
           attempts[i].call = rec.call => attempts[i].action = rec.action,
         edits = 0 => rec.believed = ClassAt(tell, rec.call, rec.action, Len(attempts)),
         attempts' = Append(tell, rec), sideEffect' = rec.believed, awaited' = TRUE,
         UNCHANGED <<disk, evaluated, edits>>
  PROVE  SkillInv'
<1> DEFINE n == Len(attempts)
<1>1. /\ n \in Nat /\ DOMAIN attempts = 1 .. n /\ DOMAIN tell = 1 .. n
      /\ \A i \in DOMAIN attempts : attempts[i] \in AttemptType
      /\ \A i \in DOMAIN attempts : tell[i] \in AttemptType
  BY AttemptsAre DEF SkillInv
<1>2. /\ attempts' \in Seq(AttemptType) /\ attempts' # <<>> /\ Len(attempts') = n + 1
      /\ DOMAIN attempts' = 1 .. n + 1
      /\ \A i \in 1 .. n : attempts'[i] = tell[i]
      /\ attempts'[n + 1] = rec
  BY AppendedIs
<1> HIDE DEF n
<1>3. SkillTypes'
  BY <1>2 DEF SkillInv, SkillTypes, AttemptType
<1>4. \A i \in 1 .. n : attempts[i].call \in Nat
  BY <1>1, FilesAssumption DEF AttemptType
<1>5. \A i \in 1 .. n : attempts[i].call <= rec.call
  <2>1. n # 0 => attempts # <<>> /\ n \in 1 .. n
    BY <1>1 DEF n
  <2>2. rec.call \in Nat
    BY FilesAssumption DEF AttemptType
  <2>3. \A i \in 1 .. n : attempts[i].call <= attempts[n].call
    BY <1>1, <2>1 DEF SkillInv, CallsInv
  <2>4. n # 0 => attempts[n].call <= rec.call
    BY <2>1 DEF n
  <2> QED
    BY <1>1, <1>4, <2>1, <2>2, <2>3, <2>4
<1>6. CallsInv'
  <2> SUFFICES ASSUME NEW i \in 1 .. n + 1, NEW j \in 1 .. n + 1
               PROVE  /\ i <= j => attempts'[i].call <= attempts'[j].call
                      /\ attempts'[i].call = attempts'[j].call =>
                           attempts'[i].action = attempts'[j].action
    BY <1>2 DEF CallsInv
  <2>1. rec.call \in Nat
    BY FilesAssumption DEF AttemptType
  <2>2. CASE i \in 1 .. n /\ j \in 1 .. n
    <3>1. /\ i <= j => attempts[i].call <= attempts[j].call
          /\ attempts[i].call = attempts[j].call => attempts[i].action = attempts[j].action
      BY <1>1, <2>2 DEF SkillInv, CallsInv
    <3>2. /\ attempts'[i].call = attempts[i].call /\ attempts'[i].action = attempts[i].action
          /\ attempts'[j].call = attempts[j].call /\ attempts'[j].action = attempts[j].action
      BY <1>1, <1>2, <2>2
    <3> QED
      BY <3>1, <3>2
  <2>3. CASE i = n + 1 /\ j = n + 1
    BY <1>2, <2>1, <2>3
  <2>4. CASE i \in 1 .. n /\ j = n + 1
    <3>1. attempts'[i].call = attempts[i].call /\ attempts'[i].action = attempts[i].action
      BY <1>1, <1>2, <2>4
    <3> QED
      BY <1>1, <1>2, <1>5, <2>4, <3>1
  <2>5. CASE i = n + 1 /\ j \in 1 .. n
    <3>1. ~ (i <= j)
      BY <1>1, <2>5
    <3>2. attempts'[j].call = attempts[j].call /\ attempts'[j].action = attempts[j].action
      BY <1>1, <1>2, <2>5
    <3> QED
      BY <1>1, <1>2, <2>5, <3>1, <3>2
  <2> QED
    BY <1>1, <2>2, <2>3, <2>4, <2>5
<1>7. StagesInv'
  <2>1. \A i \in 1 .. n : Stage(attempts'[i])
    BY <1>1, <1>2
  <2> QED
    BY <1>1, <1>2, <2>1 DEF StagesInv
<1>8. UneditedInv'
  <2> SUFFICES ASSUME edits = 0 PROVE UneditedInv'
    BY DEF UneditedInv
  <2>1. ASSUME NEW a PROVE Where(a)' = Where(a)
    BY DEF Where, Dirs, Bearers
  <2>2. ASSUME NEW c, NEW a, NEW m \in 0 .. n, m <= n - 1
        PROVE  ClassAt(attempts, c, a, m)' = ClassAt(attempts, c, a, m)
    <3>1. \A i \in 1 .. m : i \in 1 .. n /\ attempts'[i] = attempts[i]
      <4>1. \A i \in 1 .. m : i \in 1 .. n /\ i # n
        BY <1>1, <2>2
      <4>2. \A i \in 1 .. n : i # n => tell[i] = attempts[i]
        BY <1>1 DEF n
      <4> QED
        BY <1>2, <4>1, <4>2
    <3>2. (\E i \in 1 .. m : Heard(attempts'[i], c)) <=> \E i \in 1 .. m : Heard(attempts[i], c)
      BY <3>1
    <3>3. ClassAt(attempts, c, a, m)'
            = IF \E i \in 1 .. m : Heard(attempts'[i], c)
              THEN disk'[Where(a)'].sideEffect ELSE a.declared
      BY DEF ClassAt, Heard
    <3> QED
      BY <2>1, <3>2, <3>3 DEF ClassAt
  <2>3. ASSUME NEW c, NEW a, NEW m \in {n, n + 1}
        PROVE  ClassAt(attempts, c, a, m)' = ClassAt(tell, c, a, n)
    <3>1. \A i \in 1 .. n : attempts'[i] = tell[i] /\ i \in 1 .. m
      BY <1>1, <1>2, <2>3
    <3>2. \A i \in 1 .. m : i \in 1 .. n \/ i = n + 1
      BY <1>1, <2>3
    <3>3. ~ Heard(attempts'[n + 1], c)
      BY <1>2 DEF Heard
    <3>4. (\E i \in 1 .. m : Heard(attempts'[i], c)) <=> \E i \in 1 .. n : Heard(tell[i], c)
      BY <3>1, <3>2, <3>3
    <3>5. ClassAt(attempts, c, a, m)'
            = IF \E i \in 1 .. m : Heard(attempts'[i], c)
              THEN disk'[Where(a)'].sideEffect ELSE a.declared
      BY DEF ClassAt, Heard
    <3> QED
      BY <2>1, <3>4, <3>5 DEF ClassAt
  <2>4. \A d \in SkillDirs : evaluated'[d] # Absent =>
          disk'[d] # Absent /\ evaluated'[d] = disk'[d].sideEffect
    BY DEF SkillInv, UneditedInv
  <2>5. ASSUME NEW i \in 1 .. n + 1 PROVE Undisturbed(attempts[i])'
    <3>1. Undisturbed(attempts'[i])
      BY <1>1, <1>2
    <3> QED
      BY <2>1, <3>1 DEF Undisturbed
  <2>6. ASSUME NEW i \in 1 .. n + 1
        PROVE  attempts'[i].believed
                 = ClassAt(attempts, attempts[i].call, attempts[i].action, i - 1)'
    <3>1. CASE i \in 1 .. n
      <4>1. i - 1 \in 0 .. n /\ i - 1 <= n - 1
        BY <1>1, <3>1
      <4>2. attempts[i].believed = ClassAt(attempts, attempts[i].call, attempts[i].action, i - 1)
        BY <1>1, <3>1 DEF SkillInv, UneditedInv
      <4>3. /\ attempts'[i].call = attempts[i].call /\ attempts'[i].action = attempts[i].action
            /\ attempts'[i].believed = attempts[i].believed
        BY <1>1, <1>2, <3>1
      <4> QED
        BY <2>2, <4>1, <4>2, <4>3
    <3>2. CASE i = n + 1
      <4>1. i - 1 = n
        BY <1>1, <3>2
      <4>2. rec.believed = ClassAt(tell, rec.call, rec.action, n)
        BY DEF n
      <4>3. rec.believed = ClassAt(attempts, rec.call, rec.action, i - 1)'
        BY <2>3, <4>1, <4>2
      <4> QED
        BY <1>2, <3>2, <4>3
    <3> QED
      BY <1>1, <3>1, <3>2
  <2>7. ASSUME NEW m, m = n + 1
        PROVE  sideEffect' = ClassAt(attempts, attempts[m].call, attempts[m].action, m)'
    <3>1. rec.believed = ClassAt(tell, rec.call, rec.action, n)
      BY DEF n
    <3>2. rec.believed = ClassAt(attempts, rec.call, rec.action, m)'
      BY <2>3, <2>7, <3>1
    <3> QED
      BY <1>2, <2>7, <3>2
  <2> QED
    BY <1>2, <2>4, <2>5, <2>6, <2>7 DEF UneditedInv
<1> QED
  BY <1>3, <1>6, <1>7, <1>8 DEF SkillInv

(* The list once the executor has taken the last attempt's answer.          *)
Told == [attempts EXCEPT ![Len(attempts)].step =
           IF attempts[Len(attempts)].answer = Absent THEN @ ELSE "heard"]

LEMMA ToldIs ==
  ASSUME SkillInv, attempts # <<>>
  PROVE  /\ Told \in Seq(AttemptType) /\ Len(Told) = Len(attempts)
         /\ \A i \in DOMAIN attempts :
              /\ Told[i].call = attempts[i].call /\ Told[i].action = attempts[i].action
              /\ Told[i].believed = attempts[i].believed
              /\ Told[i].manifest = attempts[i].manifest
              /\ i # Len(attempts) => Told[i] = attempts[i]
              /\ Told[i].step = IF i = Len(attempts) /\ attempts[i].answer # Absent
                                THEN "heard" ELSE attempts[i].step
              /\ Stage(Told[i]) /\ (edits = 0 => Undisturbed(Told[i]))
<1> DEFINE n == Len(attempts)
           last == attempts[n]
           rec == [last EXCEPT !.step = IF last.answer = Absent THEN last.step ELSE "heard"]
<1>1. /\ n \in DOMAIN attempts /\ DOMAIN attempts = 1 .. n /\ n \in Nat
      /\ attempts \in Seq(AttemptType) /\ last \in AttemptType
  BY AttemptsAre DEF SkillInv, SkillTypes
<1>2. Told = [attempts EXCEPT ![n] = rec]
  BY <1>1 DEF Told
<1>3. /\ rec \in AttemptType
      /\ rec.step = IF last.answer = Absent THEN last.step ELSE "heard"
      /\ rec.call = last.call /\ rec.action = last.action /\ rec.believed = last.believed
      /\ rec.found = last.found /\ rec.bearers = last.bearers /\ rec.manifest = last.manifest
      /\ rec.effect = last.effect /\ rec.answer = last.answer
  BY <1>1 DEF AttemptType
<1> HIDE DEF rec
<1>4. Stage(last) /\ (edits = 0 => Undisturbed(last))
  BY <1>1 DEF SkillInv, StagesInv, UneditedInv
<1>5. last.step \in {"resolve", "load", "import", "running", "over", "heard"}
  BY <1>1 DEF AttemptType
<1>6. Stage(rec) /\ (edits = 0 => Undisturbed(rec))
  BY <1>3, <1>4, <1>5 DEF Stage, Undisturbed
<1>7. /\ Told \in Seq(AttemptType) /\ Len(Told) = n
      /\ \A i \in DOMAIN attempts : Told[i] = IF i = n THEN rec ELSE attempts[i]
  BY <1>1, <1>2, <1>3
<1>8. \A i \in DOMAIN attempts : Stage(attempts[i]) /\ (edits = 0 => Undisturbed(attempts[i]))
  BY DEF SkillInv, StagesInv, UneditedInv
<1> HIDE DEF last
<1>9. last = attempts[n]
  BY DEF last
<1> HIDE DEF n
<1>10. ASSUME NEW i \in DOMAIN attempts
       PROVE  /\ Told[i].call = attempts[i].call /\ Told[i].action = attempts[i].action
              /\ Told[i].believed = attempts[i].believed
              /\ Told[i].manifest = attempts[i].manifest
              /\ i # n => Told[i] = attempts[i]
              /\ Told[i].step = IF i = n /\ attempts[i].answer # Absent
                                THEN "heard" ELSE attempts[i].step
              /\ Stage(Told[i]) /\ (edits = 0 => Undisturbed(Told[i]))
  <2>1. CASE i = n
    BY <1>3, <1>6, <1>7, <1>9, <2>1
  <2>2. CASE i # n
    BY <1>7, <1>8, <2>2
  <2> QED
    BY <2>1, <2>2
<1> QED
  BY <1>7, <1>10 DEF n

(* What the executor goes by is what it has been told.                      *)
LEMMA BelievesWhatItHeard ==
  ASSUME SkillInv, edits = 0, attempts # <<>>,
         NEW believes,
         LET last == attempts[Len(attempts)]
         IN  IF last.answer = Absent THEN believes = sideEffect ELSE believes = ClassTold(last)
  PROVE  LET last == attempts[Len(attempts)]
         IN  believes = ClassAt(Told, last.call, last.action, Len(attempts))
<1> DEFINE n == Len(attempts)
           last == attempts[n]
           a == last.action
           c == last.call
<1>1. /\ n \in DOMAIN attempts /\ DOMAIN attempts = 1 .. n /\ n \in Nat
      /\ \A i \in DOMAIN attempts : attempts[i] \in AttemptType
  BY AttemptsAre DEF SkillInv
<1>2. \A i \in DOMAIN attempts :
        /\ Told[i].call = attempts[i].call /\ Told[i].manifest = attempts[i].manifest
        /\ i # n => Told[i] = attempts[i]
        /\ Told[i].step = IF i = n /\ attempts[i].answer # Absent
                          THEN "heard" ELSE attempts[i].step
  BY ToldIs
<1>3. \A i \in DOMAIN attempts : Stage(attempts[i]) /\ Undisturbed(attempts[i])
  BY DEF SkillInv, StagesInv, UneditedInv
<1>4. CASE last.answer = Absent
  <2>1. sideEffect = ClassAt(attempts, c, a, n)
    BY DEF SkillInv, UneditedInv
  <2>2. \A i \in 1 .. n : Heard(Told[i], c) <=> Heard(attempts[i], c)
    BY <1>1, <1>2, <1>4 DEF Heard
  <2> QED
    BY <1>4, <2>1, <2>2 DEF ClassAt
<1>5. CASE last.answer # Absent
  <2>1. believes = IF last.manifest = Absent THEN a.declared ELSE last.manifest.sideEffect
    BY <1>5 DEF ClassTold
  <2>2. last.step \in {"over", "heard"} /\ last.step # "resolve"
    BY <1>1, <1>3, <1>5 DEF Stage, AttemptType
  <2>3. last.found = Where(a)
    BY <1>1, <1>3, <2>2 DEF Undisturbed
  <2>4. CASE last.manifest # Absent
    <3>1. Heard(Told[n], c)
      BY <1>1, <1>2, <1>5, <2>4 DEF Heard
    <3>2. last.manifest = disk[Where(a)]
      BY <1>1, <1>3, <2>3, <2>4 DEF Undisturbed
    <3> QED
      BY <1>1, <2>1, <2>4, <3>1, <3>2 DEF ClassAt
  <2>5. CASE last.manifest = Absent
    <3>1. Where(a) = Absent \/ disk[Where(a)] = Absent
      BY <1>1, <1>3, <2>2, <2>3, <2>5 DEF Undisturbed
    <3>2. ASSUME NEW i \in 1 .. n, Heard(Told[i], c) PROVE FALSE
      <4>1. attempts[i].manifest # Absent /\ attempts[i].call = c /\ i # n
        BY <1>1, <1>2, <2>5, <3>2 DEF Heard
      <4>2. attempts[i].action = a
        BY <1>1, <4>1 DEF SkillInv, CallsInv
      <4>3. attempts[i].found \in SkillDirs /\ attempts[i].step # "resolve"
        BY <1>1, <1>3, <4>1 DEF Stage
      <4>4. attempts[i].found = Where(a) /\ attempts[i].manifest = disk[Where(a)]
        <5>1. Undisturbed(attempts[i])
          BY <1>1, <1>3
        <5> QED
          BY <4>1, <4>2, <4>3, <5>1 DEF Undisturbed
      <4> QED
        BY <3>1, <4>1, <4>3, <4>4, FilesAssumption
    <3> QED
      BY <2>1, <2>5, <3>2 DEF ClassAt
  <2> QED
    BY <2>4, <2>5
<1> QED
  BY <1>4, <1>5

(* The executor goes on with what it believes by then.                      *)
LEMMA AfterKeeps ==
  ASSUME SkillInv, attempts # <<>>, NEW believes \in Believed, After(believes),
         LET last == attempts[Len(attempts)]
         IN  IF last.answer = Absent THEN believes = sideEffect ELSE believes = ClassTold(last)
  PROVE  SkillInv'
<1> DEFINE n == Len(attempts)
           last == attempts[n]
           rec == [NewAttempt(last.call, last.action) EXCEPT !.believed = believes]
<1>1. /\ n \in DOMAIN attempts /\ DOMAIN attempts = 1 .. n /\ n \in Nat
      /\ \A i \in DOMAIN attempts : attempts[i] \in AttemptType
  BY AttemptsAre DEF SkillInv
<1>2. /\ sideEffect' = believes /\ UNCHANGED <<disk, evaluated, edits>>
      /\ \/ attempts' = Append(Told, rec) /\ awaited' = awaited
         \/ attempts' = Told /\ awaited' = FALSE
      /\ awaited
  BY DEF After, Told
<1>3. edits = 0 => believes = ClassAt(Told, last.call, last.action, n)
  BY BelievesWhatItHeard
<1>4. /\ Told \in Seq(AttemptType) /\ Len(Told) = n
      /\ \A i \in DOMAIN attempts :
           /\ Told[i].call = attempts[i].call /\ Told[i].action = attempts[i].action
           /\ Told[i].believed = attempts[i].believed
           /\ i # n => Told[i] = attempts[i]
           /\ Stage(Told[i]) /\ (edits = 0 => Undisturbed(Told[i]))
  BY ToldIs
<1>5. last \in AttemptType /\ last.call \in 1 .. MaxSkillCalls /\ last.action \in SkillActions
  BY <1>1 DEF AttemptType
<1>6. CASE attempts' = Append(Told, rec) /\ awaited' = awaited
  <2>1. /\ rec \in AttemptType /\ rec.call = last.call /\ rec.action = last.action
        /\ rec.believed = believes /\ rec.step = "resolve" /\ Stage(rec) /\ Undisturbed(rec)
    BY <1>5, NewIs
  <2> HIDE DEF rec
  <2>2. last.call <= rec.call
    BY <1>5, <2>1, FilesAssumption
  <2>3. \A i \in DOMAIN attempts :
          attempts[i].call = rec.call => attempts[i].action = rec.action
    BY <1>1, <2>1 DEF SkillInv, CallsInv
  <2>4. awaited' = TRUE
    BY <1>2, <1>6 DEF SkillInv, SkillTypes
  <2> QED
    BY <1>2, <1>3, <1>4, <1>6, <2>1, <2>2, <2>3, <2>4, GrownKeeps
<1>7. CASE attempts' = Told /\ awaited' = FALSE
  <2>1. /\ attempts' \in Seq(AttemptType) /\ Len(attempts') = n /\ DOMAIN attempts' = 1 .. n
    BY <1>4, <1>7
  <2>2. \A i \in 1 .. n :
          /\ attempts'[i].call = attempts[i].call /\ attempts'[i].action = attempts[i].action
          /\ attempts'[i].believed = attempts[i].believed
          /\ i # n => attempts'[i] = attempts[i]
          /\ Stage(attempts'[i]) /\ (edits = 0 => Undisturbed(attempts'[i]))
    BY <1>1, <1>4, <1>7
  <2> HIDE DEF n
  <2>3. SkillTypes' /\ CallsInv' /\ StagesInv'
    <3>1. SkillTypes'
      BY <1>2, <1>7, <2>1 DEF SkillInv, SkillTypes
    <3>2. CallsInv'
      BY <1>1, <2>1, <2>2 DEF SkillInv, CallsInv
    <3>3. StagesInv'
      BY <2>1, <2>2 DEF StagesInv
    <3> QED
      BY <3>1, <3>2, <3>3
  <2>4. UneditedInv'
    <3> SUFFICES ASSUME edits = 0 PROVE UneditedInv'
      BY <1>2 DEF UneditedInv
    <3>1. ASSUME NEW a PROVE Where(a)' = Where(a)
      BY <1>2 DEF Where, Dirs, Bearers
    <3>2. ASSUME NEW c, NEW a, NEW m \in 0 .. n, m <= n - 1
          PROVE  ClassAt(attempts, c, a, m)' = ClassAt(attempts, c, a, m)
      <4>1. \A i \in 1 .. m : i \in 1 .. n /\ attempts'[i] = attempts[i]
        BY <1>1, <2>2, <3>2
      <4> QED
        BY <1>2, <3>1, <4>1 DEF ClassAt, Heard
    <3>3. ASSUME NEW c, NEW a, NEW m
          PROVE  ClassAt(attempts, c, a, m)' = ClassAt(Told, c, a, m)
      BY <1>2, <1>7, <3>1 DEF ClassAt, Heard
    <3>4. \A d \in SkillDirs : evaluated'[d] # Absent =>
            disk'[d] # Absent /\ evaluated'[d] = disk'[d].sideEffect
      BY <1>2 DEF SkillInv, UneditedInv
    <3>5. ASSUME NEW i \in 1 .. n PROVE Undisturbed(attempts[i])'
      <4>1. Undisturbed(attempts'[i])
        BY <2>2
      <4> QED
        BY <1>2, <3>1, <4>1 DEF Undisturbed
    <3>6. ASSUME NEW i \in 1 .. n
          PROVE  attempts'[i].believed
                   = ClassAt(attempts, attempts[i].call, attempts[i].action, i - 1)'
      <4>1. i - 1 \in 0 .. n /\ i - 1 <= n - 1
        BY <1>1
      <4>2. attempts[i].believed = ClassAt(attempts, attempts[i].call, attempts[i].action, i - 1)
        BY <1>1 DEF SkillInv, UneditedInv
      <4> QED
        BY <2>2, <3>2, <4>1, <4>2
    <3>7. ASSUME NEW m, m = n
          PROVE  sideEffect' = ClassAt(attempts, attempts[m].call, attempts[m].action, m)'
      <4>1. ASSUME NEW c, c = last.call, NEW a, a = last.action
            PROVE  believes = ClassAt(attempts, c, a, m)'
        BY <1>3, <3>3, <3>7, <4>1
      <4>2. m \in 1 .. n
        BY <1>1, <3>7
      <4>3. attempts'[m].call = last.call /\ attempts'[m].action = last.action
        BY <2>2, <3>7, <4>2
      <4>4. PICK c, a : c = last.call /\ a = last.action
        OBVIOUS
      <4>5. believes = ClassAt(attempts, c, a, m)'
        BY <4>1, <4>4
      <4> QED
        BY <1>2, <4>3, <4>4, <4>5
    <3> QED
      BY <2>1, <3>4, <3>5, <3>6, <3>7 DEF UneditedInv
  <2> QED
    BY <2>3, <2>4 DEF SkillInv
<1> QED
  BY <1>2, <1>6, <1>7

(* A call goes by the class its action declares.                            *)
LEMMA CallKeeps ==
  ASSUME SkillInv, NEW a \in SkillActions, CallSkill(a)
  PROVE  SkillInv'
<1> DEFINE n == Len(attempts)
           c == LastCall + 1
           rec == [NewAttempt(c, a) EXCEPT !.believed = a.declared]
<1>1. /\ DOMAIN attempts = 1 .. n /\ n \in Nat /\ attempts \in Seq(AttemptType)
      /\ \A i \in DOMAIN attempts : attempts[i] \in AttemptType
      /\ attempts # <<>> => n \in DOMAIN attempts
  BY AttemptsAre DEF SkillInv, SkillTypes
<1>2. /\ attempts' = Append(attempts, rec) /\ awaited' = TRUE /\ sideEffect' = a.declared
      /\ LastCall < MaxSkillCalls /\ UNCHANGED <<disk, evaluated, edits>>
  BY DEF CallSkill
<1>3. \A i \in DOMAIN attempts : attempts[i].call \in Nat /\ attempts[i].call <= LastCall
  <2>1. \A i \in DOMAIN attempts : attempts[i].call \in Nat
    BY <1>1, FilesAssumption DEF AttemptType
  <2>2. \A i \in DOMAIN attempts : attempts # <<>> /\ i <= n
    BY <1>1
  <2> QED
    BY <1>1, <2>1, <2>2 DEF SkillInv, CallsInv, LastCall
<1>4. LastCall \in Nat /\ c \in 1 .. MaxSkillCalls
  BY <1>1, <1>2, <1>3, FilesAssumption DEF LastCall
<1>5. a.declared \in Believed
  BY FilesAssumption DEF Believed
<1>6. /\ rec \in AttemptType /\ rec.call = c /\ rec.action = a /\ rec.believed = a.declared
      /\ rec.step = "resolve" /\ Stage(rec) /\ Undisturbed(rec)
  BY <1>4, <1>5, NewIs
<1> HIDE DEF rec, c
<1>7. \A i \in DOMAIN attempts : attempts[i].call # rec.call
  BY <1>3, <1>4, <1>6 DEF c
<1>8. edits = 0 => rec.believed = ClassAt(attempts, rec.call, rec.action, n)
  BY <1>1, <1>6, <1>7 DEF ClassAt, Heard
<1>9. attempts # <<>> => attempts[n].call <= rec.call
  BY <1>1, <1>3, <1>4, <1>6 DEF c
<1>10. \A i \in DOMAIN attempts :
         Stage(attempts[i]) /\ (edits = 0 => Undisturbed(attempts[i]))
  BY DEF SkillInv, StagesInv, UneditedInv
<1> QED
  BY <1>1, <1>2, <1>6, <1>7, <1>8, <1>9, <1>10, GrownKeeps

LEMMA ListenKeeps ==
  ASSUME SkillInv, TakeAnswer \/ TimeOutSkill
  PROVE  SkillInv'
<1> DEFINE last == attempts[Len(attempts)]
<1>1. CASE TakeAnswer
  <2>1. attempts # <<>> /\ last.answer # Absent /\ After(ClassTold(last))
    BY <1>1 DEF TakeAnswer
  <2>2. last \in AttemptType
    BY <2>1, AttemptsAre DEF SkillInv
  <2>3. ClassTold(last) \in Believed
    BY <2>2, FilesAssumption DEF ClassTold, AttemptType, Skills, Believed
  <2> QED
    BY <2>1, <2>3, AfterKeeps
<1>2. CASE TimeOutSkill
  <2>1. attempts # <<>> /\ last.answer = Absent /\ After(sideEffect)
    BY <1>2 DEF TimeOutSkill
  <2>2. sideEffect \in Believed
    BY DEF SkillInv, SkillTypes
  <2> QED
    BY <2>1, <2>2, AfterKeeps
<1> QED
  BY <1>1, <1>2

(* What an executor misses of an external effect was declared otherwise and *)
(* not answered yet.                                                        *)
LEMMA HiddenOnlyAtFirst == SkillInv => HiddenUntilAnswered
<1> SUFFICES ASSUME SkillInv, NEW j \in DOMAIN attempts, attempts[j].effect = "external",
                    attempts[j].believed # "external", edits = 0
             PROVE  /\ attempts[j].action.declared # "external"
                    /\ \A i \in TriesOf(attempts[j].call) :
                         i < j /\ attempts[i].step = "heard" => attempts[i].manifest = Absent
  BY DEF HiddenUntilAnswered
<1> DEFINE c == attempts[j].call
           a == attempts[j].action
<1>1. DOMAIN attempts = 1 .. Len(attempts) /\ Len(attempts) \in Nat
  BY AttemptsAre DEF SkillInv
<1>2. Stage(attempts[j]) /\ Undisturbed(attempts[j])
      /\ attempts[j].believed = ClassAt(attempts, c, a, j - 1)
  BY DEF SkillInv, StagesInv, UneditedInv
<1>3. attempts[j].step # "resolve" /\ attempts[j].manifest # Absent
      /\ attempts[j].manifest.sideEffect = "external"
  BY <1>2 DEF Stage, Undisturbed
<1>4. disk[Where(a)].sideEffect = "external"
  BY <1>2, <1>3 DEF Undisturbed
<1>5. ~ \E i \in 1 .. j - 1 : Heard(attempts[i], c)
  BY <1>2, <1>4 DEF ClassAt
<1>6. a.declared # "external"
  BY <1>2, <1>5 DEF ClassAt
<1>7. ASSUME NEW i \in TriesOf(c), i < j, attempts[i].step = "heard"
      PROVE  attempts[i].manifest = Absent
  <2>1. i \in 1 .. j - 1 /\ attempts[i].call = c
    BY <1>1, <1>7 DEF TriesOf
  <2> QED
    BY <1>5, <1>7, <2>1 DEF Heard
<1> QED
  BY <1>6, <1>7

(* Every step keeps it.                                                     *)
LEMMA SkillSteps == SkillInv /\ [SkillNext]_skillVars => SkillInv'
<1> SUFFICES ASSUME SkillInv, [SkillNext]_skillVars PROVE SkillInv'
  OBVIOUS
<1>1. CASE SkillNext
  BY <1>1, EditKeeps, CallKeeps, ListenKeeps, ResolveKeeps, LoadKeeps, ImportKeeps,
     FinishKeeps DEF SkillNext
<1>2. CASE UNCHANGED skillVars
  <2>1. UNCHANGED <<disk, evaluated, attempts, awaited, sideEffect, edits>>
    BY <1>2 DEF skillVars
  <2>2. SkillTypes' /\ CallsInv' /\ StagesInv'
    BY <2>1 DEF SkillInv, SkillTypes, CallsInv, StagesInv
  <2>3. ASSUME NEW a PROVE Where(a)' = Where(a)
    BY <2>1 DEF Where, Dirs, Bearers
  <2>4. ASSUME NEW at PROVE Undisturbed(at)' <=> Undisturbed(at)
    BY <2>1, <2>3 DEF Undisturbed
  <2>5. ASSUME NEW c, NEW a, NEW m PROVE ClassAt(attempts, c, a, m)' = ClassAt(attempts, c, a, m)
    BY <2>1, <2>3 DEF ClassAt, Heard
  <2>6. UneditedInv'
    BY <2>1, <2>4, <2>5 DEF SkillInv, UneditedInv
  <2> QED
    BY <2>2, <2>6 DEF SkillInv
<1> QED
  BY <1>1, <1>2

(* For any skills, actions, attempts and edits: a class hides an external   *)
(* effect only until an attempt of its call answered, a registered skill    *)
(* comes first, and a refused input ran nothing (skill-action-executor.ts,  *)
(* action-executor.ts:326).                                                 *)
THEOREM SkillsAreAlwaysChecked == SkillSpec => []SkillsAreChecked
<1>1. SkillInv => SkillsAreChecked
  <2>1. SkillInv => RegistryComesFirst /\ UnvalidatedRanNothing
    BY DEF SkillInv, StagesInv, Stage, RegistryComesFirst, UnvalidatedRanNothing
  <2> QED
    BY <2>1, HiddenOnlyAtFirst DEF SkillsAreChecked
<1> QED
  BY <1>1, SkillSteps, SkillsStart, PTL DEF SkillSpec

-----------------------------------------------------------------------------
(* AttemptRace: for any number of calls and attempts.                       *)

(* AnswersCountOnce is not inductive: that a started handler nobody heard   *)
(* of is the awaited one, that the one told "ok" is the recorded one, and   *)
(* that a record ends its call have to be known beside it.                  *)
RaceInv ==
  /\ RaceTypeOK
  /\ \A h \in started : told[h] = None => Awaited(h)
  /\ \A h \in Handler : told[h] # None => h \in started
  /\ phase = "judge" => told[now] # None
  /\ \A h \in started : told[h] = "ok" => recorded = h
  /\ \A h \in started : told[h] \in Verdicts \ {"timeout"} => h \in answered
  /\ phase # "done" => recorded = None
  /\ phase \in {"await", "judge"} => now \in started
  /\ OneAnswerCounts

(* Before the first attempt.                                                *)
LEMMA RaceBegins ==
  ASSUME RaceAssumption, NoneAssumption PROVE RaceInit => RaceInv
  BY DEF RaceAssumption, NoneAssumption, RaceInit, RaceInv, RaceTypeOK, OneAnswerCounts,
     Verdicts, Handler

(* Attempts, timers and handlers, each step in its turn.                    *)
LEMMA RaceSteps ==
  ASSUME RaceAssumption, NoneAssumption, RaceInv, [RaceNext]_raceVars
  PROVE  RaceInv'
<1> USE DEF RaceInv, RaceTypeOK, OneAnswerCounts, Awaited, Verdicts, NoneAssumption, RaceAssumption
<1>1. CASE StartAttempt
  <2>1. now' \in Handler /\ now' \in (1 .. MaxCalls) \X (0 .. MaxAttempts)
    BY <1>1 DEF StartAttempt, Handler
  <2>2. started' = started \cup {now'} /\ phase' = "await" /\ phase = "attempt"
        /\ UNCHANGED <<effects, answered, told, merged, recorded>>
    BY <1>1 DEF StartAttempt
  <2> HIDE DEF Handler
  <2>3. RaceTypeOK'
    BY <2>1, <2>2
  <2>4. \A h \in started' : told'[h] = None => Awaited(h)'
    BY <2>2
  <2> QED
    BY <2>1, <2>2, <2>3, <2>4
<1>2. CASE TimeOut
  BY <1>2 DEF TimeOut, Handler
<1>3. CASE JudgeFailure
  BY <1>3 DEF JudgeFailure, Handler
<1>4. CASE CallAgain
  BY <1>4 DEF CallAgain, Handler
<1>5. ASSUME NEW h \in Handler, DoEffect(h) PROVE RaceInv'
  BY <1>5 DEF DoEffect
<1>6. ASSUME NEW h \in Handler, AnswerLate(h) PROVE RaceInv'
  BY <1>6 DEF AnswerLate
<1>7. ASSUME NEW h \in Handler, NEW verdict \in Verdicts, AnswerInTime(h, verdict) PROVE RaceInv'
  <2>1. h = now /\ phase = "await" /\ recorded = None /\ merged = {} /\ h \in started
        /\ \A g \in started : told[g] # "ok"
    BY <1>7 DEF AnswerInTime, Handler
  <2>2. told' = [told EXCEPT ![h] = verdict] /\ verdict # "timeout" /\ verdict # None
        /\ answered' = answered \cup {h} /\ UNCHANGED <<now, started, effects>>
    BY <1>7 DEF AnswerInTime
  <2>3. CASE verdict = "ok"
    <3>1. phase' = "done" /\ merged' = {h} /\ recorded' = h
      BY <1>7, <2>1, <2>3 DEF AnswerInTime
    <3>2. h # None
      BY DEF Handler
    <3>3. RaceTypeOK' /\ OneAnswerCounts'
      BY <2>1, <2>2, <3>1, <3>2
    <3>4. \A g \in started' : told'[g] = "ok" => recorded' = g
      BY <2>1, <2>2, <3>1
    <3> QED
      BY <2>1, <2>2, <2>3, <3>1, <3>3, <3>4
  <2>4. CASE verdict # "ok"
    BY <1>7, <2>1, <2>2, <2>4 DEF AnswerInTime
  <2> QED
    BY <2>3, <2>4
<1>8. CASE UNCHANGED raceVars
  BY <1>8 DEF raceVars
<1> QED
  BY <1>1, <1>2, <1>3, <1>4, <1>5, <1>6, <1>7, <1>8 DEF RaceNext, Executor

(* Once an answer is on record no handler starts, in this call or a resumed *)
(* run's; what happens after it are effects of attempts that timed out.     *)
THEOREM RecordAlwaysEndsAttempts ==
  ASSUME RaceAssumption, NoneAssumption PROVE RaceSpec => RecordEndsAttempts
<1>1. ASSUME RaceInv, [RaceNext]_raceVars, recorded # None
      PROVE  started' = started /\ \A h \in effects' \ effects : told[h] = "timeout"
  <2>1. phase = "done"
    BY <1>1 DEF RaceInv
  <2>2. \A h \in started \ answered : told[h] = "timeout"
    BY <1>1, <2>1 DEF RaceInv, RaceTypeOK, Awaited, Verdicts
  <2>3. started' = started /\ effects' \ effects \subseteq started \ answered
    BY <1>1, <2>1 DEF RaceInv, RaceNext, Executor, StartAttempt, TimeOut, JudgeFailure, CallAgain,
       DoEffect, AnswerLate, AnswerInTime, Awaited, raceVars
  <2> QED
    BY <2>2, <2>3
<1> QED
  BY <1>1, RaceBegins, RaceSteps, PTL DEF RaceSpec, RecordEndsAttempts

(* However late handlers answer, one patch is merged, it is the one on      *)
(* record, every other effect was reported failed or timed out, or is the   *)
(* awaited one, and no attempt follows the record (action-executor.ts:670). *)
THEOREM AnswersAlwaysCountOnce ==
  ASSUME RaceAssumption, NoneAssumption PROVE RaceSpec => AnswersCountOnce
<1>1. RaceInv => ExtraEffectsAreTold /\ OneAnswerCounts
  BY DEF RaceInv, RaceTypeOK, ExtraEffectsAreTold, Verdicts
<1> QED
  BY <1>1, RaceBegins, RaceSteps, RecordAlwaysEndsAttempts, PTL DEF RaceSpec, AnswersCountOnce

-----------------------------------------------------------------------------
(* ContextReplay: for any fields, values, patches, inputs and defaults.      *)

(* The contexts a replay comes by, after each of its frames.                *)
Contexts(c, frames, n, after) ==
  after = [i \in 0 .. n |-> IF i = 0 THEN c ELSE ApplyDelta(after[i - 1], frames[i])]

LEMMA ContextAt ==
  ASSUME NEW c, NEW frames, NEW n, NEW after, Contexts(c, frames, n, after), NEW i \in 0 .. n
  PROVE  after[i] = IF i = 0 THEN c ELSE ApplyDelta(after[i - 1], frames[i])
  BY DEF Contexts

(* There are such contexts for every number of frames.                      *)
LEMMA ContextsExist ==
  ASSUME NEW c, NEW frames, NEW n \in Nat
  PROVE  \E after : Contexts(c, frames, n, after)
<1> DEFINE Missing == {k \in Nat : ~ \E after : Contexts(c, frames, k, after)}
<1> SUFFICES ASSUME Missing # {} PROVE FALSE
  OBVIOUS
<1>1. PICK k \in Missing : \A j \in Missing : k <= j
  BY LeastExists
<1>2. k # 0
  <2> DEFINE one == [i \in 0 .. 0 |-> c]
  <2>1. Contexts(c, frames, 0, one)
    BY DEF Contexts
  <2> QED
    BY <1>1, <2>1
<1>3. k - 1 \in Nat /\ k - 1 \notin Missing
  BY <1>1, <1>2
<1>4. PICK before : Contexts(c, frames, k - 1, before)
  BY <1>3
<1> DEFINE more == [i \in 0 .. k |-> IF i = k THEN ApplyDelta(before[k - 1], frames[k])
                                     ELSE before[i]]
<1>5. ASSUME NEW i \in 0 .. k
      PROVE  more[i] = IF i = 0 THEN c ELSE ApplyDelta(more[i - 1], frames[i])
  <2>1. CASE i = k
    BY <1>1, <1>2, <2>1
  <2>2. CASE i # k
    <3>1. i \in 0 .. k - 1 /\ (i # 0 => i - 1 \in 0 .. k - 1 /\ i - 1 # k)
      BY <1>1, <2>2
    <3>2. before[i] = IF i = 0 THEN c ELSE ApplyDelta(before[i - 1], frames[i])
      BY <1>4, <3>1, ContextAt
    <3>3. more[i] = before[i] /\ (i # 0 => more[i - 1] = before[i - 1])
      BY <1>1, <2>2, <3>1
    <3> QED
      BY <3>2, <3>3
  <2> QED
    BY <2>1, <2>2
<1>6. Contexts(c, frames, k, more)
  BY <1>5 DEF Contexts
<1> QED
  BY <1>1, <1>6

SameUpTo(a, b, n) == \A i \in 1 .. n : a[i] = b[i]

(* They are the same for replays of the same frames.                        *)
LEMMA ContextsAreUnique ==
  ASSUME NEW c, NEW frames, NEW more, NEW m \in Nat, NEW n \in Nat, m <= n,
         SameUpTo(frames, more, m),
         NEW after, Contexts(c, frames, m, after), NEW longer, Contexts(c, more, n, longer)
  PROVE  \A i \in 0 .. m : after[i] = longer[i]
<1> DEFINE Differing == {i \in 0 .. m : after[i] # longer[i]}
<1> SUFFICES ASSUME Differing # {} PROVE FALSE
  OBVIOUS
<1>1. PICK k \in Differing : \A j \in Differing : k <= j
  <2>1. Differing \in SUBSET Nat
    OBVIOUS
  <2> QED
    BY <2>1, LeastExists
<1>2. /\ after[k] = IF k = 0 THEN c ELSE ApplyDelta(after[k - 1], frames[k])
      /\ longer[k] = IF k = 0 THEN c ELSE ApplyDelta(longer[k - 1], more[k])
  <2>1. k \in 0 .. m /\ k \in 0 .. n
    BY <1>1
  <2> QED
    BY <2>1, ContextAt
<1>3. k # 0 /\ k - 1 \in 0 .. m /\ k - 1 \notin Differing
  BY <1>1, <1>2
<1> QED
  BY <1>1, <1>2, <1>3 DEF SameUpTo

(* What Replayed is: the last of them.                                      *)
LEMMA ReplayedIs ==
  ASSUME NEW c, NEW frames, Len(frames) \in Nat
  PROVE  \E after : Contexts(c, frames, Len(frames), after) /\ Replayed(c, frames) = after[Len(frames)]
<1> DEFINE f == CHOOSE after : Contexts(c, frames, Len(frames), after)
<1>1. Contexts(c, frames, Len(frames), f)
  BY ContextsExist
<1>2. Replayed(c, frames) = f[Len(frames)]
  BY DEF Replayed, Contexts
<1> QED
  BY <1>1, <1>2

LEMMA ReplayedNothing ==
  ASSUME NEW c PROVE Replayed(c, <<>>) = c
<1>1. Len(<<>>) = 0
  OBVIOUS
<1>2. PICK after : Contexts(c, <<>>, 0, after) /\ Replayed(c, <<>>) = after[0]
  BY <1>1, ReplayedIs
<1> QED
  BY <1>2, ContextAt

LEMMA ReplayedOneMore ==
  ASSUME NEW S, NEW c, NEW frames \in Seq(S), NEW delta \in S
  PROVE  Replayed(c, Append(frames, delta)) = ApplyDelta(Replayed(c, frames), delta)
<1> DEFINE more == Append(frames, delta)
           n == Len(frames)
<1>1. /\ n \in Nat /\ Len(more) = n + 1 /\ more[n + 1] = delta
      /\ SameUpTo(frames, more, n)
  BY DEF SameUpTo
<1>2. PICK after : Contexts(c, frames, n, after) /\ Replayed(c, frames) = after[n]
  BY <1>1, ReplayedIs
<1> HIDE DEF more, n
<1>3. PICK longer : Contexts(c, more, n + 1, longer) /\ Replayed(c, more) = longer[n + 1]
  <2>1. n + 1 \in Nat
    BY <1>1
  <2>2. \E longer : Contexts(c, more, Len(more), longer) /\ Replayed(c, more) = longer[Len(more)]
    BY <1>1, <2>1, ReplayedIs
  <2> QED
    BY <1>1, <2>2
<1>4. after[n] = longer[n]
  <2>1. n + 1 \in Nat /\ n <= n + 1
    BY <1>1
  <2>2. \A i \in 0 .. n : after[i] = longer[i]
    BY <1>1, <1>2, <1>3, <2>1, ContextsAreUnique
  <2> QED
    BY <1>1, <2>2
<1>5. longer[n + 1] = ApplyDelta(longer[n], more[n + 1])
  <2> DEFINE last == n + 1
  <2>1. last \in 0 .. last /\ last # 0
    BY <1>1
  <2>2. Contexts(c, more, last, longer)
    BY <1>3
  <2>3. last - 1 = n
    BY <1>1
  <2> HIDE DEF last
  <2>4. longer[last] = ApplyDelta(longer[last - 1], more[last])
    BY <2>1, <2>2, ContextAt
  <2> QED
    BY <2>3, <2>4 DEF last
<1> QED
  BY <1>1, <1>2, <1>3, <1>4, <1>5 DEF more

-----------------------------------------------------------------------------
Entry == [field : Fields, value : Values]
Entries == Seq(Entry)

LEMMA ElementsAre ==
  ASSUME NEW S, NEW q \in Seq(S)
  PROVE  DOMAIN q = 1 .. Len(q) /\ Len(q) \in Nat /\ \A i \in DOMAIN q : q[i] \in S
  OBVIOUS

(* The first elements of a sequence.                                        *)
LEMMA FirstOnes ==
  ASSUME NEW S, NEW q \in Seq(S), NEW m \in 1 .. Len(q)
  PROVE  LET first == SubSeq(q, 1, m - 1)
         IN  first \in Seq(S) /\ DOMAIN first = 1 .. m - 1 /\ \A i \in 1 .. m - 1 : first[i] = q[i]
  OBVIOUS

LEMMA PatchesAreEntries ==
  ASSUME NEW patch \in Patches PROVE patch \in Entries
  BY ReplayAssumption DEF Entries, Entry

Accepted(entries) ==
  \A i \in DOMAIN entries : ~ FieldRefused(context[entries[i].field], entries[i].value)

(* What an entry holds for a field.                                         *)
LEMMA ValueForIs ==
  ASSUME NEW entries \in Entries, NEW f, Touches(entries, f)
  PROVE  \E i \in DOMAIN entries : entries[i].field = f /\ ValueFor(entries, f) = entries[i].value
                                   /\ ValueFor(entries, f) \in Values
<1>1. PICK i \in DOMAIN entries : entries[i].field = f
  BY DEF Touches
<1> DEFINE k == CHOOSE j \in DOMAIN entries : entries[j].field = f
<1>2. k \in DOMAIN entries /\ entries[k].field = f
  BY <1>1
<1>3. entries[k] \in Entry
  BY <1>2, ElementsAre DEF Entries
<1> QED
  BY <1>2, <1>3 DEF ValueFor, Entry

(* What a merge makes of a field that holds something: a value of its type. *)
LEMMA MergeKeepsTags ==
  ASSUME ReplayTypeOK, NEW entries \in Entries, Accepted(entries)
  PROVE  /\ Merged(entries) \in [Fields -> AllValues]
         /\ \A f \in Fields : context[f] # NoField => Merged(entries)[f].tag = context[f].tag
<1> SUFFICES ASSUME NEW f \in Fields
             PROVE  /\ Merged(entries)[f] \in AllValues
                    /\ context[f] # NoField => Merged(entries)[f].tag = context[f].tag
  BY DEF Merged
<1>1. context[f] \in AllValues
  BY DEF ReplayTypeOK
<1>2. CASE ~ Touches(entries, f)
  BY <1>1, <1>2 DEF Merged
<1>3. CASE Touches(entries, f)
  <2>1. PICK i \in DOMAIN entries : entries[i].field = f /\ ValueFor(entries, f) = entries[i].value
                                   /\ ValueFor(entries, f) \in Values
    BY <1>3, ValueForIs
  <2> DEFINE v == ValueFor(entries, f)
  <2>2. ~ FieldRefused(context[f], v) /\ v \in AllValues
    BY <2>1, ReplayAssumption DEF Accepted
  <2>3. Merged(entries)[f] = MergedField(context[f], v)
    BY <1>3 DEF Merged
  <2> HIDE DEF v
  <2>4. MergedField(context[f], v) \in AllValues
    <3>1. CASE ObjectsMerge(context[f], v)
      <4>1. context[f].tag = "object" /\ v.tag = "object"
        BY <3>1 DEF ObjectsMerge
      <4>2. context[f].content \cup v.content \in SUBSET UNION {w.content : w \in Values}
        BY <1>1, <2>2, <4>1 DEF AllValues, NoField, Null
      <4> QED
        BY <3>1, <4>2 DEF MergedField, AllValues
    <3>2. CASE ~ ObjectsMerge(context[f], v)
      BY <2>2, <3>2 DEF MergedField
    <3> QED
      BY <3>1, <3>2
  <2>5. ASSUME context[f] # NoField PROVE MergedField(context[f], v).tag = context[f].tag
    BY <2>2, <2>5 DEF MergedField, ObjectsMerge, FieldRefused
  <2> QED
    BY <2>3, <2>4, <2>5
<1> QED
  BY <1>2, <1>3

LEMMA OnlyNoFieldIsUndefined ==
  ASSUME NEW v \in AllValues, v # NoField PROVE v.tag # "undefined"
<1>1. CASE v = Null
  BY <1>1 DEF Null
<1>2. CASE v \in [tag : {"array", "string", "object"},
                  content : SUBSET UNION {w.content : w \in Values}]
  <2> DEFINE C == SUBSET UNION {w.content : w \in Values}
  <2>1. v \in [tag : {"array", "string", "object"}, content : C]
    BY <1>2
  <2> HIDE DEF C
  <2> QED
    BY <2>1
<1> QED
  BY <1>1, <1>2 DEF AllValues

(* Where fields keep their types, a refused patch is refused again.         *)
TagsKept == \A f \in Fields : context[f] # NoField => context'[f].tag = context[f].tag

LEMMA RefusedAgain ==
  ASSUME ReplayTypeOK, ReplayTypeOK', TagsKept, policy' = policy, NEW patch \in Patches,
         Refusals(patch) # {}
  PROVE  Refusals(patch)' # {}
<1>1. PICK i \in DOMAIN patch : FieldRefused(context[patch[i].field], patch[i].value)
  BY DEF Refusals
<1> DEFINE f == patch[i].field
<1>2. f \in Fields
  <2>1. patch[i] \in Entry
    BY <1>1, PatchesAreEntries, ElementsAre DEF Entries
  <2> QED
    BY <2>1 DEF Entry
<1>3. context[f] \in AllValues /\ context'[f] \in AllValues
  BY <1>2 DEF ReplayTypeOK
<1> HIDE DEF f
<1>4. context[f] # NoField => context'[f] # NoField
  <2>1. context[f] # NoField => context[f].tag # "undefined"
    BY <1>3, OnlyNoFieldIsUndefined
  <2> QED
    BY <1>2, <2>1 DEF TagsKept, NoField
<1>5. FieldRefused(context[f], patch[i].value)'
  BY <1>1, <1>2, <1>4 DEF FieldRefused, TagsKept, f
<1> QED
  BY <1>5 DEF Refusals, f

ReplayInv == ReplayTypeOK /\ ReplayErrsOnlyWhere /\ RefusalStands

LEMMA ReplayBegins == ReplayInit => ReplayInv
<1> SUFFICES ASSUME NEW p \in Policy, NEW d \in Defaults, NEW in \in Inputs, ReplayStart(p, d, in)
             PROVE  ReplayInv
  BY DEF ReplayInit
<1>1. in \in [Fields -> AllValues] /\ d \in [Fields -> AllValues] /\ MaxResumptions \in Nat
  BY ReplayAssumption
<1>2. deltas \in Seq(Patches) /\ deltas = <<>> /\ policy \in Policy /\ beginning = in
  BY DEF ReplayStart
<1>3. ReplayTypeOK
  <2>1. context \in [Fields -> AllValues]
    BY <1>1 DEF ReplayStart
  <2>2. beginning \in Inputs /\ records \subseteq Patches /\ refused \subseteq Patches
        /\ blurred \subseteq Fields /\ ended \in BOOLEAN /\ resumptions \in 0 .. MaxResumptions
    <3>1. blurred \subseteq Fields
      BY DEF ReplayStart
    <3>2. 0 \in 0 .. MaxResumptions
      BY <1>1
    <3> QED
      BY <3>1, <3>2 DEF ReplayStart
  <2> QED
    BY <1>2, <2>1, <2>2 DEF ReplayTypeOK
<1>4. Rebuilt = in
  BY <1>2, ReplayedNothing DEF Rebuilt
<1>5. ReplayErrsOnlyWhere
  BY <1>1, <1>4 DEF ReplayErrsOnlyWhere, ReplayStart
<1>6. RefusalStands
  BY DEF RefusalStands, ReplayStart
<1> QED
  BY <1>3, <1>5, <1>6 DEF ReplayInv

(* Frames are added one by one.                                             *)
LEMMA RebuiltOneMore ==
  ASSUME ReplayTypeOK, NEW patch \in Patches, deltas' = Append(deltas, patch),
         beginning' = beginning
  PROVE  Rebuilt' = ApplyDelta(Rebuilt, patch) /\ deltas' \in Seq(Patches)
<1>1. deltas \in Seq(Patches)
  BY DEF ReplayTypeOK
<1>2. Replayed(beginning, Append(deltas, patch)) = ApplyDelta(Replayed(beginning, deltas), patch)
  BY <1>1, ReplayedOneMore
<1>3. Rebuilt' = Replayed(beginning', deltas')
  BY DEF Rebuilt
<1> QED
  BY <1>1, <1>2, <1>3 DEF Rebuilt

LEMMA SucceedKeeps ==
  ASSUME ReplayInv, NEW patch \in Patches, SucceedAction(patch)
  PROVE  ReplayInv' /\ TagsKept
<1> USE DEF ReplayInv
<1>1. patch \in Entries /\ Accepted(patch)
  BY PatchesAreEntries DEF Accepted, SucceedAction, Refusals
<1>2. context' = Merged(patch) /\ policy' = policy /\ refused' = refused
  BY DEF SucceedAction
<1>3. context' \in [Fields -> AllValues] /\ TagsKept
  BY <1>1, <1>2, MergeKeepsTags DEF TagsKept
<1>4. Rebuilt' = ApplyDelta(Rebuilt, patch) /\ deltas' \in Seq(Patches)
  BY RebuiltOneMore DEF SucceedAction
<1>5. ReplayTypeOK'
  BY <1>3, <1>4 DEF SucceedAction, ReplayTypeOK
<1>6. ASSUME NEW f \in Fields \ blurred' PROVE Rebuilt'[f] = context'[f]
  <2>1. CASE ~ Touches(patch, f)
    <3>1. f \notin blurred
      BY <1>6, <2>1 DEF SucceedAction
    <3> QED
      BY <1>2, <1>4, <2>1, <3>1 DEF ApplyDelta, Merged, ReplayErrsOnlyWhere
  <2>2. CASE Touches(patch, f)
    <3> DEFINE v == ValueFor(patch, f)
    <3>1. v # Null /\ (policy.strategy = "shallow" \/ context[f] = NoField)
      BY <1>6, <2>2 DEF SucceedAction
    <3>2. Rebuilt'[f] = v
      BY <1>4, <2>2, <3>1 DEF ApplyDelta
    <3>3. context'[f] = MergedField(context[f], v)
      BY <1>2, <2>2 DEF Merged
    <3>4. ~ ObjectsMerge(context[f], v)
      BY <3>1 DEF ObjectsMerge, NoField
    <3> QED
      BY <3>2, <3>3, <3>4 DEF MergedField
  <2> QED
    BY <2>1, <2>2
<1>7. RefusalStands'
  BY <1>2, <1>3, <1>5, RefusedAgain DEF RefusalStands, ReplayTypeOK
<1> QED
  BY <1>3, <1>5, <1>6, <1>7 DEF ReplayErrsOnlyWhere

(* The entries before the first refused one.                                *)
LEMMA BeforeTheRefused ==
  ASSUME NEW patch \in Patches, Refusals(patch) # {}
  PROVE  LET entries == SubSeq(patch, 1, Min(Refusals(patch)) - 1)
         IN  entries \in Entries /\ Accepted(entries)
<1> DEFINE m == Min(Refusals(patch))
           entries == SubSeq(patch, 1, m - 1)
<1>1. patch \in Entries /\ DOMAIN patch = 1 .. Len(patch) /\ Len(patch) \in Nat
  BY PatchesAreEntries, ElementsAre DEF Entries
<1>2. Refusals(patch) \in SUBSET Nat
  BY <1>1 DEF Refusals
<1>3. m \in Refusals(patch) /\ \A j \in Refusals(patch) : m <= j
  BY <1>2, LeastExists DEF Min
<1>4. m \in 1 .. Len(patch)
  BY <1>1, <1>3 DEF Refusals
<1> HIDE DEF m
<1>5. /\ entries \in Entries /\ DOMAIN entries = 1 .. m - 1
      /\ \A i \in 1 .. m - 1 : entries[i] = patch[i]
  BY <1>1, <1>4, FirstOnes DEF Entries
<1>6. ASSUME NEW i \in 1 .. m - 1 PROVE i \notin Refusals(patch) /\ i \in DOMAIN patch
  BY <1>1, <1>2, <1>3, <1>4
<1>7. Accepted(entries)
  BY <1>5, <1>6 DEF Accepted, Refusals
<1> QED
  BY <1>5, <1>7 DEF m

LEMMA RefuseKeeps ==
  ASSUME ReplayInv, NEW patch \in Patches, RefusePatch(patch)
  PROVE  ReplayInv' /\ TagsKept
<1> USE DEF ReplayInv
<1> DEFINE entries == SubSeq(patch, 1, Min(Refusals(patch)) - 1)
<1>1. Refusals(patch) # {} /\ entries \in Entries /\ Accepted(entries)
  BY BeforeTheRefused DEF RefusePatch
<1>2. /\ context' = Merged(entries) /\ policy' = policy /\ refused' = refused \cup {patch}
      /\ blurred' = blurred \cup {f \in Fields : Touches(entries, f)}
      /\ UNCHANGED <<deltas, beginning>>
  BY DEF RefusePatch
<1> HIDE DEF entries
<1>3. context' \in [Fields -> AllValues] /\ TagsKept
  BY <1>1, <1>2, MergeKeepsTags DEF TagsKept
<1>4. ReplayTypeOK'
  BY <1>2, <1>3 DEF RefusePatch, ReplayTypeOK
<1>5. Rebuilt' = Rebuilt
  BY <1>2 DEF Rebuilt
<1>6. ASSUME NEW f \in Fields \ blurred' PROVE Rebuilt'[f] = context'[f]
  BY <1>2, <1>5, <1>6 DEF Merged, ReplayErrsOnlyWhere
<1>7. RefusalStands'
  BY <1>1, <1>2, <1>3, <1>4, RefusedAgain DEF RefusalStands, ReplayTypeOK
<1> QED
  BY <1>3, <1>4, <1>6, <1>7 DEF ReplayErrsOnlyWhere

LEMMA ReplayedKeeps ==
  ASSUME ReplayInv, NEW patch \in Patches, ReplayAction(patch)
  PROVE  ReplayInv' /\ TagsKept
<1> USE DEF ReplayInv
<1>1. /\ UNCHANGED <<policy, beginning, context, records, refused, ended, resumptions>>
      /\ blurred' = blurred \cup {f \in Fields : Touches(patch, f)}
  BY DEF ReplayAction
<1>2. Rebuilt' = ApplyDelta(Rebuilt, patch) /\ deltas' \in Seq(Patches)
  BY RebuiltOneMore DEF ReplayAction
<1>3. ReplayTypeOK' /\ TagsKept
  BY <1>1, <1>2 DEF ReplayTypeOK, TagsKept
<1>4. ReplayErrsOnlyWhere'
  BY <1>1, <1>2 DEF ReplayErrsOnlyWhere, ApplyDelta
<1>5. RefusalStands'
  BY <1>1 DEF RefusalStands, Refusals, FieldRefused
<1> QED
  BY <1>3, <1>4, <1>5

LEMMA ResumeKeeps ==
  ASSUME ReplayInv, NEW in \in Inputs, ResumeEnded(in)
  PROVE  ReplayInv' /\ TagsKept
<1> USE DEF ReplayInv
<1>1. /\ UNCHANGED <<policy, context, records, refused>> /\ beginning' = in
      /\ blurred' = {f \in Fields : in[f] # context[f]} /\ deltas' = <<>>
  BY DEF ResumeEnded
<1>2. Rebuilt' = in
  BY <1>1, ReplayedNothing DEF Rebuilt
<1>3. deltas' \in Seq(Patches)
  BY <1>1
<1>4. resumptions' \in 0 .. MaxResumptions
  BY ReplayAssumption DEF ResumeEnded, ReplayTypeOK
<1>5. ReplayTypeOK' /\ TagsKept
  BY <1>1, <1>3, <1>4 DEF ReplayTypeOK, TagsKept, ResumeEnded
<1>6. ReplayErrsOnlyWhere'
  BY <1>1, <1>2 DEF ReplayErrsOnlyWhere
<1>7. RefusalStands'
  BY <1>1 DEF RefusalStands, Refusals, FieldRefused
<1> QED
  BY <1>5, <1>6, <1>7

LEMMA ReplayMovesOn ==
  ASSUME ReplayInv, [ReplayNext]_replayVars PROVE ReplayInv' /\ TagsKept
<1>1. CASE UNCHANGED replayVars
  <2>1. UNCHANGED <<policy, beginning, context, deltas, records, refused, blurred, ended, resumptions>>
    BY <1>1 DEF replayVars
  <2> QED
    BY <2>1 DEF ReplayInv, ReplayTypeOK, TagsKept, ReplayErrsOnlyWhere, RefusalStands, Rebuilt,
       Refusals, FieldRefused
<1> QED
  BY <1>1, SucceedKeeps, RefuseKeeps, ReplayedKeeps, ResumeKeeps DEF ReplayNext

(* For any patches, inputs and defaults: the context rebuilt from a trace   *)
(* is the run's but where ContextReplay says, a refused patch is refused    *)
(* for good, and no field changes its type (context-merge.ts:99,            *)
(* context-diff.ts:82).                                                     *)
THEOREM ContextAlwaysStands == ReplaySpec => ContextStands
<1>1. ReplayInv => ReplayErrsOnlyWhere /\ RefusalStands
  BY DEF ReplayInv
<1>2. ASSUME ReplayInv, [ReplayNext]_replayVars
      PROVE  [\A f \in Fields : context[f] # NoField => context'[f].tag = context[f].tag]_replayVars
  BY <1>2, ReplayMovesOn DEF TagsKept
<1> QED
  BY <1>1, <1>2, ReplayBegins, ReplayMovesOn, PTL DEF ReplaySpec, ContextStands, FieldTypeIsForLife

-----------------------------------------------------------------------------
(* TraceReports: for any bounds and any files, what is told of a trace.      *)

LineTypes == StepTypes \cup {"run.started", "intent.resolved"}
Lines ==
  [n : Nat, ts : 0 .. MaxTime, type : LineTypes, state : {Nil, "first", "second"},
   error : {Nil, "E_RUN", "E_ACTION", "POLICY_DENIED"}]

(* What may follow a line: nothing follows an end, a failed action ends the  *)
(* run with its code or is tried again, and one that is tried is answered.   *)
Follows(d, e) ==
  /\ d.type \notin Ends
  /\ d.type = "action.failed" =>
       e.type = "action.started" \/ (e.type = "run.failed" /\ e.error = d.error)
  /\ d.type = "action.started" => e.type \in {"action.succeeded", "action.failed"}

InNumber(q) == \A k \in 1 .. Len(q) : q[k].n = k
Chained(q) == \A k \in 1 .. Len(q) - 1 : Follows(q[k], q[k + 1])
InTime(q) == \A j, k \in 1 .. Len(q) : j <= k => q[j].ts <= q[k].ts

WrittenInv ==
  /\ written \in Seq(Lines) /\ written # <<>>
  /\ InNumber(written) /\ Chained(written)
  /\ wallClock \in 0 .. MaxTime /\ setBack \in BOOLEAN /\ cut \in BOOLEAN
  /\ ~ setBack => InTime(written) /\ \A k \in 1 .. Len(written) : written[k].ts <= wallClock

Leading(ev, q) == Len(ev) <= Len(q) /\ \A i \in 1 .. Len(ev) : ev[i] = q[i]
ReadBefore(ev) ==
  \/ cut /\ ev = <<>>
  \/ ev \in Seq(Lines) /\ ev # <<>> /\ Leading(ev, written)
ToldInv ==
  /\ report.phase \in {"none", "reading", "done"}
  /\ report.phase = "reading" => ReadBefore(report.events)
  /\ report.phase = "done" => \E ev : ReadBefore(ev) /\ report = AuditBundle(ev, ReadTrace)

RunsFound == UNION {Range(TraceFiles[f]) : f \in DOMAIN TraceFiles}
ViewInv ==
  /\ view \in [file : DOMAIN TraceFiles \cup {Nil}, run : RunsFound \cup {Nil}, failed : BOOLEAN]
  /\ IF view.file = Nil THEN view.run = Nil ELSE view.run \in Range(TraceFiles[view.file])
  /\ loads \subseteq DOMAIN TraceFiles

LEMMA LineIs ==
  ASSUME WrittenInv, NEW t \in LineTypes, NEW s \in {Nil, "first", "second"},
         NEW r \in {Nil, "E_RUN", "E_ACTION", "POLICY_DENIED"}
  PROVE  /\ Line(t, s, r) \in Lines /\ Line(t, s, r).n = Len(written) + 1
         /\ Line(t, s, r).ts = wallClock /\ Line(t, s, r).type = t
         /\ Line(t, s, r).error = r
<1>1. Len(written) + 1 \in Nat /\ wallClock \in 0 .. MaxTime
  BY DEF WrittenInv
<1> QED
  BY <1>1 DEF Line, Lines

LEMMA LastIs ==
  ASSUME WrittenInv
  PROVE  /\ Len(written) \in Nat \ {0} /\ LastWritten = written[Len(written)]
         /\ LastWritten \in Lines
<1>1. Len(written) \in Nat \ {0}
  BY DEF WrittenInv
<1> QED
  BY <1>1 DEF WrittenInv, LastWritten

(* Every line a run may write next is one, and follows the last.            *)
LEMMA NextLine ==
  ASSUME WrittenInv, NEW e \in NextEvents
  PROVE  /\ e \in Lines /\ e.n = Len(written) + 1 /\ e.ts = wallClock
         /\ Follows(LastWritten, e)
<1> DEFINE d == LastWritten
           Becomes(t, r) == \E s \in {Nil, "first", "second"} : e = Line(t, s, r)
<1>1. d \in Lines
  BY LastIs
<1>2. /\ d.type \in LineTypes /\ d.state \in {Nil, "first", "second"}
      /\ d.error \in {Nil, "E_RUN", "E_ACTION", "POLICY_DENIED"}
  BY <1>1 DEF Lines
<1>3. \A x \in Fails : x = Line("run.failed", d.state, "E_RUN")
  BY DEF Fails, Failure
<1>4. \A T : \A x \in InState(T) : \E t \in T : x = Line(t, d.state, Nil)
  BY DEF InState
<1> HIDE DEF d
<1>5. \E t \in LineTypes, s \in {Nil, "first", "second"},
         r \in {Nil, "E_RUN", "E_ACTION", "POLICY_DENIED"} :
        /\ e = Line(t, s, r)
        /\ d.type \notin Ends
        /\ d.type = "action.failed" => t = "action.started" \/ (t = "run.failed" /\ r = d.error)
        /\ d.type = "action.started" => t \in {"action.succeeded", "action.failed"}
  <2>0. /\ d.type = LastWritten.type /\ d.state = LastWritten.state /\ d.error = LastWritten.error
        /\ e \in NextEvents
    BY DEF d
  <2>1. CASE d.type \in {"run.started", "intent.resolved"}
    BY <1>2, <1>3, <2>0, <2>1 DEF NextEvents, LineTypes, StepTypes, Ends
  <2>2. CASE d.type \in {"state.entered", "action.succeeded"}
    <3>1. \/ e \in InState({"action.started", "handoff.requested", "transition.resolved",
                            "state.exited"})
          \/ e \in Fails
          \/ e = Line("action.failed", d.state, "POLICY_DENIED")
      BY <2>0, <2>2 DEF NextEvents, Working
    <3> QED
      BY <1>2, <1>3, <1>4, <2>2, <3>1 DEF LineTypes, StepTypes, Ends
  <2>3. CASE d.type = "action.started"
    <3>1. e \in InState({"action.succeeded"}) \/ e = Line("action.failed", d.state, "E_ACTION")
      BY <2>0, <2>3 DEF NextEvents
    <3> QED
      BY <1>2, <1>4, <2>3, <3>1 DEF LineTypes, StepTypes, Ends
  <2>4. CASE d.type = "action.failed"
    <3>1. e \in InState({"action.started"}) \/ e = Line("run.failed", d.state, d.error)
      BY <2>0, <2>4 DEF NextEvents
    <3> QED
      BY <1>2, <1>4, <2>4, <3>1 DEF LineTypes, StepTypes, Ends
  <2>5. CASE d.type = "transition.resolved"
    <3>1. e \in InState({"state.exited"})
      BY <2>0, <2>5 DEF NextEvents
    <3> QED
      BY <1>2, <1>4, <2>5, <3>1 DEF LineTypes, StepTypes, Ends
  <2>6. CASE d.type = "state.exited"
    <3>1. \/ e \in InState({"run.completed", "handoff.requested"}) \/ e \in Fails
          \/ e = Line("state.entered", "second", Nil)
      BY <2>0, <2>6 DEF NextEvents
    <3> QED
      BY <1>2, <1>3, <1>4, <2>6, <3>1 DEF LineTypes, StepTypes, Ends
  <2>7. CASE d.type \in Ends
    <3>1. e \in {}
      BY <2>0, <2>7 DEF NextEvents, Ends
    <3> QED
      BY <3>1
  <2> QED
    BY <1>2, <2>1, <2>2, <2>3, <2>4, <2>5, <2>6, <2>7 DEF LineTypes, StepTypes
<1>6. PICK t \in LineTypes, s \in {Nil, "first", "second"},
           r \in {Nil, "E_RUN", "E_ACTION", "POLICY_DENIED"} :
        /\ e = Line(t, s, r)
        /\ d.type \notin Ends
        /\ d.type = "action.failed" => t = "action.started" \/ (t = "run.failed" /\ r = d.error)
        /\ d.type = "action.started" => t \in {"action.succeeded", "action.failed"}
  BY <1>5
<1>7. e \in Lines /\ e.n = Len(written) + 1 /\ e.ts = wallClock /\ e.type = t /\ e.error = r
  BY <1>6, LineIs
<1> QED
  BY <1>6, <1>7 DEF Follows, d

TellingInv == WrittenInv /\ ToldInv /\ ViewInv

LEMMA ReportBegins == ASSUME ReportsAssumption, ReportInit PROVE TellingInv
<1> DEFINE first == [n |-> 1, ts |-> 0, type |-> "run.started", state |-> Nil, error |-> Nil]
<1>1. first \in Lines
  BY DEF ReportsAssumption, Lines, LineTypes
<1>2. written = <<first>>
  BY DEF ReportInit
<1> HIDE DEF first
<1>3. written \in Seq(Lines) /\ Len(written) = 1 /\ written[1] = first /\ written # <<>>
  BY <1>1, <1>2
<1>4. first.n = 1 /\ first.ts = 0
  BY DEF first
<1>5. wallClock \in 0 .. MaxTime /\ wallClock = 0 /\ setBack = FALSE /\ cut = FALSE
  BY DEF ReportInit, ReportsAssumption
<1>6. InNumber(written) /\ Chained(written)
  BY <1>3, <1>4 DEF InNumber, Chained
<1>7. InTime(written) /\ \A k \in 1 .. Len(written) : written[k].ts <= wallClock
  <2>1. \A k \in 1 .. Len(written) : k = 1
    BY <1>3
  <2>2. \A k \in 1 .. Len(written) : written[k].ts = 0
    BY <1>3, <1>4, <2>1
  <2> QED
    BY <1>5, <2>2 DEF InTime
<1>8. WrittenInv
  BY <1>3, <1>5, <1>6, <1>7 DEF WrittenInv
<1>9. ToldInv
  BY DEF ReportInit, ToldInv
<1>10. ViewInv
  BY DEF ReportInit, ViewInv
<1> QED
  BY <1>8, <1>9, <1>10 DEF TellingInv

LEMMA WriteEventKeeps ==
  ASSUME ReportsAssumption, TellingInv, WriteEvent PROVE WrittenInv' /\ ToldInv'
<1>1. WrittenInv /\ ToldInv
  BY DEF TellingInv
<1>2. PICK e \in NextEvents : written' = Append(written, e)
  BY DEF WriteEvent
<1>3. /\ UNCHANGED <<wallClock, setBack, cut, report>>
      /\ report.phase # "done" /\ ~ cut
  BY DEF WriteEvent, Untold
<1> DEFINE n == Len(written)
<1>4. /\ n \in Nat \ {0} /\ written \in Seq(Lines) /\ LastWritten = written[n]
  BY <1>1, LastIs DEF WrittenInv
<1>5. e \in Lines /\ e.n = n + 1 /\ e.ts = wallClock /\ Follows(written[n], e)
  BY <1>1, <1>4, NextLine
<1>6. /\ written' \in Seq(Lines) /\ Len(written') = n + 1 /\ written' # <<>>
      /\ written'[n + 1] = e /\ \A k \in 1 .. n : written'[k] = written[k]
  BY <1>2, <1>4, <1>5
<1>7. InNumber(written')
  BY <1>1, <1>4, <1>5, <1>6 DEF WrittenInv, InNumber
<1>8. Chained(written')
  <2>1. ASSUME NEW k \in 1 .. n PROVE Follows(written'[k], written'[k + 1])
    <3>1. CASE k = n
      BY <1>4, <1>5, <1>6, <3>1
    <3>2. CASE k # n
      <4>1. k \in 1 .. n - 1 /\ k + 1 \in 1 .. n
        BY <1>4, <2>1, <3>2
      <4> QED
        BY <1>1, <1>6, <4>1 DEF WrittenInv, Chained
    <3> QED
      BY <3>1, <3>2
  <2>2. Len(written') - 1 = n
    BY <1>4, <1>6
  <2> QED
    BY <2>1, <2>2 DEF Chained
<1>9. ASSUME ~ setBack
      PROVE  InTime(written') /\ \A k \in 1 .. Len(written') : written'[k].ts <= wallClock
  <2>1. /\ \A j, k \in 1 .. n : j <= k => written[j].ts <= written[k].ts
        /\ \A k \in 1 .. n : written[k].ts <= wallClock
        /\ wallClock \in Nat
    BY <1>1, <1>9 DEF WrittenInv, InTime, ReportsAssumption
  <2>2. \A k \in 1 .. n + 1 : written'[k].ts <= wallClock
    <3>1. \A k \in 1 .. n + 1 : k \in 1 .. n \/ k = n + 1
      BY <1>4
    <3>2. wallClock <= wallClock
      BY <2>1
    <3> QED
      BY <1>5, <1>6, <2>1, <3>1, <3>2
  <2>3. ASSUME NEW j \in 1 .. n + 1, NEW k \in 1 .. n + 1, j <= k
        PROVE  written'[j].ts <= written'[k].ts
    <3>1. CASE k = n + 1
      BY <1>5, <1>6, <2>2, <3>1
    <3>2. CASE k # n + 1
      BY <1>4, <1>6, <2>1, <2>3, <3>2
    <3> QED
      BY <3>1, <3>2
  <2> QED
    BY <1>6, <2>2, <2>3 DEF InTime
<1>10. WrittenInv'
  BY <1>1, <1>3, <1>6, <1>7, <1>8, <1>9 DEF WrittenInv
<1>11. ToldInv'
  <2>1. ASSUME NEW ev, ReadBefore(ev) PROVE ReadBefore(ev)'
    <3>1. ev \in Seq(Lines) /\ ev # <<>> /\ Leading(ev, written)
      BY <1>3, <2>1 DEF ReadBefore
    <3>2. Leading(ev, written')
      BY <1>4, <1>6, <3>1 DEF Leading
    <3> QED
      BY <3>1, <3>2 DEF ReadBefore
  <2> QED
    BY <1>1, <1>3, <2>1 DEF ToldInv
<1> HIDE DEF n
<1> QED
  BY <1>10, <1>11

LEMMA ClockKeeps ==
  ASSUME ReportsAssumption, TellingInv, Pass \/ ClockSetBack \/ Die PROVE WrittenInv' /\ ToldInv'
<1>1. WrittenInv /\ ToldInv
  BY DEF TellingInv
<1>2. UNCHANGED <<written, report>> /\ report.phase # "done"
  BY DEF Pass, ClockSetBack, Die, Untold
<1>3. /\ wallClock' \in 0 .. MaxTime /\ setBack' \in BOOLEAN /\ cut' \in BOOLEAN
      /\ (~ setBack' => ~ setBack /\ wallClock <= wallClock') /\ (cut => cut')
  <2>1. /\ wallClock \in 0 .. MaxTime /\ setBack \in BOOLEAN /\ cut \in BOOLEAN
        /\ MaxTime \in Nat
    BY <1>1 DEF WrittenInv, ReportsAssumption
  <2>2. CASE Pass
    <3>1. wallClock < MaxTime /\ wallClock' = wallClock + 1 /\ UNCHANGED <<setBack, cut>>
      BY <2>2 DEF Pass
    <3> QED
      BY <2>1, <3>1
  <2>3. CASE ClockSetBack
    <3>1. wallClock > 0 /\ wallClock' = wallClock - 1 /\ setBack' = TRUE /\ UNCHANGED cut
      BY <2>3 DEF ClockSetBack
    <3> QED
      BY <2>1, <3>1
  <2>4. CASE Die
    <3>1. cut' = TRUE /\ UNCHANGED <<wallClock, setBack>>
      BY <2>4 DEF Die
    <3> QED
      BY <2>1, <3>1
  <2> QED
    BY <2>2, <2>3, <2>4
<1>4. ASSUME ~ setBack'
      PROVE  InTime(written) /\ \A k \in 1 .. Len(written) : written[k].ts <= wallClock'
  <2>1. InTime(written) /\ \A k \in 1 .. Len(written) : written[k].ts <= wallClock
    BY <1>1, <1>3, <1>4 DEF WrittenInv
  <2>2. \A k \in 1 .. Len(written) : written[k].ts \in 0 .. MaxTime
    <3>1. written \in Seq(Lines)
      BY <1>1 DEF WrittenInv
    <3>2. \A k \in 1 .. Len(written) : written[k] \in Lines
      BY <3>1
    <3> QED
      BY <3>2 DEF Lines
  <2>3. /\ wallClock \in Nat /\ wallClock' \in Nat /\ wallClock <= wallClock'
        /\ MaxTime \in Nat
    BY <1>1, <1>3, <1>4 DEF WrittenInv, ReportsAssumption
  <2> QED
    BY <2>1, <2>2, <2>3
<1>5. WrittenInv'
  BY <1>1, <1>2, <1>3, <1>4 DEF WrittenInv
<1>6. ToldInv'
  BY <1>1, <1>2, <1>3 DEF ToldInv, ReadBefore
<1> QED
  BY <1>5, <1>6

LEMMA ReadingKeeps ==
  ASSUME TellingInv, ReadEvents \/ ReadSummary PROVE WrittenInv' /\ ToldInv'
<1>1. WrittenInv /\ ToldInv
  BY DEF TellingInv
<1>2. UNCHANGED <<written, wallClock, setBack, cut>>
  BY DEF ReadEvents, ReadSummary
<1>3. WrittenInv'
  BY <1>1, <1>2 DEF WrittenInv
<1>4. CASE ReadEvents
  <2>1. report' = [phase |-> "reading", events |-> ReadTrace]
    BY <1>4 DEF ReadEvents
  <2>2. Leading(written, written)
    BY <1>1 DEF Leading, WrittenInv
  <2>3. ReadBefore(ReadTrace)
    BY <1>1, <2>2 DEF ReadBefore, ReadTrace, WrittenInv
  <2>4. ReadBefore(ReadTrace)'
    BY <1>2, <2>3 DEF ReadBefore, ReadTrace
  <2>5. ReadTrace' = ReadTrace
    BY <1>2 DEF ReadTrace
  <2> QED
    BY <1>3, <2>1, <2>4, <2>5 DEF ToldInv
<1>5. CASE ReadSummary
  <2>1. report.phase = "reading" /\ report' = AuditBundle(report.events, ReadTrace)
    BY <1>5 DEF ReadSummary
  <2>2. ReadBefore(report.events)
    BY <1>1, <2>1 DEF ToldInv
  <2>3. \A ev : ReadBefore(ev) => ReadBefore(ev)'
    BY <1>2 DEF ReadBefore
  <2>4. ReadTrace' = ReadTrace
    BY <1>2 DEF ReadTrace
  <2>5. report'.phase = "done"
    BY <2>1 DEF AuditBundle
  <2>6. \E ev : ReadBefore(ev)' /\ report' = AuditBundle(ev, ReadTrace)
    BY <2>1, <2>2, <2>3
  <2> QED
    BY <1>3, <2>4, <2>5, <2>6 DEF ToldInv
<1> QED
  BY <1>3, <1>4, <1>5

LEMMA ViewingKeeps ==
  ASSUME ReportsAssumption, TellingInv, Viewing PROVE TellingInv'
<1>1. ViewInv /\ WrittenInv /\ ToldInv
  BY DEF TellingInv
<1>2. UNCHANGED <<written, wallClock, setBack, cut, report>>
  BY DEF Viewing
<1>3. WrittenInv' /\ ToldInv'
  BY <1>1, <1>2 DEF WrittenInv, ToldInv, ReadBefore, ReadTrace
<1>4. view \in [file : DOMAIN TraceFiles \cup {Nil}, run : RunsFound \cup {Nil}, failed : BOOLEAN]
      /\ loads \subseteq DOMAIN TraceFiles
  BY <1>1 DEF ViewInv
<1>5. ASSUME NEW f \in DOMAIN TraceFiles, BeginLoad(f) \/ EndLoad(f) PROVE ViewInv'
  <2>1. CASE BeginLoad(f)
    BY <1>1, <1>4, <2>1 DEF BeginLoad, ViewInv
  <2>2. CASE EndLoad(f)
    <3>1. loads' \subseteq DOMAIN TraceFiles
      BY <1>4, <2>2 DEF EndLoad
    <3>2. CASE view' = [view EXCEPT !.failed = TRUE]
      BY <1>1, <1>4, <3>1, <3>2 DEF ViewInv
    <3>3. CASE TraceFiles[f] # <<>> /\ view' = [view EXCEPT !.file = f, !.run = TraceFiles[f][1]]
      <4>1. TraceFiles[f] \in Seq(Range(TraceFiles[f])) /\ f # Nil
        BY DEF ReportsAssumption
      <4>2. TraceFiles[f][1] \in Range(TraceFiles[f])
        BY <3>3, <4>1
      <4>3. TraceFiles[f][1] \in RunsFound
        BY <4>2 DEF RunsFound
      <4> QED
        BY <1>4, <3>1, <3>3, <4>1, <4>2, <4>3 DEF ViewInv
    <3> QED
      BY <2>2, <3>2, <3>3 DEF EndLoad
  <2> QED
    BY <1>5, <2>1, <2>2
<1>6. ASSUME ChooseRun PROVE ViewInv'
  <2>1. /\ view.file # Nil /\ loads' = loads
        /\ \E r \in Range(TraceFiles[view.file]) : view' = [view EXCEPT !.run = r]
    BY <1>6 DEF ChooseRun
  <2>2. Range(TraceFiles[view.file]) \subseteq RunsFound
    BY <1>4, <2>1 DEF RunsFound
  <2>3. PICK r \in Range(TraceFiles[view.file]) : view' = [view EXCEPT !.run = r]
    BY <2>1
  <2>4. /\ view'.file = view.file /\ view'.run = r
        /\ view' \in [file : DOMAIN TraceFiles \cup {Nil}, run : RunsFound \cup {Nil},
                      failed : BOOLEAN]
    BY <1>4, <2>2, <2>3
  <2>5. view'.run \in Range(TraceFiles[view'.file])
    BY <2>3, <2>4
  <2> QED
    BY <1>4, <2>1, <2>4, <2>5 DEF ViewInv
<1>7. ViewInv'
  <2>1. CASE ChooseRun
    BY <1>6, <2>1
  <2>2. CASE \E f \in DOMAIN TraceFiles : BeginLoad(f) \/ EndLoad(f)
    <3>1. PICK f \in DOMAIN TraceFiles : BeginLoad(f) \/ EndLoad(f)
      BY <2>2
    <3> QED
      BY <1>5, <3>1
  <2> QED
    BY <2>1, <2>2 DEF Viewing
<1> QED
  BY <1>3, <1>7 DEF TellingInv

LEMMA ReportSteps ==
  ASSUME ReportsAssumption, TellingInv, [ReportNext \/ Viewing]_reportVars PROVE TellingInv'
<1>1. ASSUME ReportNext PROVE TellingInv'
  <2>1. WrittenInv' /\ ToldInv'
    BY <1>1, WriteEventKeeps, ClockKeeps, ReadingKeeps DEF ReportNext
  <2>2. UNCHANGED <<view, loads>>
    BY <1>1
       DEF ReportNext, WriteEvent, Pass, ClockSetBack, Die, ReadEvents, ReadSummary, ViewerRests
  <2>3. ViewInv'
    BY <2>2 DEF TellingInv, ViewInv
  <2> QED
    BY <2>1, <2>3 DEF TellingInv
<1>2. CASE UNCHANGED reportVars
  BY <1>2 DEF reportVars, TellingInv, WrittenInv, ToldInv, ViewInv, ReadBefore, ReadTrace
<1> QED
  BY <1>1, <1>2, ViewingKeeps

(* Lines written in order stay where they are when they are sorted.         *)
LEMMA SortedIsItself ==
  ASSUME ReportsAssumption, NEW q \in Seq(Lines), InNumber(q), InTime(q)
  PROVE  Sorted(q) = q
<1> DEFINE n == Len(q)
<1>1. n \in Nat /\ DOMAIN q = 1 .. n /\ \A k \in 1 .. n : q[k] \in Lines
  OBVIOUS
<1>2. \A k \in 1 .. n : q[k].ts \in Nat /\ q[k].n = k
  <2>1. MaxTime \in Nat /\ \A k \in 1 .. n : q[k].ts \in 0 .. MaxTime
    BY <1>1 DEF Lines, ReportsAssumption
  <2> QED
    BY <2>1 DEF InNumber
<1>3. \A j, k \in 1 .. n : j <= k => q[j].ts <= q[k].ts
  BY DEF InTime
<1> HIDE DEF n
<1>4. ASSUME NEW j \in 1 .. n, NEW k \in 1 .. n PROVE Before(q[j], q[k]) <=> j < k
  <2>1. q[j].n = j /\ q[k].n = k /\ q[j].ts \in Nat /\ q[k].ts \in Nat
    BY <1>2
  <2>2. j <= k \/ k <= j
    BY <1>1
  <2>3. (j <= k => q[j].ts <= q[k].ts) /\ (k <= j => q[k].ts <= q[j].ts)
    BY <1>3
  <2> QED
    BY <1>1, <2>1, <2>2, <2>3 DEF Before
<1>5. ASSUME NEW k \in 1 .. n PROVE Rank(q, k) = k - 1
  <2>1. {j \in DOMAIN q : Before(q[j], q[k])} = 1 .. k - 1
    <3>1. \A j : (j \in 1 .. n /\ j < k) <=> j \in 1 .. k - 1
      BY <1>1, <1>5
    <3>2. \A j \in DOMAIN q : Before(q[j], q[k]) <=> j < k
      BY <1>1, <1>4
    <3> QED
      BY <1>1, <3>1, <3>2
  <2>2. Cardinality(1 .. k - 1) = k - 1
    <3>1. 1 \in Int /\ k - 1 \in Int /\ (1 > k - 1 => k - 1 = 0)
      BY <1>1
    <3>2. Cardinality(1 .. k - 1) = IF 1 > k - 1 THEN 0 ELSE (k - 1) - 1 + 1
      BY <3>1, FS_Interval
    <3> QED
      BY <3>1, <3>2
  <2> QED
    BY <2>1, <2>2 DEF Rank
<1> DEFINE place(i) == CHOOSE k \in DOMAIN q : Rank(q, k) = i - 1
<1>6. ASSUME NEW i \in 1 .. n PROVE place(i) = i
  <2>1. \A k \in DOMAIN q : Rank(q, k) = i - 1 <=> k = i
    BY <1>1, <1>5
  <2>2. i \in DOMAIN q
    BY <1>1
  <2> QED
    BY <2>1, <2>2
<1>7. Sorted(q) = [i \in DOMAIN q |-> q[i]]
  <2>1. Sorted(q) = [i \in DOMAIN q |-> q[place(i)]]
    BY DEF Sorted
  <2> HIDE DEF place
  <2> QED
    BY <1>1, <1>6, <2>1
<1>8. q = [i \in DOMAIN q |-> q[i]]
  OBVIOUS
<1> QED
  BY <1>7, <1>8

(* As many are left, whatever the clock did.                                *)
LEMMA SortedIsAsLong ==
  ASSUME NEW q \in Seq(Lines)
  PROVE  \E S : Sorted(q) \in Seq(S) /\ Len(Sorted(q)) = Len(q)
<1> DEFINE f == Sorted(q)
           S == {f[i] : i \in 1 .. Len(q)}
<1>1. Len(q) \in Nat /\ DOMAIN f = 1 .. Len(q) /\ f = [i \in 1 .. Len(q) |-> f[i]]
  BY DEF Sorted
<1> HIDE DEF f
<1>2. \A i \in 1 .. Len(q) : f[i] \in S
  OBVIOUS
<1> HIDE DEF S
<1>3. f \in Seq(S) /\ Len(f) = Len(q)
  BY <1>1, <1>2
<1> QED
  BY <1>3 DEF f

LEMMA LastOfIs ==
  ASSUME NEW q \in Seq(Lines), NEW types
  PROVE  \/ LastOf(q, types) = Nil
         \/ \E k \in 1 .. Len(q) :
              /\ LastOf(q, types) = q[k] /\ q[k].type \in types
              /\ \A j \in 1 .. Len(q) : q[j].type \in types => j <= k
<1> DEFINE found == {k \in DOMAIN q : q[k].type \in types}
<1>1. Len(q) \in Nat /\ DOMAIN q = 1 .. Len(q) /\ found \subseteq 0 .. Len(q)
  OBVIOUS
<1>2. CASE found = {}
  BY <1>2 DEF LastOf
<1>3. CASE found # {}
  <2>1. \E x \in found : \A y \in found : y <= x
    BY <1>1, <1>3, GreatestExists
  <2>2. \A x, y \in found : y <= x <=> x >= y
    BY <1>1
  <2>3. \E x \in found : \A y \in found : x >= y
    BY <2>1, <2>2
  <2>4. Max(found) \in found /\ \A y \in found : Max(found) >= y
    BY <2>3 DEF Max
  <2>5. LastOf(q, types) = q[Max(found)]
    BY <1>3 DEF LastOf
  <2>6. /\ Max(found) \in 1 .. Len(q) /\ q[Max(found)].type \in types
        /\ \A j \in 1 .. Len(q) : q[j].type \in types => j <= Max(found)
    <3>1. Max(found) \in 1 .. Len(q) /\ q[Max(found)].type \in types
      BY <1>1, <2>4
    <3>2. ASSUME NEW j \in 1 .. Len(q), q[j].type \in types PROVE j <= Max(found)
      <4>1. j \in found
        BY <1>1, <3>2
      <4>2. Max(found) >= j
        BY <2>4, <4>1
      <4> QED
        BY <1>1, <3>1, <4>2
    <3> QED
      BY <3>1, <3>2
  <2> QED
    BY <2>5, <2>6
<1> QED
  BY <1>2, <1>3

(* An end is the last line, so that there is one at most.                   *)
LEMMA EndIsLast ==
  ASSUME WrittenInv, NEW k \in 1 .. Len(written), written[k].type \in Ends
  PROVE  k = Len(written)
<1>1. Len(written) \in Nat
  BY DEF WrittenInv
<1>2. k \notin 1 .. Len(written) - 1
  BY DEF WrittenInv, Chained, Follows
<1> QED
  BY <1>1, <1>2

LEMMA EndTold ==
  ASSUME WrittenInv, NEW ev \in Seq(Lines), Leading(ev, written),
         LastOf(ev, Ends) # Nil
  PROVE  LastOf(ev, Ends) = LastWritten /\ LastWritten.type \in Ends
<1>1. PICK k \in 1 .. Len(ev) : LastOf(ev, Ends) = ev[k] /\ ev[k].type \in Ends
  BY LastOfIs
<1>2. k \in 1 .. Len(written) /\ ev[k] = written[k]
  <2>1. Len(ev) \in Nat /\ Len(written) \in Nat /\ Len(ev) <= Len(written)
    BY DEF Leading, WrittenInv
  <2> QED
    BY <2>1 DEF Leading
<1>3. k = Len(written)
  BY <1>1, <1>2, EndIsLast
<1> QED
  BY <1>1, <1>2, <1>3 DEF LastWritten

(* What an audit bundle is made of.                                         *)
LEMMA BundleIs ==
  ASSUME TellingInv, report.phase = "done"
  PROVE  \E ev : /\ ReadBefore(ev) /\ report.events = Sorted(ev)
                 /\ report.summary = PathSummary(ReadTrace)
                 /\ report.steps = Len(ReplaySteps(Sorted(ev)))
                 /\ report.failed => LastOf(Sorted(ev), Ends) # Nil
                                     /\ LastOf(Sorted(ev), Ends).type = "run.failed"
                 /\ report.handoff => LastOf(Sorted(ev), Ends) # Nil
                                      /\ LastOf(Sorted(ev), Ends).type = "handoff.requested"
<1>1. PICK ev : ReadBefore(ev) /\ report = AuditBundle(ev, ReadTrace)
  BY DEF TellingInv, ToldInv
<1>2. /\ report.events = Sorted(ev) /\ report.summary = PathSummary(ReadTrace)
      /\ report.steps = Len(ReplaySteps(Sorted(ev)))
      /\ report.failed = (LastOf(Sorted(ev), Ends) # Nil
                          /\ LastOf(Sorted(ev), Ends).type = "run.failed")
      /\ report.handoff = (LastOf(Sorted(ev), Ends) # Nil
                           /\ LastOf(Sorted(ev), Ends).type = "handoff.requested")
  BY <1>1 DEF AuditBundle
<1> QED
  BY <1>1, <1>2

LEMMA OrderOfAll ==
  ASSUME ReportsAssumption, WrittenInv, ~ setBack
  PROVE  /\ Sorted(written) = written
         /\ \A ev \in Seq(Lines) : Leading(ev, written) => Sorted(ev) = ev
<1>1. /\ written \in Seq(Lines) /\ InNumber(written) /\ InTime(written)
      /\ Len(written) \in Nat
  BY DEF WrittenInv
<1>2. ASSUME NEW ev \in Seq(Lines), Leading(ev, written) PROVE Sorted(ev) = ev
  <2>1. Len(ev) \in Nat /\ Len(ev) <= Len(written)
    BY <1>2 DEF Leading
  <2>2. \A k \in 1 .. Len(ev) : k \in 1 .. Len(written) /\ ev[k] = written[k]
    BY <1>1, <1>2, <2>1 DEF Leading
  <2>3. InNumber(ev) /\ InTime(ev)
    BY <1>1, <2>2 DEF InNumber, InTime
  <2> QED
    BY <2>3, SortedIsItself
<1> QED
  BY <1>1, <1>2, SortedIsItself

LEMMA EmptySummary ==
  ASSUME ReportsAssumption
  PROVE  PathSummary(<<>>).status = "unknown" /\ PathSummary(<<>>).count = 0
         /\ PathSummary(<<>>).error = Nil
<1>1. <<>> \in Seq(Lines) /\ Len(<<>>) = 0 /\ InNumber(<<>>) /\ InTime(<<>>)
  BY DEF InNumber, InTime
<1>2. Sorted(<<>>) = <<>>
  BY <1>1, SortedIsItself
<1>3. LastOf(<<>>, {"action.failed"}) = Nil
  BY DEF LastOf
<1> QED
  BY <1>1, <1>2, <1>3 DEF PathSummary

LEMMA BundlesTell ==
  ASSUME ReportsAssumption, TellingInv PROVE BundlesTellTheRun
<1> SUFFICES ASSUME report.phase = "done" PROVE BundlesTellTheRun
  BY DEF BundlesTellTheRun
<1>1. WrittenInv
  BY DEF TellingInv
<1>2. PICK ev : /\ ReadBefore(ev) /\ report.events = Sorted(ev)
                /\ report.summary = PathSummary(ReadTrace)
                /\ report.failed => LastOf(Sorted(ev), Ends) # Nil
                                    /\ LastOf(Sorted(ev), Ends).type = "run.failed"
                /\ report.handoff => LastOf(Sorted(ev), Ends) # Nil
                                     /\ LastOf(Sorted(ev), Ends).type = "handoff.requested"
  BY BundleIs
<1>3. CASE cut
  <2>1. report.summary = PathSummary(<<>>)
    BY <1>2, <1>3 DEF ReadTrace
  <2> QED
    BY <1>3, <2>1, EmptySummary DEF BundlesTellTheRun
<1>4. CASE ~ cut
  <2>1. /\ report.summary = PathSummary(written)
        /\ ev \in Seq(Lines) /\ ev # <<>> /\ Leading(ev, written)
        /\ written \in Seq(Lines) /\ written # <<>>
    BY <1>1, <1>2, <1>4 DEF ReadTrace, ReadBefore, WrittenInv
  <2>2. /\ Len(ev) \in Nat /\ Len(written) \in Nat \ {0} /\ Len(ev) <= Len(written)
        /\ LastWritten = written[Len(written)]
    BY <1>1, <2>1, LastIs DEF Leading
  <2>3. Len(Sorted(ev)) = Len(ev) /\ Len(Sorted(written)) = Len(written)
    BY <2>1, SortedIsAsLong
  <2>4. report.summary.count >= Len(report.events)
    <3>1. report.summary.count = Len(Sorted(written))
      BY <2>1 DEF PathSummary
    <3> QED
      BY <1>2, <2>2, <2>3, <3>1
  <2>5. ASSUME ~ setBack
        PROVE  /\ report.failed => report.summary.status = "failed"
               /\ report.handoff => report.summary.status = "handoff"
               /\ report.summary.status = StatusOf(written[Len(written)].type)
               /\ report.summary.status = Listed(written)
               /\ report.summary.path = States(written)
               /\ report.summary.final = written[Len(written)].state
               /\ IsPrefix(report.events, written)
    <3>1. Sorted(written) = written /\ Sorted(ev) = ev
      BY <1>1, <2>1, <2>5, OrderOfAll
    <3>2. /\ report.summary.status = StatusOf(LastWritten.type)
          /\ report.summary.path = States(written)
          /\ report.summary.final = LastWritten.state
          /\ Listed(written) = StatusOf(LastWritten.type)
      BY <2>1, <2>2, <3>1 DEF PathSummary, Listed
    <3>3. ASSUME LastOf(ev, Ends) # Nil PROVE LastOf(ev, Ends) = LastWritten
      BY <1>1, <2>1, <3>3, EndTold
    <3>4. /\ report.failed => report.summary.status = "failed"
          /\ report.handoff => report.summary.status = "handoff"
      BY <1>2, <3>1, <3>2, <3>3 DEF StatusOf
    <3>5. IsPrefix(ev, written)
      <4>1. SubSeq(ev, 1, Len(ev)) = SubSeq(written, 1, Len(ev))
        <5> DEFINE front == SubSeq(written, 1, Len(ev))
        <5>1. /\ SubSeq(ev, 1, Len(ev)) = ev
              /\ front = [i \in 1 .. Len(ev) |-> written[i]]
          BY <2>1, <2>2
        <5>2. \A i \in 1 .. Len(ev) : ev[i] = written[i]
          BY <2>1 DEF Leading
        <5>3. ev = [i \in 1 .. Len(ev) |-> ev[i]]
          BY <2>1
        <5> HIDE DEF front
        <5> QED
          BY <5>1, <5>2, <5>3 DEF front
      <4> QED
        BY <2>2, <4>1 DEF IsPrefix
    <3> QED
      BY <1>2, <2>2, <3>1, <3>2, <3>4, <3>5
  <2> QED
    BY <1>4, <2>4, <2>5 DEF BundlesTellTheRun
<1> QED
  BY <1>3, <1>4

LEMMA CodesAre ==
  ASSUME ReportsAssumption, TellingInv PROVE CodesAreOfFailures
<1> DEFINE d == LastOf(written, {"action.failed"})
           n == Len(written)
<1> SUFFICES ASSUME report.phase = "done", ~ cut, ~ setBack, report.summary.error # Nil, Over
             PROVE  LastWritten.error = report.summary.error \/ Succeeded(written, d)
  BY DEF CodesAreOfFailures, LastWritten
<1>1. WrittenInv /\ n \in Nat \ {0} /\ LastWritten = written[n] /\ written \in Seq(Lines)
  BY LastIs DEF TellingInv, WrittenInv
<1>2. Sorted(written) = written
  BY <1>1, OrderOfAll
<1>3. report.summary = PathSummary(written)
  BY BundleIs DEF ReadTrace
<1>4. d # Nil /\ report.summary.error = d.error
  BY <1>2, <1>3 DEF PathSummary
<1>5. PICK k \in 1 .. n : /\ d = written[k] /\ written[k].type = "action.failed"
                          /\ \A j \in 1 .. n : written[j].type = "action.failed" => j <= k
  <2>1. \E k \in 1 .. n : /\ d = written[k] /\ written[k].type \in {"action.failed"}
                          /\ \A j \in 1 .. n : written[j].type \in {"action.failed"} => j <= k
    BY <1>1, <1>4, LastOfIs
  <2> QED
    BY <2>1
<1> HIDE DEF d, n
<1>6. written[n].type \in Ends /\ k \in 1 .. n - 1
  <2>1. written[n].type \in Ends
    BY <1>1 DEF Over
  <2>2. k # n
    BY <1>5, <2>1 DEF Ends
  <2> QED
    BY <1>1, <1>5, <2>1, <2>2
<1>7. /\ \A j \in 1 .. n - 1 : Follows(written[j], written[j + 1])
      /\ \A j \in 1 .. n : written[j].n = j
  BY <1>1 DEF WrittenInv, Chained, InNumber, n
<1>8. CASE written[k + 1].type = "run.failed" /\ written[k + 1].error = written[k].error
  <2>1. k + 1 \in 1 .. n
    BY <1>1, <1>6
  <2>2. k + 1 = n
    BY <1>1, <1>8, <2>1, EndIsLast DEF Ends, n
  <2> QED
    BY <1>1, <1>4, <1>5, <1>8, <2>2
<1>9. CASE written[k + 1].type = "action.started"
  <2>1. k + 1 \in 1 .. n - 1
    <3>1. k + 1 # n
      BY <1>6, <1>9 DEF Ends
    <3> QED
      BY <1>1, <1>6, <3>1
  <2>2. written[(k + 1) + 1].type \in {"action.succeeded", "action.failed"}
    BY <1>7, <1>9, <2>1 DEF Follows
  <2> DEFINE m == (k + 1) + 1
  <2>3. m \in 1 .. n /\ m > k /\ ~ (m <= k)
    BY <1>1, <1>6, <2>1
  <2>4. written[m].type = "action.succeeded"
    BY <1>5, <2>2, <2>3
  <2>5. m \in DOMAIN written /\ written[m].n > d.n
    BY <1>1, <1>5, <1>7, <2>3 DEF n
  <2> HIDE DEF m
  <2> QED
    BY <2>4, <2>5 DEF Succeeded
<1> QED
  BY <1>5, <1>6, <1>7, <1>8, <1>9 DEF Follows

LEMMA ViewerTells ==
  ASSUME TellingInv PROVE ViewerTellsTheRun
<1>1. /\ WrittenInv /\ Len(written) \in Nat \ {0} /\ LastWritten = written[Len(written)]
      /\ written \in Seq(Lines)
  BY LastIs DEF TellingInv, WrittenInv
<1> DEFINE types == {written[k].type : k \in DOMAIN written}
           t == LastWritten.type
<1>2. t \in types
  BY <1>1
<1>3. \A x \in types \cap Ends : x = t
  <2>1. ASSUME NEW k \in DOMAIN written, written[k].type \in Ends PROVE written[k].type = t
    BY <1>1, <2>1, EndIsLast
  <2> QED
    BY <2>1
<1>4. Listed(written) = StatusOf(t)
  BY <1>1 DEF Listed
<1>5. ViewedStatus(written) =
        CASE "handoff.requested" \in types -> "handoff" [] "run.failed" \in types -> "failed"
          [] "run.completed" \in types -> "completed" [] OTHER -> "running"
  BY DEF ViewedStatus
<1> HIDE DEF types, t
<1>6. ViewedStatus(written) = IF StatusOf(t) = "unknown" THEN "running" ELSE StatusOf(t)
  <2>1. CASE t \in Ends
    BY <1>2, <1>3, <1>5, <2>1 DEF StatusOf, Ends
  <2>2. CASE t \notin Ends
    BY <1>2, <1>3, <1>5, <2>2 DEF StatusOf, Ends
  <2> QED
    BY <2>1, <2>2
<1> QED
  BY <1>4, <1>6 DEF ViewerTellsTheRun, TellingInv, ViewInv

(* The steps of a replay, after each of its events.                         *)
StepsFor(q, n, st) ==
  st = [k \in 0 .. n |-> IF k = 0 THEN <<>> ELSE Stepped(st[k - 1], q[k])]

LEMMA StepAt ==
  ASSUME NEW q, NEW n, NEW st, StepsFor(q, n, st), NEW k \in 0 .. n
  PROVE  st[k] = IF k = 0 THEN <<>> ELSE Stepped(st[k - 1], q[k])
  BY DEF StepsFor

LEMMA StepsExist ==
  ASSUME NEW q, NEW n \in Nat
  PROVE  \E st : StepsFor(q, n, st)
<1> DEFINE Missing == {k \in Nat : ~ \E st : StepsFor(q, k, st)}
<1> SUFFICES ASSUME Missing # {} PROVE FALSE
  OBVIOUS
<1>1. PICK k \in Missing : \A j \in Missing : k <= j
  BY LeastExists
<1>2. k # 0
  <2> DEFINE one == [i \in 0 .. 0 |-> <<>>]
  <2>1. StepsFor(q, 0, one)
    BY DEF StepsFor
  <2> QED
    BY <1>1, <2>1
<1>3. k - 1 \in Nat /\ k - 1 \notin Missing
  BY <1>1, <1>2
<1>4. PICK before : StepsFor(q, k - 1, before)
  BY <1>3
<1> DEFINE more == [i \in 0 .. k |-> IF i = k THEN Stepped(before[k - 1], q[k]) ELSE before[i]]
<1>5. ASSUME NEW i \in 0 .. k
      PROVE  more[i] = IF i = 0 THEN <<>> ELSE Stepped(more[i - 1], q[i])
  <2>1. CASE i = k
    BY <1>1, <1>2, <2>1
  <2>2. CASE i # k
    <3>1. i \in 0 .. k - 1 /\ (i # 0 => i - 1 \in 0 .. k - 1 /\ i - 1 # k)
      BY <1>1, <2>2
    <3>2. before[i] = IF i = 0 THEN <<>> ELSE Stepped(before[i - 1], q[i])
      BY <1>4, <3>1, StepAt
    <3>3. more[i] = before[i] /\ (i # 0 => more[i - 1] = before[i - 1])
      BY <1>1, <2>2, <3>1
    <3> QED
      BY <3>2, <3>3
  <2> QED
    BY <2>1, <2>2
<1>6. StepsFor(q, k, more)
  BY <1>5 DEF StepsFor
<1> QED
  BY <1>1, <1>6

LEMMA StepsAre ==
  ASSUME NEW q, Len(q) \in Nat
  PROVE  \E st : StepsFor(q, Len(q), st) /\ ReplaySteps(q) = st[Len(q)]
<1> DEFINE f == CHOOSE st : StepsFor(q, Len(q), st)
<1>1. StepsFor(q, Len(q), f)
  BY StepsExist
<1>2. ReplaySteps(q) = f[Len(q)]
  BY DEF ReplaySteps, StepsAfter, StepsFor
<1> QED
  BY <1>1, <1>2

(* Frames are counted as they start a step.                                 *)
FrameAt(q, k) == Cardinality({j \in 1 .. k : StartsStep(q, j)})

LEMMA FrameGrows ==
  ASSUME NEW q, NEW k \in Nat
  PROVE  /\ FrameAt(q, 0) = 0 /\ FrameAt(q, k) \in Nat
         /\ FrameAt(q, k + 1) = IF StartsStep(q, k + 1) THEN FrameAt(q, k) + 1 ELSE FrameAt(q, k)
<1> DEFINE A == {j \in 1 .. k : StartsStep(q, j)}
           B == {j \in 1 .. k + 1 : StartsStep(q, j)}
<1>1. {j \in 1 .. 0 : StartsStep(q, j)} = {}
  OBVIOUS
<1>2. IsFiniteSet(A)
  <2>1. IsFiniteSet(1 .. k) /\ A \in SUBSET (1 .. k)
    BY FS_Interval
  <2> HIDE DEF A
  <2> QED
    BY <2>1, FS_Subset
<1>3. Cardinality(A) \in Nat
  BY <1>2, FS_CardinalityType
<1>4. CASE StartsStep(q, k + 1)
  <2>1. B = A \cup {k + 1} /\ k + 1 \notin A
    BY <1>4
  <2> QED
    BY <1>1, <1>2, <1>3, <1>4, <2>1, FS_AddElement, FS_EmptySet DEF FrameAt
<1>5. CASE ~ StartsStep(q, k + 1)
  <2>1. B = A
    BY <1>5
  <2> QED
    BY <1>1, <1>3, <1>5, <2>1, FS_EmptySet DEF FrameAt
<1> QED
  BY <1>4, <1>5

FramedBy(q, st, k, s, first, last) ==
  /\ {m \in 1 .. k : FrameAt(q, m) = s} = first .. last
  /\ st[s] = Stretch(q, first, last)
StepsStand(q, S, st, k) ==
  /\ st \in Seq(Seq(S)) /\ Len(st) = FrameAt(q, k) /\ (k > 0 => FrameAt(q, k) > 0)
  /\ \A m \in 1 .. k : FrameAt(q, m) \in 1 .. FrameAt(q, k)
  /\ \A s \in 1 .. FrameAt(q, k) : \E first, last \in 1 .. k : FramedBy(q, st, k, s, first, last)
  /\ k > 0 => \E first \in 1 .. k : FramedBy(q, st, k, FrameAt(q, k), first, k)

LEMMA StretchIs ==
  ASSUME NEW S, NEW q \in Seq(S), NEW first \in 1 .. Len(q), NEW last \in 1 .. Len(q),
         first <= last
  PROVE  /\ Stretch(q, first, last) \in Seq(S)
         /\ Stretch(q, first, first) = <<q[first]>>
         /\ last < Len(q) =>
              Stretch(q, first, last + 1) = Append(Stretch(q, first, last), q[last + 1])
<1> DEFINE n == last - first + 1
           a == Stretch(q, first, last)
           b == Stretch(q, first, last + 1)
<1>0. Len(q) \in Nat /\ first \in Nat /\ last \in Nat /\ n \in Nat \ {0}
  OBVIOUS
<1>1. a = [i \in 1 .. n |-> q[first + i - 1]]
  BY DEF Stretch
<1>2. \A i \in 1 .. n : first + i - 1 \in 1 .. Len(q) /\ q[first + i - 1] \in S
  BY <1>0
<1>3. a \in Seq(S) /\ Len(a) = n
  BY <1>0, <1>1, <1>2
<1>4. Stretch(q, first, first) = <<q[first]>>
  <2>1. first - first + 1 = 1 /\ first + 1 - 1 = first
    BY <1>0
  <2>2. Stretch(q, first, first) = [i \in 1 .. 1 |-> q[first + i - 1]]
    BY <2>1 DEF Stretch
  <2>3. \A i \in 1 .. 1 : first + i - 1 = first
    BY <1>0
  <2>4. Stretch(q, first, first) = [i \in 1 .. 1 |-> q[first]]
    BY <2>2, <2>3
  <2> QED
    BY <2>4
<1>5. ASSUME last < Len(q) PROVE b = Append(a, q[last + 1])
  <2>1. last + 1 - first + 1 = n + 1 /\ first + (n + 1) - 1 = last + 1
    BY <1>0
  <2>2. b = [i \in 1 .. n + 1 |-> q[first + i - 1]]
    BY <2>1 DEF Stretch
  <2> HIDE DEF b, a, n
  <2>3. /\ Append(a, q[last + 1]) = [i \in 1 .. n + 1 |-> IF i = n + 1 THEN q[last + 1] ELSE a[i]]
    BY <1>3
  <2>4. \A i \in 1 .. n + 1 :
          q[first + i - 1] = IF i = n + 1 THEN q[last + 1] ELSE a[i]
    BY <1>0, <1>1, <2>1
  <2> QED
    BY <2>2, <2>3, <2>4
<1> QED
  BY <1>3, <1>4, <1>5

LEMMA StepsStandOn ==
  ASSUME NEW S, NEW q \in Seq(S), NEW k \in Nat, k < Len(q), NEW st, StepsStand(q, S, st, k)
  PROVE  StepsStand(q, S, Stepped(st, q[k + 1]), k + 1)
<1> DEFINE c == FrameAt(q, k)
           next == Stepped(st, q[k + 1])
<1>1. /\ Len(q) \in Nat /\ k + 1 \in 1 .. Len(q) /\ q[k + 1] \in S /\ c \in Nat
      /\ st \in Seq(Seq(S)) /\ Len(st) = c /\ (k > 0 => c > 0)
      /\ FrameAt(q, 0) = 0
      /\ \A m \in 1 .. k : FrameAt(q, m) \in 1 .. c
  <2>1. Len(q) \in Nat /\ k + 1 \in 1 .. Len(q) /\ q[k + 1] \in S
    OBVIOUS
  <2>2. c \in Nat /\ FrameAt(q, 0) = 0
    BY FrameGrows
  <2>3. /\ st \in Seq(Seq(S)) /\ Len(st) = c /\ (k > 0 => c > 0)
        /\ \A m \in 1 .. k : FrameAt(q, m) \in 1 .. c
    BY DEF StepsStand
  <2> QED
    BY <2>1, <2>2, <2>3
<1>2. FrameAt(q, k + 1) = IF StartsStep(q, k + 1) THEN c + 1 ELSE c
  BY FrameGrows
<1>3. st = <<>> <=> k = 0
  BY <1>1
<1>4. \A m : m \in 1 .. k + 1 <=> m \in 1 .. k \/ m = k + 1
  OBVIOUS
<1>5. StartsStep(q, k + 1) <=> (st = <<>> \/ q[k + 1].type \in StepTypes)
  BY <1>3 DEF StartsStep
<1> HIDE DEF c
<1>6. CASE StartsStep(q, k + 1)
  <2>1. /\ next = Append(st, <<q[k + 1]>>) /\ <<q[k + 1]>> \in Seq(S)
        /\ FrameAt(q, k + 1) = c + 1
    BY <1>1, <1>2, <1>5, <1>6 DEF Stepped
  <2> HIDE DEF next
  <2>2. /\ next \in Seq(Seq(S)) /\ Len(next) = c + 1 /\ next[c + 1] = <<q[k + 1]>>
        /\ \A s \in 1 .. c : next[s] = st[s]
    BY <1>1, <2>1
  <2>3. \A m \in 1 .. k + 1 : FrameAt(q, m) \in 1 .. c + 1
    BY <1>1, <1>4, <2>1
  <2>4. FramedBy(q, next, k + 1, c + 1, k + 1, k + 1)
    <3>1. \A m \in 1 .. k + 1 : FrameAt(q, m) = c + 1 <=> m = k + 1
      BY <1>1, <1>4, <2>1
    <3>2. {m \in 1 .. k + 1 : FrameAt(q, m) = c + 1} = (k + 1) .. (k + 1)
      BY <3>1
    <3>3. Stretch(q, k + 1, k + 1) = <<q[k + 1]>>
      BY <1>1, StretchIs
    <3> QED
      BY <2>2, <3>2, <3>3 DEF FramedBy
  <2>5. ASSUME NEW s \in 1 .. c
        PROVE  \E first, last \in 1 .. k + 1 : FramedBy(q, next, k + 1, s, first, last)
    <3>1. PICK first \in 1 .. k, last \in 1 .. k : FramedBy(q, st, k, s, first, last)
      BY DEF StepsStand, c
    <3>2. {m \in 1 .. k + 1 : FrameAt(q, m) = s} = {m \in 1 .. k : FrameAt(q, m) = s}
      BY <1>1, <1>4, <2>1
    <3>3. FramedBy(q, next, k + 1, s, first, last)
      BY <2>2, <3>1, <3>2 DEF FramedBy
    <3> QED
      BY <3>1, <3>3
  <2>6. ASSUME NEW s \in 1 .. c + 1
        PROVE  \E first, last \in 1 .. k + 1 : FramedBy(q, next, k + 1, s, first, last)
    <3>1. CASE s = c + 1
      BY <2>4, <3>1, k + 1 \in 1 .. k + 1
    <3>2. CASE s # c + 1
      BY <1>1, <2>5, <3>2
    <3> QED
      BY <3>1, <3>2
  <2>7. c + 1 > 0 /\ k + 1 \in 1 .. k + 1
    BY <1>1
  <2> QED
    BY <2>1, <2>2, <2>3, <2>4, <2>6, <2>7 DEF StepsStand, next
<1>7. CASE ~ StartsStep(q, k + 1)
  <2>1. /\ k > 0 /\ c > 0 /\ FrameAt(q, k + 1) = c /\ st # <<>>
        /\ next = [st EXCEPT ![c] = Append(st[c], q[k + 1])]
    <3>1. k # 0 /\ st # <<>> /\ q[k + 1].type \notin StepTypes
      BY <1>3, <1>5, <1>7
    <3>2. next = [st EXCEPT ![Len(st)] = Append(st[Len(st)], q[k + 1])]
      BY <3>1 DEF Stepped
    <3> QED
      BY <1>1, <1>2, <1>7, <3>1, <3>2
  <2> HIDE DEF next
  <2>2. PICK from \in 1 .. k : FramedBy(q, st, k, c, from, k)
    BY <2>1 DEF StepsStand, c
  <2>3. c \in 1 .. Len(st) /\ st[c] \in Seq(S)
    BY <1>1, <2>1
  <2>4. Append(st[c], q[k + 1]) \in Seq(S)
    BY <1>1, <2>3
  <2>5. /\ next \in Seq(Seq(S)) /\ Len(next) = c /\ next[c] = Append(st[c], q[k + 1])
        /\ \A s \in 1 .. c : s # c => next[s] = st[s]
    BY <1>1, <2>1, <2>3, <2>4
  <2>6. \A m \in 1 .. k + 1 : FrameAt(q, m) \in 1 .. c
    BY <1>1, <1>4, <2>1
  <2>7. FramedBy(q, next, k + 1, c, from, k + 1)
    <3>1. {m \in 1 .. k : FrameAt(q, m) = c} = from .. k /\ st[c] = Stretch(q, from, k)
      BY <2>2 DEF FramedBy
    <3>2. {m \in 1 .. k + 1 : FrameAt(q, m) = c} = (from .. k) \cup {k + 1}
      BY <1>4, <2>1, <3>1
    <3>3. (from .. k) \cup {k + 1} = from .. k + 1
      BY <2>2
    <3>4. Stretch(q, from, k + 1) = Append(st[c], q[k + 1])
      <4>1. from \in 1 .. Len(q) /\ k \in 1 .. Len(q) /\ from <= k /\ k < Len(q)
        BY <1>1, <2>1, <2>2
      <4> QED
        BY <3>1, <4>1, StretchIs
    <3> QED
      BY <2>5, <3>2, <3>3, <3>4 DEF FramedBy
  <2>8. ASSUME NEW s \in 1 .. c
        PROVE  \E first, last \in 1 .. k + 1 : FramedBy(q, next, k + 1, s, first, last)
    <3>1. CASE s = c
      BY <2>2, <2>7, <3>1, from \in 1 .. k + 1, k + 1 \in 1 .. k + 1
    <3>2. CASE s # c
      <4>1. PICK first \in 1 .. k, last \in 1 .. k : FramedBy(q, st, k, s, first, last)
        BY DEF StepsStand, c
      <4>2. {m \in 1 .. k + 1 : FrameAt(q, m) = s} = {m \in 1 .. k : FrameAt(q, m) = s}
        BY <1>4, <2>1, <3>2
      <4>3. FramedBy(q, next, k + 1, s, first, last)
        BY <2>5, <3>2, <4>1, <4>2 DEF FramedBy
      <4> QED
        BY <4>1, <4>3
    <3> QED
      BY <3>1, <3>2
  <2>9. from \in 1 .. k + 1
    BY <2>2
  <2> QED
    BY <2>1, <2>5, <2>6, <2>7, <2>8, <2>9 DEF StepsStand, next
<1> QED
  BY <1>6, <1>7

LEMMA FramesAre ==
  ASSUME NEW S, NEW q \in Seq(S)
  PROVE  StepsAreFramed(q, ReplaySteps(q))
<1> DEFINE n == Len(q)
<1>1. n \in Nat /\ DOMAIN q = 1 .. n
  OBVIOUS
<1>2. PICK st : StepsFor(q, n, st) /\ ReplaySteps(q) = st[n]
  BY StepsAre
<1> HIDE DEF n
<1> DEFINE Fallen == {k \in 0 .. n : ~ StepsStand(q, S, st[k], k)}
<1>3. Fallen = {}
  <2> SUFFICES ASSUME Fallen # {} PROVE FALSE
    OBVIOUS
  <2>0. Fallen \in SUBSET Nat
    BY <1>1
  <2>1. PICK k \in Fallen : \A j \in Fallen : k <= j
    BY <2>0, LeastExists
  <2>2. st[k] = IF k = 0 THEN <<>> ELSE Stepped(st[k - 1], q[k])
    BY <1>1, <1>2, <2>1, StepAt
  <2>3. StepsStand(q, S, <<>>, 0)
    <3>1. FrameAt(q, 0) = 0 /\ <<>> \in Seq(Seq(S)) /\ Len(<<>>) = 0
      BY FrameGrows
    <3> QED
      BY <3>1 DEF StepsStand
  <2>4. k # 0
    BY <2>1, <2>2, <2>3
  <2> DEFINE j == k - 1
  <2>5. j \in Nat /\ j + 1 = k /\ j < n /\ j \in 0 .. n /\ j \notin Fallen
    BY <1>1, <2>1, <2>4
  <2> HIDE DEF j
  <2>6. StepsStand(q, S, st[j], j)
    BY <2>5
  <2>7. StepsStand(q, S, Stepped(st[j], q[j + 1]), j + 1)
    BY <2>5, <2>6, StepsStandOn DEF n
  <2>8. st[k] = Stepped(st[j], q[j + 1])
    BY <2>2, <2>4, <2>5 DEF j
  <2> QED
    BY <2>1, <2>5, <2>7, <2>8
<1>4. StepsStand(q, S, st[n], n)
  BY <1>1, <1>3
<1>5. FrameSteps(q) = [k \in 1 .. n |-> FrameAt(q, k)]
  BY <1>1 DEF FrameSteps, FrameAt
<1> DEFINE frames == FrameSteps(q)
           steps == ReplaySteps(q)
<1>6. Len(steps) = IF q = <<>> THEN 0 ELSE frames[Len(q)]
  <2>1. Len(steps) = FrameAt(q, n) /\ FrameAt(q, 0) = 0
    BY <1>2, <1>4, FrameGrows DEF StepsStand
  <2>2. CASE q = <<>>
    BY <2>1, <2>2 DEF n
  <2>3. CASE q # <<>>
    <3>1. n \in 1 .. n
      BY <1>1, <2>3 DEF n
    <3> QED
      BY <1>5, <2>1, <2>3, <3>1 DEF n
  <2> QED
    BY <2>2, <2>3
<1>7. ASSUME NEW s \in DOMAIN steps
      PROVE  \E first, last \in DOMAIN q :
               /\ {k \in DOMAIN q : frames[k] = s} = first .. last
               /\ steps[s] = Stretch(q, first, last)
  <2>1. s \in 1 .. FrameAt(q, n)
    BY <1>2, <1>4, <1>7 DEF StepsStand
  <2>2. PICK first \in 1 .. n, last \in 1 .. n : FramedBy(q, st[n], n, s, first, last)
    BY <1>4, <2>1 DEF StepsStand
  <2>3. {k \in DOMAIN q : frames[k] = s} = {k \in 1 .. n : FrameAt(q, k) = s}
    BY <1>1, <1>5
  <2> QED
    BY <1>1, <1>2, <2>2, <2>3 DEF FramedBy
<1> QED
  BY <1>6, <1>7 DEF StepsAreFramed

(* For any files and bounds: an audit bundle tells the run as it was         *)
(* written, its codes are of actions that failed last, its steps are those   *)
(* of its frames, and the viewer shows one file, its run among them.         *)
THEOREM TracesAlwaysTellRuns ==
  ASSUME ReportsAssumption PROVE ReportSpec => []TracesTellRuns
<1>1. ASSUME TellingInv PROVE FramesAreSteps
  <2> SUFFICES ASSUME report.phase = "done" PROVE FramesAreSteps
    BY DEF FramesAreSteps
  <2>1. PICK ev : /\ ReadBefore(ev) /\ report.events = Sorted(ev)
                  /\ report.steps = Len(ReplaySteps(Sorted(ev)))
    BY <1>1, BundleIs
  <2>2. ev \in Seq(Lines)
    <3>1. <<>> \in Seq(Lines)
      OBVIOUS
    <3> QED
      BY <2>1, <3>1 DEF ReadBefore
  <2>3. PICK S : Sorted(ev) \in Seq(S)
    BY <2>2, SortedIsAsLong
  <2>4. StepsAreFramed(Sorted(ev), ReplaySteps(Sorted(ev)))
    BY <2>3, FramesAre
  <2> QED
    BY <2>1, <2>4 DEF FramesAreSteps
<1>2. TellingInv => TracesTellRuns
  BY <1>1, BundlesTell, CodesAre, ViewerTells DEF TracesTellRuns
<1> QED
  BY <1>2, ReportBegins, ReportSteps, PTL DEF ReportSpec

-----------------------------------------------------------------------------
(* The parts together: each behaves as its specification says, whichever of  *)
(* them moves; the recorder and the replay are parked while others do.       *)
Moving(p) == part = p

LEMMA RecordsBehave ==
  Spec =>
    /\ Moving("recorder") => RecorderSpec
    /\ Moving("replay") => ReplaySpec
    /\ ReportSpec /\ StoreSpec /\ RaceSpec /\ SkillSpec /\ EvidenceSpec
    /\ Moving("recorder") => []Moving("recorder")
    /\ ~ Moving("recorder") => []~ Moving("recorder")
    /\ Moving("replay") => []Moving("replay")
    /\ ~ Moving("replay") => []~ Moving("replay")
<1>1. Init => /\ Moving("recorder") => RecorderInit
              /\ Moving("replay") => ReplayInit
              /\ ReportInit /\ StoreInit /\ RaceInit /\ SkillInit /\ EvidenceInit
  BY DEF Init, StoreInit, Moving
<1>2. [Next]_vars =>
        /\ [RecorderNext]_recorderVars /\ [ReplayNext]_replayVars
        /\ [ReportNext \/ Viewing]_reportVars /\ [StoreNext]_storeVars
        /\ [RaceNext]_raceVars /\ [SkillNext]_skillVars /\ [EvidenceNext]_evidenceVars
  <2> SUFFICES ASSUME [Next]_vars
               PROVE  /\ RecorderNext \/ UNCHANGED recorderVars
                      /\ ReplayNext \/ UNCHANGED replayVars
                      /\ ReportNext \/ Viewing \/ UNCHANGED reportVars
                      /\ StoreNext \/ UNCHANGED storeVars
                      /\ RaceNext \/ UNCHANGED raceVars
                      /\ SkillNext \/ UNCHANGED skillVars
                      /\ EvidenceNext \/ UNCHANGED evidenceVars
    OBVIOUS
  <2> QED
    BY DEF Next, vars, reportVars, reportState, viewerState
<1>3. ASSUME NEW p, [Next]_vars PROVE Moving(p)' <=> Moving(p)
  BY <1>3 DEF Next, vars, Moving
<1>4. /\ Moving("recorder") /\ [Next]_vars => Moving("recorder")'
      /\ ~ Moving("recorder") /\ [Next]_vars => ~ Moving("recorder")'
      /\ Moving("replay") /\ [Next]_vars => Moving("replay")'
      /\ ~ Moving("replay") /\ [Next]_vars => ~ Moving("replay")'
  BY <1>3
<1> QED
  BY <1>1, <1>2, <1>4, PTL
     DEF Spec, RecorderSpec, ReplaySpec, ReportSpec, StoreSpec, RaceSpec, SkillSpec,
         EvidenceSpec

(* Nobody edits skills more often than a run may.                            *)
LEMMA EditsAreCounted == SkillSpec => [](edits <= MaxEdits /\ edits \in Nat)
<1> DEFINE Counted == edits <= MaxEdits /\ edits \in Nat
<1>1. SkillInit => Counted
  BY FilesAssumption DEF SkillInit
<1>2. ASSUME Counted, [SkillNext]_skillVars PROVE Counted'
  <2>1. \/ edits' = edits
        \/ edits < MaxEdits /\ edits' = edits + 1
    BY <1>2 DEF SkillNext, Edit, CallSkill, TakeAnswer, TimeOutSkill, After, Resolve, Load,
       ImportAndRun, FinishSkill, Moves, skillVars
  <2> QED
    BY <1>2, <2>1, FilesAssumption
<1> QED
  BY <1>1, <1>2, PTL DEF SkillSpec

LEMMA AlwaysSkillInv == SkillSpec => []SkillInv
<1>1. SkillInv /\ [SkillNext]_skillVars => SkillInv'
  BY SkillSteps
<1> QED
  BY <1>1, SkillsStart, PTL DEF SkillSpec

(* For any values of the constants: what a recorder holds, the context and   *)
(* deltas of a run, reports and the viewer, snapshots, attempts, skills and  *)
(* executions stay what the code takes them for.                             *)
THEOREM RecordsKeepTheirTypes ==
  ASSUME RecorderAssumption, RaceAssumption, NoneAssumption, ReportsAssumption
  PROVE  Spec => []TypeOK
<1>1. RecorderSpec => []RecorderTypeOK
  <2>1. RecorderInit => RecorderInv
    BY RecorderBegins
  <2>2. RecorderInv /\ [RecorderNext]_recorderVars => RecorderInv'
    BY RecorderSteps
  <2>3. RecorderInv => RecorderTypeOK
    BY DEF RecorderInv
  <2> QED
    BY <2>1, <2>2, <2>3, PTL DEF RecorderSpec
<1>2. ReplaySpec => []ReplayTypeOK
  <2>1. ReplayInv /\ [ReplayNext]_replayVars => ReplayInv'
    BY ReplayMovesOn
  <2>2. ReplayInv => ReplayTypeOK
    BY DEF ReplayInv
  <2> QED
    BY <2>1, <2>2, ReplayBegins, PTL DEF ReplaySpec
<1>3. ReportSpec => []ReportTypeOK
  <2>1. ReportInit => TellingInv
    BY ReportBegins
  <2>2. TellingInv /\ [ReportNext \/ Viewing]_reportVars => TellingInv'
    BY ReportSteps
  <2>3. ASSUME TellingInv PROVE ReportTypeOK
    <3>1. /\ written \in Seq(Lines) /\ InNumber(written)
          /\ wallClock \in 0 .. MaxTime /\ setBack \in BOOLEAN /\ cut \in BOOLEAN
      BY <2>3 DEF TellingInv, WrittenInv
    <3>2. ASSUME NEW k \in DOMAIN written
          PROVE  /\ written[k].n = k /\ written[k].ts \in 0 .. MaxTime
                 /\ written[k].type \in StepTypes \cup {"run.started", "intent.resolved"}
      <4>1. DOMAIN written = 1 .. Len(written) /\ written[k] \in Lines
        BY <3>1
      <4>2. written[k].n = k
        BY <3>1, <4>1 DEF InNumber
      <4>3. written[k].ts \in 0 .. MaxTime /\ written[k].type \in LineTypes
        BY <4>1 DEF Lines
      <4> QED
        BY <4>2, <4>3 DEF LineTypes
    <3>3. report.phase \in {"none", "reading", "done"}
      BY <2>3 DEF TellingInv, ToldInv
    <3>4. /\ view.file \in DOMAIN TraceFiles \cup {Nil} /\ view.failed \in BOOLEAN
          /\ loads \subseteq DOMAIN TraceFiles
      BY <2>3 DEF TellingInv, ViewInv
    <3> QED
      BY <3>1, <3>2, <3>3, <3>4 DEF ReportTypeOK
  <2> QED
    BY <2>1, <2>2, <2>3, PTL DEF ReportSpec
<1>4. StoreSpec => []StoreTypeOK
  <2>1. StoreInv => StoreTypeOK
    BY DEF StoreInv
  <2> QED
    BY <2>1, StoreStarts, StoreSteps, PTL DEF StoreSpec
<1>5. RaceSpec => []RaceTypeOK
  <2>1. RaceInit => RaceInv
    BY RaceBegins
  <2>2. RaceInv /\ [RaceNext]_raceVars => RaceInv'
    BY RaceSteps
  <2>3. RaceInv => RaceTypeOK
    BY DEF RaceInv
  <2> QED
    BY <2>1, <2>2, <2>3, PTL DEF RaceSpec
<1>6. SkillSpec => []SkillTypeOK
  <2>1. SkillInv /\ edits <= MaxEdits /\ edits \in Nat => SkillTypeOK
    <3> SUFFICES ASSUME SkillInv, edits <= MaxEdits, edits \in Nat PROVE SkillTypeOK
      OBVIOUS
    <3>1. SkillTypes /\ edits \in 0 .. MaxEdits
      BY FilesAssumption DEF SkillInv
    <3>2. \A i \in DOMAIN attempts : attempts[i] \in AttemptType
      BY <3>1, AttemptsAre
    <3> QED
      BY <3>1, <3>2 DEF SkillTypes, SkillTypeOK
  <2> QED
    BY <2>1, AlwaysSkillInv, EditsAreCounted, PTL
<1>7. EvidenceSpec => []ScenarioTypeOK
  <2>1. EngineInv => ScenarioTypeOK
    BY DEF EngineInv, EngineTypes, Executions, ScenarioTypeOK
  <2> QED
    BY <2>1, AlwaysSummaries, PTL
<1>8. /\ ~ Moving("recorder") => (part = "recorder" => RecorderTypeOK)
      /\ ~ Moving("replay") => (part = "replay" => ReplayTypeOK)
  BY DEF Moving
<1> QED
  BY <1>1, <1>2, <1>3, <1>4, <1>5, <1>6, <1>7, <1>8, RecordsBehave, PTL DEF TypeOK

(* What is proved of each part holds of the parts together.                  *)
THEOREM RecordsKeepTheirPromises ==
  ASSUME RecorderAssumption, RaceAssumption, NoneAssumption, ReportsAssumption
  PROVE  Spec =>
           /\ []TracesTellRuns /\ []SnapshotsAreKept /\ []SkillsAreChecked
           /\ []ScenariosAreTold /\ AnswersCountOnce
           /\ Moving("recorder") => EventsAreKept
           /\ Moving("replay") => ContextStands
BY RecordsBehave, TracesAlwaysTellRuns, SnapshotsAreAlwaysKept, SkillsAreAlwaysChecked,
   ScenariosAlwaysTold, AnswersAlwaysCountOnce, EventsAlwaysKept, ContextAlwaysStands

=============================================================================
