---------------------------- MODULE TraceRecorder ----------------------------
(***************************************************************************)
(* TraceRecorder of packages/trace/src/trace-recorder.ts over a trace      *)
(* storage, as executeRun uses it: every run appends one event after the   *)
(* other, a recorder may be handed to several runs (options.traceRecorder) *)
(* and a storage to several recorders (options.traceStorage).              *)
(*                                                                         *)
(* An append puts its events into the buffer of the recorder and works the *)
(* buffer off, whosever events it finds there. The memory storage has an   *)
(* event when append is called; the JSONL storage writes it later, or      *)
(* rejects. A step is what happens between two awaits.                     *)
(***************************************************************************)
EXTENDS Naturals, Sequences, FiniteSets, SequencesExt

CONSTANTS
  Runs, Recorders,
  MaxEvents,   \* events a run has to append
  MaxBatch,    \* events in one appendMany
  Nothing

RecorderAssumption == MaxEvents \in Nat /\ MaxBatch \in Nat \ {0}

VARIABLES
  wiring,   \* which recorder a run was given, and the kind of the storage
  buffer,   \* [Recorders -> events not handed to the storage yet]
  closed,   \* [Recorders -> isClosed]
  call,     \* [Runs -> the call a run is in and what it was told so far]
  stored,   \* the storage
  lost      \* events whose append the storage rejected

recorderVars == <<wiring, buffer, closed, call, stored, lost>>

Event == Runs \X (1 .. MaxEvents)

Phases == {"idle", "storing", "stored", "closing", "failed"}

(* batch: the events of this call. holding: the event this call has handed  *)
(* to the storage. acked: events whose append has returned without error.   *)
Call == [phase : Phases, op : {"append", "flush", "close"}, batch : SUBSET Event,
         holding : Event \cup {Nothing}, emitted : 0 .. MaxEvents, acked : SUBSET Event]

Wiring == [recorder : [Runs -> Recorders], storage : {"memory", "jsonl"}]

RecorderTypeOK ==
  /\ wiring \in Wiring
  /\ buffer \in [Recorders -> Seq(Event)]
  /\ closed \in [Recorders -> BOOLEAN]
  /\ call \in [Runs -> Call]
  /\ stored \in Seq(Event) /\ lost \in SUBSET Event

Wired(w) ==
  /\ wiring = w
  /\ buffer = [q \in Recorders |-> <<>>]
  /\ closed = [q \in Recorders |-> FALSE]
  /\ call = [r \in Runs |-> [phase |-> "idle", op |-> "flush", batch |-> {},
                             holding |-> Nothing, emitted |-> 0, acked |-> {}]]
  /\ stored = <<>> /\ lost = {}

RecorderInit == \E w \in Wiring : Wired(w)

-----------------------------------------------------------------------------
RecorderOf(r) == wiring.recorder[r]

Batch(r, n) == [i \in 1 .. n |-> <<r, call[r].emitted + i>>]

(* storage.append(e) for the call c of run r, with rest left in the buffer. *)
HandEvent(r, c, e, rest) ==
  /\ buffer' = [buffer EXCEPT ![RecorderOf(r)] = rest]
  /\ \/ /\ wiring.storage = "memory"
        /\ stored' = Append(stored, e)
        /\ call' = [call EXCEPT ![r] = [c EXCEPT !.phase = "stored", !.holding = e]]
     \/ /\ wiring.storage = "jsonl"
        /\ call' = [call EXCEPT ![r] = [c EXCEPT !.phase = "storing", !.holding = e]]
        /\ UNCHANGED stored

(* buffer.shift() and storage.append(next).                                 *)
HandOver(r, c, q) == HandEvent(r, c, Head(q), Tail(q))

(* The buffer is empty: a close goes on to set isClosed, the other calls    *)
(* return.                                                                  *)
Settle(r, c) ==
  /\ call' = [call EXCEPT ![r] =
       [c EXCEPT !.phase = IF c.op = "close" THEN "closing" ELSE "idle",
                 !.holding = Nothing, !.batch = {}, !.acked = @ \cup c.batch]]
  /\ UNCHANGED <<buffer, stored>>

Begun(r, op, n) ==
  [call[r] EXCEPT !.op = op, !.batch = ToSet(Batch(r, n)), !.emitted = @ + n]

(* append and appendMany.                                                   *)
AppendEvents(r, n) ==
  /\ call[r].phase = "idle" /\ ~ closed[RecorderOf(r)]
  /\ call[r].emitted + n <= MaxEvents
  /\ HandOver(r, Begun(r, "append", n), buffer[RecorderOf(r)] \o Batch(r, n))
  /\ UNCHANGED <<wiring, closed, lost>>

(* "TraceRecorder is closed.": executeRun throws.                           *)
RefuseAppend(r) ==
  /\ call[r].phase = "idle" /\ closed[RecorderOf(r)]
  /\ call[r].emitted < MaxEvents
  /\ call' = [call EXCEPT ![r].phase = "failed"]
  /\ UNCHANGED <<wiring, buffer, closed, stored, lost>>

Idle(r, op) ==
  call[r].phase = "idle" /\ (op = "close" => ~ closed[RecorderOf(r)])

(* flush, at the end of a run, or close, on a buffer that still holds events *)
WorkOff(r, op) ==
  /\ Idle(r, op) /\ buffer[RecorderOf(r)] # <<>>
  /\ HandOver(r, Begun(r, op, 0), buffer[RecorderOf(r)])
  /\ UNCHANGED <<wiring, closed, lost>>

(* close on an empty buffer: only isClosed remains to be set.               *)
CloseEmpty(r) ==
  /\ Idle(r, "close") /\ buffer[RecorderOf(r)] = <<>>
  /\ Settle(r, Begun(r, "close", 0))
  /\ UNCHANGED <<wiring, closed, lost>>

MarkClosed(r) ==
  /\ call[r].phase = "closing"
  /\ closed' = [closed EXCEPT ![RecorderOf(r)] = TRUE]
  /\ call' = [call EXCEPT ![r].phase = "idle"]
  /\ UNCHANGED <<wiring, buffer, stored, lost>>

(* appendFile has written the line.                                         *)
WriteLine(r) ==
  /\ call[r].phase = "storing"
  /\ stored' = Append(stored, call[r].holding)
  /\ call' = [call EXCEPT ![r].phase = "stored"]
  /\ UNCHANGED <<wiring, buffer, closed, lost>>

(* mkdir or appendFile fails: the event has left the buffer, and whoever    *)
(* called gets the error.                                                   *)
RejectLine(r) ==
  /\ call[r].phase = "storing"
  /\ lost' = lost \cup {call[r].holding}
  /\ call' = [call EXCEPT ![r].phase = "failed", ![r].holding = Nothing]
  /\ UNCHANGED <<wiring, buffer, closed, stored>>

(* One event per flush instead of the loop (not what the code does).        *)
ReturnAfterOne(r) ==
  /\ call[r].phase = "stored"
  /\ Settle(r, call[r])
  /\ UNCHANGED <<wiring, closed, lost>>

(* The loop of flush after its await.                                       *)
ContinueFlush(r) ==
  /\ call[r].phase = "stored"
  /\ \/ /\ buffer[RecorderOf(r)] # <<>>
        /\ HandOver(r, call[r], buffer[RecorderOf(r)])
     \/ /\ buffer[RecorderOf(r)] = <<>>
        /\ Settle(r, call[r])
  /\ UNCHANGED <<wiring, closed, lost>>

Settling(r) ==
  WriteLine(r) \/ RejectLine(r) \/ ContinueFlush(r) \/ MarkClosed(r)

RecorderNext ==
  \E r \in Runs :
    \/ \E n \in 1 .. MaxBatch : AppendEvents(r, n)
    \/ \E op \in {"flush", "close"} : WorkOff(r, op)
    \/ RefuseAppend(r) \/ CloseEmpty(r) \/ Settling(r)

RecorderSpec == RecorderInit /\ [][RecorderNext]_recorderVars

(* The file system answers and promise continuations run; nobody has to     *)
(* append.                                                                  *)
RecorderFairness == \A r \in Runs : WF_recorderVars(Settling(r))

-----------------------------------------------------------------------------
Buffered == UNION {ToSet(buffer[q]) : q \in Recorders}

(* Events that a storage was given and has not answered for.                *)
InFlight == {call[r].holding : r \in {p \in Runs : call[p].phase = "storing"}}

Pending == Buffered \cup InFlight

(* An unshared recorder, or a storage that answers at once.                 *)
Orderly(r) ==
  \/ wiring.storage = "memory"
  \/ \A p \in Runs \ {r} : RecorderOf(p) # RecorderOf(r)

(* append returns when its events are stored, for a run that has a recorder *)
(* to itself and for every run on the memory storage. A run that shares its *)
(* recorder over files may be told so while another run still writes its    *)
(* event.                                                                   *)
AcknowledgedIsStored ==
  \A r \in Runs : Orderly(r) => call[r].acked \subseteq ToSet(stored)

(* The stored events of such a run are its first ones, in the order it      *)
(* emitted them: each is there once, after all the run emitted before it.   *)
RunOrder(r) ==
  \A j \in DOMAIN stored : stored[j][1] = r =>
    /\ \A i \in 1 .. j - 1 : stored[i] # stored[j]
    /\ \A n \in 1 .. stored[j][2] - 1 : \E i \in 1 .. j - 1 : stored[i] = <<r, n>>

StoredInRunOrder == \A r \in Runs : Orderly(r) => RunOrder(r)

(* Nobody walks away from events in the buffer: some call is working them   *)
(* off, or a call on this recorder has been told that the storage rejected. *)
BufferHasAKeeper ==
  \A q \in Recorders : buffer[q] # <<>> =>
    \E r \in Runs : RecorderOf(r) = q /\ call[r].phase \in {"storing", "stored", "failed"}

(* Whatever the runs share, an accepted event is stored exactly once or its *)
(* loss reported: the recorder implements an event log.                     *)
Log == INSTANCE EventLog WITH pending <- Pending, log <- stored, lost <- lost

StoredOnceOrReported == Log!LogSpec

(* An event whose append was acknowledged is in storage, each run's events  *)
(* are there in the run's order, what is still buffered has a flush or a    *)
(* close that will write it, and none is stored twice or lost unheard.      *)
EventsAreKept ==
  [](AcknowledgedIsStored /\ StoredInRunOrder /\ BufferHasAKeeper) /\ StoredOnceOrReported

(* Every append, flush and close comes back.                                *)
CallsReturn ==
  \A r \in Runs : call[r].phase \in {"storing", "stored", "closing"} ~>
                    call[r].phase \in {"idle", "failed"}

=============================================================================
