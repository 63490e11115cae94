---------------------------- MODULE SnapshotStore ----------------------------
(***************************************************************************)
(* The snapshot stores of packages/runtime/src/snapshot-store.ts as seen   *)
(* by whoever resumes a run: InMemorySnapshotStore, and JsonFileSnapshot-  *)
(* Store, which several processes may have open on one path. A save of the *)
(* file store reads the whole file and writes it back; both calls are      *)
(* synchronous, so only another process or a crash comes between them.     *)
(*                                                                         *)
(* A snapshot is [run, no, ts]: the no-th of its run, taken in tick ts.    *)
(* Identifiers are random, so no snapshot replaces another.                *)
(***************************************************************************)
EXTENDS Naturals, Sequences, FiniteSets, SequencesExt

CONSTANTS
  Owners,       \* processes, each executing the run of its own name
  MaxSnapshots, \* of a run
  MaxTicks,     \* ticks of the clock
  Unread

ASSUME StoreAssumption == MaxSnapshots \in Nat /\ MaxTicks \in Nat

VARIABLES
  medium,   \* "memory" or "file"
  content,  \* the snapshots of the map or the file, in insertion order
  torn,     \* the file was left unparsable
  clock,
  reading,  \* [Owners -> what a save has read, or Unread]
  taken,    \* [Owners -> snapshots of the run so far]
  kept,     \* saves that returned
  raced     \* snapshots written while another save had read and not written

storeVars == <<medium, content, torn, clock, reading, taken, kept, raced>>

Snapshot == [run : Owners, no : 1 .. MaxSnapshots, ts : 0 .. MaxTicks]

StoreTypeOK ==
  /\ medium \in {"memory", "file"} /\ torn \in BOOLEAN /\ clock \in 0 .. MaxTicks
  /\ content \in Seq(Snapshot) /\ kept \subseteq Snapshot /\ raced \subseteq Snapshot
  /\ reading \in [Owners -> Seq(Snapshot) \cup {Unread}]
  /\ taken \in [Owners -> 0 .. MaxSnapshots]

Opened(m) ==
  /\ medium = m /\ content = <<>> /\ torn = FALSE /\ clock = 0
  /\ reading = [p \in Owners |-> Unread] /\ taken = [p \in Owners |-> 0]
  /\ kept = {} /\ raced = {}

StoreInit == \E m \in {"memory", "file"} : Opened(m)

-----------------------------------------------------------------------------
(* Numbered from 0 (not what the code's caller does).                       *)
NextSnapshotNo(p) == [run |-> p, no |-> taken[p], ts |-> clock]

NextSnapshot(p) == [run |-> p, no |-> taken[p] + 1, ts |-> clock]

MayTake(p) == taken[p] < MaxSnapshots /\ reading[p] = Unread

SaveInMemory(p) ==
  /\ medium = "memory" /\ MayTake(p)
  /\ content' = Append(content, NextSnapshot(p))
  /\ taken' = [taken EXCEPT ![p] = @ + 1]
  /\ kept' = kept \cup {NextSnapshot(p)}
  /\ UNCHANGED <<medium, torn, clock, reading, raced>>

(* readAll; JSON.parse throws on a torn file, and so does every save.       *)
ReadFile(p) ==
  /\ medium = "file" /\ MayTake(p) /\ ~ torn
  /\ reading' = [reading EXCEPT ![p] = content]
  /\ UNCHANGED <<medium, content, torn, clock, taken, kept, raced>>

Others(p) == {q \in Owners \ {p} : reading[q] # Unread}

(* writeAll replaces the file by what was read and the new snapshot.        *)
WriteFile(p) ==
  /\ reading[p] # Unread
  /\ content' = Append(reading[p], NextSnapshot(p))
  /\ torn' = FALSE
  /\ taken' = [taken EXCEPT ![p] = @ + 1]
  /\ reading' = [reading EXCEPT ![p] = Unread]
  /\ kept' = kept \cup {NextSnapshot(p)}
  /\ raced' = IF Others(p) = {} THEN raced ELSE raced \cup {NextSnapshot(p)}
  /\ UNCHANGED <<medium, clock>>

(* The process dies in writeFileSync, which truncates the file first: what  *)
(* is left does not parse.                                                  *)
DieWriting(p) ==
  /\ reading[p] # Unread
  /\ content' = <<>> /\ torn' = TRUE
  /\ reading' = [reading EXCEPT ![p] = Unread]
  /\ taken' = [taken EXCEPT ![p] = MaxSnapshots]
  /\ UNCHANGED <<medium, clock, kept, raced>>

Tick == clock < MaxTicks /\ clock' = clock + 1
        /\ UNCHANGED <<medium, content, torn, reading, taken, kept, raced>>

StoreNext ==
  \/ \E p \in Owners : SaveInMemory(p) \/ ReadFile(p) \/ WriteFile(p) \/ DieWriting(p)
  \/ Tick

StoreSpec == StoreInit /\ [][StoreNext]_storeVars

-----------------------------------------------------------------------------
(* Order of insertion alone (not what the code does).                       *)
SortsByArrival(s, i, t, j) == IF medium = "memory" THEN i > j ELSE i < j

(* The comparators never answer 0. For two snapshots of one tick the memory *)
(* store's puts the later of the two first, the file store's the earlier:   *)
(* what the insertion sort of the engine makes of -1 and 1.                 *)
SortsBefore(s, i, t, j) ==
  \/ s.ts > t.ts
  \/ s.ts = t.ts /\ IF medium = "memory" THEN i > j ELSE i < j

OfRun(r) == {i \in DOMAIN content : content[i].run = r}

(* latestByRun, for a run the store holds a snapshot of.                    *)
LatestByRun(r) ==
  content[CHOOSE i \in OfRun(r) :
            \A j \in OfRun(r) \ {i} : SortsBefore(content[i], i, content[j], j)]

(* Where to resume: the memory store names the last snapshot saved. The     *)
(* file store may name an earlier one, but of the same millisecond and      *)
(* never of an earlier one: what is repeated is the work of one tick.       *)
LatestIsRecent ==
  \A r \in Owners : OfRun(r) # {} =>
    \A s \in kept \ raced : s.run = r =>
      /\ s.ts <= LatestByRun(r).ts
      /\ medium = "memory" => s.no <= LatestByRun(r).no

(* A snapshot whose save returned is there for good, unless a process died  *)
(* writing or another one had read the file when this one was written.      *)
KeptUnlessRaced == torn \/ kept \ ToSet(content) \subseteq raced

(* The latest snapshot is of the newest millisecond there is, and a save is *)
(* lost only to another that raced it or to a process that died writing.    *)
SnapshotsAreKept == LatestIsRecent /\ KeptUnlessRaced

=============================================================================
