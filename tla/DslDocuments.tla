---------------------------- MODULE DslDocuments ----------------------------
(***************************************************************************)
(* A DSL document on its way to the runtime: its keys are replaced by the  *)
(* aliases they stand for, its names made canonical kind by kind, and what *)
(* came out is validated.  An author writes a document name by name.  The  *)
(* Run Preview rewrites the conditions of the result once more, `yutra     *)
(* run` takes them as they are.                                            *)
(*                                                                         *)
(* A name is any of Names; Base is what its dictionary entry, its slug or  *)
(* its code points make of it. Spaces around names, and which of the three *)
(* applied, are not modelled.                                              *)
(***************************************************************************)
EXTENDS Naturals, Sequences, FiniteSets, SequencesExt, TLC, Absence

CONSTANTS Names, Base, Alias,
          Words,       \* names an expression can read: ASCII letters, digits, _
          Ideographs,  \* names only the rewriting of expressions finds
          Values,      \* what a condition compares with
          Conditions,  \* what authors write of moves
          FirstName,   \* the state a document opens with
          MaxParts, MaxMoves   \* bounds on what is written, and on its moves

NamesAssumption ==
  /\ Words \cup Ideographs \subseteq Names /\ Words \cap Ideographs = {}
  /\ DOMAIN Base = Names /\ DOMAIN Alias \subseteq Ideographs
  /\ IsInjective(Alias) /\ Range(Alias) \cap Names = {}
  /\ FirstName \in Names

VARIABLE document

Listed == {"fields", "states", "intents", "actions", "guards"}

DocumentTypeOK ==
  /\ \A k \in Listed : document[k] \in Seq(Names)
  /\ document.initial \in Names
  /\ \A m \in Range(document.moves) : {m.from, m.to} \subseteq Names

-----------------------------------------------------------------------------
(* Conditions: a comparison of a path in the context (`ctx.a.b == v`), one  *)
(* that leaves out `ctx.` (`intent == v`), and the word `otherwise`         *)
Bare(value) == [form |-> "bare", path |-> <<"intent">>, value |-> value]
Otherwise == [form |-> "otherwise", path |-> <<>>, value |-> None]
Always == [form |-> "none", path |-> <<>>, value |-> None]

(* evaluateExpression in a flat context: it reads nothing but comparisons   *)
(* of ASCII paths, less one `ctx` in front; the `name` of the intent is the *)
(* one value that lies deeper.                                              *)
Stripped(path) == IF path[1] = "ctx" THEN Tail(path) ELSE path
Readable == Words \cup {"ctx", "intent", "name"}
Holds(c, context) ==
  CASE c.form = "none" -> TRUE
    [] c.form = "compare" ->
         /\ Range(c.path) \subseteq Readable
         /\ Stripped(c.path) \in DOMAIN context
         /\ context[Stripped(c.path)] = c.value
    [] OTHER -> FALSE

-----------------------------------------------------------------------------
(* normalizeStructurally: names that are keys of an object are taken for    *)
(* the keys of the language.                                                *)
AsKey(n) == IF n \in DOMAIN Alias THEN Alias[n] ELSE n
Keys(names) == [k \in DOMAIN names |-> AsKey(names[k])]
Structural(d) == [d EXCEPT !.fields = Keys(@), !.states = Keys(@)]

(* NameNormalizer: a name met before keeps its canonical name, a new one    *)
(* gets its base or the first numbered one that is free                     *)
BaseOf(n) == IF n \in Names THEN Base[n] ELSE n
Numbered(base, k) == base \o "_" \o ToString(k)
EnsureUnique(base, used) ==
  IF base \notin used THEN base
  ELSE Numbered(base, CHOOSE k \in 2..Cardinality(used) + 1 :
                        /\ Numbered(base, k) \notin used
                        /\ \A j \in 2..k - 1 : Numbered(base, j) \in used)
Canonicalize(names) ==
  FoldLeft(LAMBDA map, n : IF n \in DOMAIN map THEN map
                           ELSE map @@ (n :> EnsureUnique(BaseOf(n), Range(map))),
           <<>>, names)

(* canonicalizeDslNames: each kind has its own names, the declared ones     *)
(* first; conditions are rewritten by the fields, at their head only.       *)
Targets(d) == [k \in DOMAIN d.moves |-> d.moves[k].to]
Renamed(names, map) == [k \in DOMAIN names |-> map[names[k]]]
ByField(path, fields) ==
  IF path[1] \in (Words \cup Ideographs) \cap DOMAIN fields
  THEN <<fields[path[1]]>> \o Tail(path) ELSE path
Rewritten(c, fields) ==
  IF c.form = "compare" THEN [c EXCEPT !.path = ByField(@, fields)] ELSE c
Canonical(d) ==
  LET s == Structural(d)
      fields == Canonicalize(s.fields)
      states == Canonicalize(s.states \o <<s.initial>> \o Targets(s))
      intents == Canonicalize(s.intents)
      actions == Canonicalize(s.actions \o s.uses)
      guards == Canonicalize(s.guards \o s.guarded)
  IN [s EXCEPT !.fields = Renamed(@, fields), !.states = Renamed(@, states),
               !.initial = states[@], !.intents = Renamed(@, intents),
               !.actions = Renamed(@, actions), !.uses = Renamed(@, actions),
               !.guards = Renamed(@, guards), !.guarded = Renamed(@, guards),
               !.moves = [k \in DOMAIN @ |->
                            [from |-> states[AsKey(@[k].from)], to |-> states[@[k].to],
                             when |-> Rewritten(@[k].when, fields)]]]

(* validateDsl: the references that name nothing, and the states no path    *)
(* from the initial one reaches                                             *)
Errors(d) ==
  [initial |-> d.initial \notin Range(d.states),
   moves |-> {k \in DOMAIN d.moves : d.moves[k].to \notin Range(d.states)},
   uses |-> {k \in DOMAIN d.uses : d.uses[k] \notin Range(d.actions)},
   guarded |-> {k \in DOMAIN d.guarded : d.guarded[k] \notin Range(d.guards)}]
Reached(d) ==
  LET from(S) == S \cup {d.moves[k].to : k \in {j \in DOMAIN d.moves : d.moves[j].from \in S}}
      walk[n \in 0..Len(d.states)] == IF n = 0 THEN {d.initial} ELSE from(walk[n - 1])
  IN walk[Len(d.states)] \cap Range(d.states)
Unreachable(d) == Range(d.states) \ Reached(d)

(* normalizeSpecForRuntime, of the Run Preview: `otherwise` is no condition *)
(* and the word `intent`, wherever it stands, is one of the context.        *)
Previewed(c) ==
  CASE c.form = "otherwise" -> Always
    [] c.form = "bare" -> [c EXCEPT !.form = "compare"]
    [] c.form = "compare" ->
         [c EXCEPT !.path = FlattenSeq([k \in DOMAIN @ |->
                                          IF @[k] = "intent" THEN <<"ctx", "intent">>
                                          ELSE <<@[k]>>]),
                   !.value = IF @ = "intent" THEN "ctx.intent" ELSE @]
    [] OTHER -> c

-----------------------------------------------------------------------------
DocumentInit ==
  document = [fields |-> <<>>, states |-> <<FirstName>>, intents |-> <<>>,
              initial |-> FirstName, actions |-> <<>>, uses |-> <<>>, guards |-> <<>>,
              guarded |-> <<>>, moves |-> <<>>]

Size(d) ==
  Len(d.fields) + Len(d.states) + Len(d.intents) + Len(d.actions) + Len(d.uses)
    + Len(d.guards) + Len(d.guarded) + Len(d.moves)
    + (IF d.initial = d.states[1] THEN 0 ELSE 1)

Write(d) == Size(document) < MaxParts /\ document' = d
WriteName ==
  \E k \in Listed, n \in Names :
    /\ n \notin Range(document[k])
    /\ Write([document EXCEPT ![k] = Append(@, n)])
WriteReference ==
  \E k \in {"uses", "guarded"}, n \in Names : Write([document EXCEPT ![k] = Append(@, n)])
WriteMove ==
  /\ Len(document.moves) < MaxMoves
  /\ \E s \in Range(document.states), t \in Names, c \in Conditions :
       Write([document EXCEPT !.moves = Append(@, [from |-> s, to |-> t, when |-> c])])
SetInitial ==
  /\ document.initial = document.states[1]
  /\ \E n \in Names \ {document.initial} : Write([document EXCEPT !.initial = n])

DocumentNext == WriteName \/ WriteReference \/ WriteMove \/ SetInitial

-----------------------------------------------------------------------------
KeyWords == DOMAIN Alias
WithoutKeyWords == (Range(document.fields) \cup Range(document.states)) \cap KeyWords = {}
SharesBase(n, names) == \E m \in Range(names) \ {n} : BaseOf(m) = BaseOf(n)

(* Canonical names are other names and nothing else: what a document refers *)
(* to is found, missed and reached as it was written, and canonicalising    *)
(* twice changes nothing (canonicalize.ts:29).  A name that is a word of    *)
(* the language as a key of states or fields is the exception.              *)
RenamingKeepsDocument(canonical) ==
  /\ WithoutKeyWords =>
       /\ Errors(canonical) = Errors(document)
       /\ Cardinality(Unreachable(canonical)) = Cardinality(Unreachable(document))
       /\ \A k \in Listed : Len(canonical[k]) = Len(document[k])
  /\ Canonical(canonical) = canonical
  /\ \A k \in Listed : Cardinality(Range(canonical[k])) = Len(canonical[k])

(* A condition on a declared field reads that field under its canonical     *)
(* name; it is unreadable where the name has other characters, and where it *)
(* is a word of the language (canonicalize.ts:20).                          *)
ConditionsFollowTheirFields(canonical) ==
  \A k \in DOMAIN document.moves :
    LET written == document.moves[k].when
        read == canonical.moves[k].when
    IN written.form = "compare" /\ written.path[1] \in Range(document.fields) =>
         IF written.path[1] \in (Words \cup Ideographs) \ KeyWords
         THEN /\ read.path[1] = Canonicalize(Keys(document.fields))[written.path[1]]
              /\ read.path[1] \in Range(canonical.fields)
         ELSE written.path[1] \notin Words /\ read = written

(* A run is given values and an intent under the names its author wrote:    *)
(* they reach the field or the intent of that name or none, and another     *)
(* only when two names have one base (run-preview.ts:49).                   *)
InputsReachTheirNames(canonical) ==
  \A k \in {"fields", "intents"} : \A j \in DOMAIN canonical[k] :
    WithoutKeyWords /\ canonical[k][j] \in Range(document[k]) =>
      \/ canonical[k][j] = document[k][j]
      \/ SharesBase(document[k][j], document[k])

(* What a preview decides, a run decides too, but for conditions only one   *)
(* of them reads: `otherwise`, a bare `intent`, the word intent as a value  *)
(* and a field of that name inside another (run-preview.ts:84).             *)
Contexts == [{<<"intent">>, <<"intent", "name">>, <<"order", "intent">>} -> Values]
OnlyPreviewed(c) ==
  \/ c.form \in {"otherwise", "bare"}
  \/ c.form = "compare" /\ (c.value = "intent" \/ c.path = <<"order", "intent">>)
PreviewsRunAlike(canonical) ==
  \A k \in DOMAIN canonical.moves :
    LET c == canonical.moves[k].when IN
    \A context \in Contexts :
      \/ Holds(Previewed(c), context) = Holds(c, context)
      \/ OnlyPreviewed(c)

(* The four of every document an author can write                           *)
DocumentsMeanWhatTheySay ==
  LET canonical == Canonical(document) IN
  /\ RenamingKeepsDocument(canonical)
  /\ ConditionsFollowTheirFields(canonical)
  /\ InputsReachTheirNames(canonical)
  /\ PreviewsRunAlike(canonical)

=============================================================================
