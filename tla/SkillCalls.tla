------------------------------ MODULE SkillCalls ------------------------------
(***************************************************************************)
(* Actions a skill implements: every attempt finds the skill on disk anew, *)
(* by directory or by name, reads and checks its manifest, imports its     *)
(* entry, which a process evaluates once and for all, and runs it.  What   *)
(* the manifest says of side effects reaches the executor with the answer: *)
(* the attempt was counted by what the executor believed before.           *)
(***************************************************************************)
EXTENDS Naturals, Sequences, FiniteSets

CONSTANTS SkillDirs,      \* the directories of skills
          SkillActions,   \* the actions, each with its declared class and its `place`
          SkillFiles,     \* the skills a directory may hold
          Registry,       \* the directories skillRegistry discovers
          SearchPath,     \* those under skillSearchPaths
          MaxTries,       \* retryPolicy.maxAttempts
          MaxSkillCalls,  \* bound: calls of an action
          MaxEdits,       \* bound: changes on disk
          Absent

(* A skill on disk: the name, the side effect and the input its manifest    *)
(* asks for, and what became of the entry it names.                         *)
Skills ==
  [name : {"look", "pay"}, sideEffect : {"read", "external"}, fits : BOOLEAN,
   entry : {"runs", "missing", "typescript"}]

(* What an attempt tells of itself.                                         *)
Codes ==
  {"ambiguous", "not found", "no manifest", "entry missing", "entry invalid", "input invalid",
   "ok", "threw", "output invalid"}
Answer == [ok : BOOLEAN, inputValidated : BOOLEAN, code : Codes]

ASSUME FilesAssumption ==
  /\ SkillFiles \subseteq Skills /\ Registry \subseteq SkillDirs /\ SearchPath \subseteq SkillDirs
  /\ \A a \in SkillActions :
       a.declared \in {"none", "read", "external"} /\ a.place \in SkillDirs \cup {Absent}
  /\ MaxSkillCalls \in Nat /\ MaxEdits \in Nat
  /\ Absent \notin SkillDirs /\ Absent \notin Skills /\ Absent \notin Answer
  /\ Absent \notin {"read", "external", "fails"}

VARIABLES
  disk,      \* the skill in each directory, or Absent
  evaluated, \* per directory, the side effect of the code the process imported first
  attempts,  \* the attempts, in the order they began
  awaited,   \* the executor waits for the last attempt
  sideEffect,\* the side effect the executor believes the action to have
  edits

skillVars == <<disk, evaluated, attempts, awaited, sideEffect, edits>>

(* `believed`: the class the attempt was counted by; `found`: the directory;*)
(* `bearers`: the registered directories that bore the name; `answer`: what *)
(* the attempt told of itself; `effect`: what its code did.                 *)
NewAttempt(c, a) ==
  [call |-> c, action |-> a, step |-> "resolve", believed |-> sideEffect,
   found |-> Absent, bearers |-> {}, manifest |-> Absent, effect |-> "none", answer |-> Absent]

Believed == {"none", "read", "external"}
AttemptType ==
  [call : 1 .. MaxSkillCalls, action : SkillActions,
   step : {"resolve", "load", "import", "running", "over", "heard"}, believed : Believed,
   found : SkillDirs \cup {Absent}, bearers : SUBSET SkillDirs,
   manifest : Skills \cup {Absent}, effect : Believed,
   answer : Answer \cup {Absent}]

SkillTypeOK ==
  /\ disk \in [SkillDirs -> Skills \cup {Absent}]
  /\ evaluated \in [SkillDirs -> {"read", "external", "fails", Absent}]
  /\ \A i \in DOMAIN attempts : attempts[i] \in AttemptType
  /\ awaited \in BOOLEAN /\ sideEffect \in Believed /\ edits \in 0 .. MaxEdits

SkillInit ==
  /\ disk \in [SkillDirs -> SkillFiles \cup {Absent}]
  /\ evaluated = [d \in SkillDirs |-> Absent]
  /\ attempts = <<>> /\ awaited = FALSE /\ sideEffect = "none" /\ edits = 0

-----------------------------------------------------------------------------
Calls == {attempts[i].call : i \in DOMAIN attempts}
LastCall == IF attempts = <<>> THEN 0 ELSE attempts[Len(attempts)].call
TriesOf(c) == {i \in DOMAIN attempts : attempts[i].call = c}

(* The files are an operator's, who may edit them at any time.              *)
Edit(d, s) ==
  /\ edits < MaxEdits /\ disk[d] # s
  /\ disk' = [disk EXCEPT ![d] = s]
  /\ edits' = edits + 1
  /\ UNCHANGED <<evaluated, attempts, awaited, sideEffect>>

CallSkill(a) ==
  /\ ~awaited /\ LastCall < MaxSkillCalls
  /\ sideEffect' = a.declared
  /\ attempts' = Append(attempts, [NewAttempt(LastCall + 1, a) EXCEPT !.believed = a.declared])
  /\ awaited' = TRUE
  /\ UNCHANGED <<disk, evaluated, edits>>

(* The executor takes an answer, or gives up waiting: it may try again with *)
(* what it believes by then, and the attempt it left behind runs on.        *)
After(believes) ==
  LET last == attempts[Len(attempts)]
      again == Cardinality(TriesOf(last.call)) < MaxTries
                 /\ IF last.answer = Absent THEN TRUE ELSE ~last.answer.ok
      tell == [attempts EXCEPT ![Len(attempts)].step =
                 IF last.answer = Absent THEN @ ELSE "heard"]
  IN  /\ awaited
      /\ sideEffect' = believes
      /\ \/ /\ again
            /\ attempts' = Append(tell, [NewAttempt(last.call, last.action) EXCEPT
                                           !.believed = believes])
            /\ UNCHANGED awaited
         \/ /\ awaited' = FALSE /\ attempts' = tell
      /\ UNCHANGED <<disk, evaluated, edits>>

ClassTold(at) == IF at.manifest = Absent THEN at.action.declared ELSE at.manifest.sideEffect

TakeAnswerUnread ==
  /\ attempts # <<>> /\ attempts[Len(attempts)].answer # Absent
  /\ After(sideEffect)

TakeAnswer ==
  /\ attempts # <<>> /\ attempts[Len(attempts)].answer # Absent
  /\ After(ClassTold(attempts[Len(attempts)]))

TimeOutSkill ==
  /\ attempts # <<>> /\ attempts[Len(attempts)].answer = Absent
  /\ After(sideEffect)

-----------------------------------------------------------------------------
Moves(i, record) ==
  /\ attempts' = [attempts EXCEPT ![i] = record]
  /\ UNCHANGED <<disk, awaited, sideEffect, edits>>

Answers(at, ok, validated, code) ==
  [at EXCEPT !.step = "over",
             !.answer = [ok |-> ok, inputValidated |-> validated, code |-> code]]

Bearers(dirs, name) == {d \in dirs : disk[d] # Absent /\ disk[d].name = name}

(* resolveLoadedSkill: skillDir, then the registry, then the search paths.  *)
(* A name two directories bear is refused where it is first looked for.     *)
Found(dirs, at) == IF \E d, e \in dirs : d # e THEN Answers(at, FALSE, FALSE, "ambiguous")
                   ELSE [at EXCEPT !.step = "load", !.found = CHOOSE d \in dirs : TRUE]

Lookup(registered, searched, at) ==
  IF registered # {} THEN Found(registered, at)
  ELSE IF searched # {} THEN Found(searched, at) ELSE Answers(at, FALSE, FALSE, "not found")

Resolve(i) ==
  LET at == attempts[i]
      registered == Bearers(Registry, at.action.name)
  IN  /\ at.step = "resolve"
      /\ UNCHANGED evaluated
      /\ Moves(i, IF at.action.place # Absent
                    THEN [at EXCEPT !.step = "load", !.found = at.action.place]
                    ELSE Lookup(registered, Bearers(SearchPath, at.action.name),
                                [at EXCEPT !.bearers = registered]))

(* loadSkillFromDir reads the manifest again, whatever discovery read.      *)
Refused(s) ==
  CASE s.entry = "missing" -> "entry missing"
    [] s.entry = "typescript" -> "entry invalid"
    [] ~s.fits -> "input invalid"
    [] OTHER -> "none"

Load(i) ==
  LET at == attempts[i]
      s == disk[at.found]
      read == [at EXCEPT !.manifest = s]
  IN  /\ at.step = "load"
      /\ UNCHANGED evaluated
      /\ Moves(i, IF s = Absent THEN Answers(at, FALSE, FALSE, "no manifest")
                  ELSE IF Refused(s) # "none" THEN Answers(read, FALSE, FALSE, Refused(s))
                  ELSE [read EXCEPT !.step = "import"])

(* import() evaluates a file once: the code that runs is the code first     *)
(* imported from the path.                                                  *)
Imported(d) ==
  IF evaluated[d] # Absent THEN evaluated[d]
  ELSE IF disk[d] = Absent \/ disk[d].entry # "runs" THEN "fails" ELSE disk[d].sideEffect

ImportAndRun(i) ==
  LET at == attempts[i]
      code == Imported(at.found)
  IN  /\ at.step = "import"
      /\ evaluated' = IF code = "fails" THEN evaluated ELSE [evaluated EXCEPT ![at.found] = code]
      /\ Moves(i, IF code = "fails" THEN Answers(at, FALSE, TRUE, "entry invalid")
                  ELSE [at EXCEPT !.step = "running", !.effect = code])

FinishSkill(i, outcome) ==
  /\ attempts[i].step = "running"
  /\ UNCHANGED evaluated
  /\ Moves(i, Answers(attempts[i], outcome = "ok", TRUE, outcome))

SkillOutcomes == {"ok", "threw", "output invalid"}

SkillNext ==
  \/ \E d \in SkillDirs, s \in SkillFiles \cup {Absent} : Edit(d, s)
  \/ \E a \in SkillActions : CallSkill(a)
  \/ TakeAnswer \/ TimeOutSkill
  \/ \E i \in DOMAIN attempts :
       Resolve(i) \/ Load(i) \/ ImportAndRun(i) \/ \E o \in SkillOutcomes : FinishSkill(i, o)

SkillSpec == SkillInit /\ [][SkillNext]_skillVars

-----------------------------------------------------------------------------
(* An external effect the run did not count was hidden by a declaration, and*)
(* only until an attempt of the call answered: the manifest's own class     *)
(* counts from then on, unless the files changed (action-executor.ts:326).  *)
HiddenUntilAnswered ==
  \A j \in DOMAIN attempts :
    (attempts[j].effect = "external" /\ attempts[j].believed # "external" /\ edits = 0) =>
      /\ attempts[j].action.declared # "external"
      /\ \A i \in TriesOf(attempts[j].call) :
           i < j /\ attempts[i].step = "heard" => attempts[i].manifest = Absent

(* A directory of the search path serves a name only when no registered     *)
(* directory bears it: an ambiguous name fails there                        *)
(* (skill-action-executor.ts:130).                                          *)
RegistryComesFirst ==
  \A i \in DOMAIN attempts :
    attempts[i].found \in SkillDirs /\ attempts[i].action.place = Absent =>
      attempts[i].bearers \in {{attempts[i].found}, {}}

(* An attempt that reports an unvalidated input ran no code, and one that   *)
(* ran code read a manifest the input fits (skill-action-executor.ts:249).  *)
UnvalidatedRanNothing ==
  \A i \in DOMAIN attempts : attempts[i].effect # "none" =>
    /\ attempts[i].manifest.fits
    /\ attempts[i].answer # Absent => attempts[i].answer.inputValidated

(* A skill's class hides an external effect only until its first answer,    *)
(* registered skills come before the search path, and a skill whose input   *)
(* was not validated did nothing.                                           *)
SkillsAreChecked == HiddenUntilAnswered /\ RegistryComesFirst /\ UnvalidatedRanNothing

=============================================================================
