---------------------------- MODULE CompileCommands ----------------------------
(***************************************************************************)
(* The compile commands of the CLI on one output directory: `compile`,     *)
(* `composition compile` and `orchestrator compile`, run one after the     *)
(* other or at the same time, forced or not, dry or not, interrupted or    *)
(* refused by the file system.  Each looks once whether its output is      *)
(* there, and then writes file after file, each beside its place and       *)
(* renamed into it.                                                        *)
(***************************************************************************)
EXTENDS Naturals, PackConfigs, Absence

CONSTANTS Commands,  \* commands a user may start, each once
          GivenTo    \* what each may be given: a kind and what is compiled of it

CommandsAssumption == None \notin Commands

VARIABLES
  given,     \* the input of each command
  flags,     \* force and dryRun of each command
  phase,     \* idle, checked, writing, renaming, or the exit of the command
  next,      \* how many files the command has written
  disk,      \* whose content each file has, or None
  temps,     \* the commands with a file beside its place
  made,      \* the output directory exists
  seen,      \* the files a command saw when it looked
  replaced,  \* the files of others it has renamed over
  disturbed  \* the commands whose files another has written over since they began

commandVars == <<given, flags, phase, next, disk, temps, made, seen, replaced, disturbed>>

Exits == {"success", "refused", "invalid", "stopped"}

-----------------------------------------------------------------------------
(* The files of each kind in the order they are written: a pack's report    *)
(* comes last, a bundle's index first and its orchestrator last; a report   *)
(* that is written before what it reports on                                *)
ReportFirst == <<"compile-report", "agent", "policy">>
PackTargets == <<"agent", "policy", "compile-report">>
CompositionTargets == <<"composition-index", "slot-agent">>
OrchestratorTargets == <<"composition-index", "slot-agent", "orchestrator">>
Targets(c) ==
  CASE given[c].kind = "pack" -> PackTargets
    [] given[c].kind = "composition" -> CompositionTargets
    [] OTHER -> OrchestratorTargets

Files == {"agent", "policy", "compile-report", "composition-index", "slot-agent", "orchestrator"}
FilesOf(c) == ToSet(Targets(c))

(* Whether the compiler has something to write                              *)
Compiles(c) ==
  IF given[c].kind = "pack"
  THEN Response(given[c].config, given[c].mode).ok
  ELSE given[c].sound

Given(inputs, options) ==
  /\ given = inputs /\ flags = options
  /\ phase = [c \in Commands |-> "idle"]
  /\ next = [c \in Commands |-> 0]
  /\ disk = [f \in Files |-> None]
  /\ temps = {} /\ made = FALSE
  /\ seen = [c \in Commands |-> {}] /\ replaced = [c \in Commands |-> {}]
  /\ disturbed = {}

CommandsInit ==
  \E inputs \in [Commands -> UNION {GivenTo[c] : c \in Commands}],
     options \in [Commands -> [force : BOOLEAN, dry : BOOLEAN]] :
    /\ \A c \in Commands : inputs[c] \in GivenTo[c]
    /\ Given(inputs, options)

CommandsTypeOK ==
  /\ \A c \in Commands : given[c] \in GivenTo[c]
  /\ flags \in [Commands -> [force : BOOLEAN, dry : BOOLEAN]]
  /\ phase \in [Commands -> {"idle", "checked", "writing", "renaming"} \cup Exits]
  /\ \A c \in Commands : next[c] \in 0..Len(Targets(c))
  /\ disk \in [Files -> Commands \cup {None}]
  /\ temps \cup disturbed \subseteq Commands /\ made \in BOOLEAN
  /\ \A c \in Commands : seen[c] \cup replaced[c] \subseteq Files

Turns(c, p) == phase' = [phase EXCEPT ![c] = p]
-----------------------------------------------------------------------------
(* The input is read and compiled, and the output looked for, without a     *)
(* pause in the command itself.                                             *)
Begin(c, inTheWay) ==
  /\ phase[c] = "idle"
  /\ Turns(c, CASE ~Compiles(c) -> "invalid"
                [] flags[c].dry -> "success"
                [] inTheWay /\ ~flags[c].force -> "refused"
                [] OTHER -> "checked")
  /\ seen' = [seen EXCEPT ![c] = {f \in Files : disk[f] # None}]
  /\ UNCHANGED <<given, flags, next, disk, temps, made, replaced, disturbed>>

(* A pack asks for room for its files, a bundle for a directory of its own. *)
BeginPack(c) ==
  given[c].kind = "pack" /\ Begin(c, \E f \in FilesOf(c) : disk[f] # None)
BeginComposition(c) == given[c].kind = "composition" /\ Begin(c, made)
BeginOrchestrator(c) == given[c].kind = "orchestrator" /\ Begin(c, made)

MakeDirectory(c) ==
  /\ phase[c] = "checked"
  /\ made' = TRUE
  /\ Turns(c, "writing")
  /\ UNCHANGED <<given, flags, next, disk, temps, seen, replaced, disturbed>>

(* writeUtf8Atomic: the temporary file has the process in its name.         *)
WriteBeside(c) ==
  /\ phase[c] = "writing" /\ next[c] < Len(Targets(c))
  /\ temps' = temps \cup {c}
  /\ Turns(c, "renaming")
  /\ UNCHANGED <<given, flags, next, disk, made, seen, replaced, disturbed>>

Rename(c) ==
  /\ phase[c] = "renaming"
  /\ LET f == Targets(c)[next[c] + 1] IN
       /\ replaced' = [replaced EXCEPT ![c] = IF disk[f] \in {None, c} THEN @ ELSE @ \cup {f}]
       /\ disturbed' = IF disk[f] \in {None, c} THEN disturbed ELSE disturbed \cup {disk[f]}
       /\ disk' = [disk EXCEPT ![f] = c]
  /\ temps' = temps \ {c}
  /\ next' = [next EXCEPT ![c] = @ + 1]
  /\ Turns(c, "writing")
  /\ UNCHANGED <<given, flags, made, seen>>

Finish(c) ==
  /\ phase[c] = "writing" /\ next[c] = Len(Targets(c))
  /\ Turns(c, "success")
  /\ UNCHANGED <<given, flags, next, disk, temps, made, seen, replaced, disturbed>>

(* A call of the file system fails, or the process is killed: what is       *)
(* written stays, beside its place too.                                     *)
Stop(c) ==
  /\ phase[c] \in {"checked", "writing", "renaming"}
  /\ Turns(c, "stopped")
  /\ UNCHANGED <<given, flags, next, disk, temps, made, seen, replaced, disturbed>>

CommandsNext ==
  \E c \in Commands :
    \/ BeginPack(c) \/ BeginComposition(c) \/ BeginOrchestrator(c)
    \/ MakeDirectory(c) \/ WriteBeside(c) \/ Rename(c) \/ Finish(c)
    \/ Stop(c)

CommandsSpec == CommandsInit /\ [][CommandsNext]_commandVars

-----------------------------------------------------------------------------
Final(c) ==
  CASE given[c].kind = "pack" -> "compile-report"
    [] given[c].kind = "composition" -> "slot-agent"
    [] OTHER -> "orchestrator"

(* The report of a pack, the orchestrator of a bundle: where it is, all of  *)
(* the compilation is, however the command ended, unless another has        *)
(* written over its files since.                                            *)
LastFileMeansWhole ==
  \A c \in Commands :
    disk[Final(c)] = c /\ c \notin disturbed => \A f \in FilesOf(c) : disk[f] = c

(* A command that reports success has written all or, dry, nothing.         *)
SuccessIsWhole ==
  \A c \in Commands :
    phase[c] = "success" =>
      IF flags[c].dry THEN \A f \in Files : disk[f] # c
      ELSE c \in disturbed \/ \A f \in FilesOf(c) : disk[f] = c

(* Unforced, a command replaces only what came after it looked.             *)
UnforcedKeepsWhatItSaw ==
  \A c \in Commands : ~flags[c].force => replaced[c] \cap seen[c] = {}

(* What is on disk was compiled from an input that passed.                  *)
OnlyCompiledIsWritten ==
  \A f \in Files : disk[f] # None => Compiles(disk[f]) /\ ~flags[disk[f]].dry

(* A file is left beside its place by a command that stopped only.          *)
NothingIsLeftBeside ==
  \A c \in temps : phase[c] \in {"renaming", "stopped"}

(* Whatever configuration a command is given, the compiler and its          *)
(* readiness preview hold to what PackConfigs says of them; looked at once, *)
(* before the command looks at the disk.                                    *)
ConfigsAreJudged ==
  \A c \in Commands : given[c].kind = "pack" /\ phase[c] = "idle" =>
    /\ PublishIsStricter(given[c].config)
    /\ \A mode \in {"preview", "publish"} :
         ReadinessFollowsCompiler(given[c].config, mode) /\ FailsClosed(given[c].config, mode)

(* However the compile commands run, fail or are killed over one another,   *)
(* the last file of a compilation stands for all of it, unforced commands   *)
(* replace nothing they saw, and only what passed its checks is written.    *)
CommandsWriteWhole ==
  /\ LastFileMeansWhole /\ SuccessIsWhole /\ UnforcedKeepsWhatItSaw
  /\ OnlyCompiledIsWritten /\ NothingIsLeftBeside /\ ConfigsAreJudged

=============================================================================
