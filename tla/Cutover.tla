------------------------------- MODULE Cutover -------------------------------
(***************************************************************************)
(* The staged cutover: runtime_flags.json, cutover_state.json, the         *)
(* commands that write both, and the hooks and the daemon that read flags. *)
(*                                                                         *)
(* A person runs the command, one at a time.  A command reads both files, *)
(* writes the flags, then the stage; each file is replaced atomically, the *)
(* two are not.  A hook process asks the flags file whether to use the     *)
(* daemon; the hook then runs under the config loaded at that moment, or   *)
(* under the one the daemon loaded when it booted.                         *)
(***************************************************************************)
EXTENDS Integers, Sequences, SequencesExt

CONSTANTS
    Hook,         \* hook processes
    Faults,       \* what may happen: a command is killed ("kill"), or the flags
                  \* file is one written by hand, with runtime_mode alone ("by hand")
    Unset

ASSUME CutoverAssumption ==
    /\ Faults \subseteq {"kill", "by hand"}
    /\ Unset \notin BOOLEAN /\ Unset \notin {"legacy", "daemon", "shadow", "none"}

Daemon == "enable_daemon"
Incremental == "enable_incremental_compile"
Projections == "enable_projection_tables"
ReverseIndex == "enable_reverse_index"
Flag == {Daemon, Incremental, Projections, ReverseIndex}

Only(on) == [f \in Flag |-> f \in on]

StageOrder == <<"baseline", "A", "B", "C", "D">>
Stage == ToSet(StageOrder)

StageFlagsByMode(s) ==    \* mutant: the daemon flag is left to the mode
    LET on == CASE s = "baseline" -> {}
                [] s = "A" -> {ReverseIndex}
                [] s = "B" -> {ReverseIndex, Projections}
                [] OTHER -> Flag
    IN  [mode |-> CASE s = "baseline" -> "legacy" [] s = "C" -> "shadow" [] OTHER -> "daemon",
         flag |-> [f \in Flag |-> IF f = Daemon THEN Unset ELSE f \in on]]

StageFlags(s) ==
    [mode |-> CASE s = "baseline" -> "legacy" [] s = "C" -> "shadow" [] OTHER -> "daemon",
     flag |-> CASE s = "baseline" -> Only({})
                [] s = "A" -> Only({Daemon, ReverseIndex})
                [] s = "B" -> Only({Daemon, ReverseIndex, Projections})
                [] OTHER -> Only(Flag)]

Level == {"minimal", "medium", "full"}

(***************************************************************************)
(* What a rollback leaves of the flags it has read.                        *)
(***************************************************************************)
SwitchedOff(level) ==
    CASE level = "minimal" -> {Incremental}
      [] level = "medium" -> {Incremental, Projections}
      [] level = "full" -> Flag

RolledBackProjections(flags, level) ==    \* mutant: medium leaves the compiler on
    [mode |-> IF level = "full" THEN "legacy" ELSE flags.mode,
     flag |-> [f \in Flag |->
                  IF f \in SwitchedOff(level) /\ ~(level = "medium" /\ f = Incremental)
                  THEN FALSE ELSE flags.flag[f]]]

RolledBack(flags, level) ==
    [mode |-> IF level = "full" THEN "legacy" ELSE flags.mode,
     flag |-> [f \in Flag |-> IF f \in SwitchedOff(level) THEN FALSE ELSE flags.flag[f]]]

(***************************************************************************)
(* apply_overrides: what the file sets, else what its mode sets.           *)
(***************************************************************************)
Effective(flags) ==
    [mode |-> IF flags.mode = Unset THEN "legacy" ELSE flags.mode,
     flag |-> [f \in Flag |-> IF flags.flag[f] # Unset THEN flags.flag[f]
                              ELSE flags.mode \in {"daemon", "shadow"}]]

(***************************************************************************)
(* _is_daemon_enabled: what the file sets, else no.                        *)
(***************************************************************************)
DaemonEnabled(flags) == flags.flag[Daemon] = TRUE

VARIABLES
    file,     \* the flags in runtime_flags.json; all unset when it is not there
    stage,    \* current_stage in cutover_state.json
    cmd, pc,  \* the command that runs, "advance", a stage to set or a level; its next step
    daemon,   \* the config of the running daemon, or none
    via,      \* via[h]: "idle", or how h runs: in the "daemon" or "inline"
    under,    \* under[h]: the config the hook runs under, or none
    faults    \* what happens in this history

command == <<cmd, pc>>
hooks == <<via, under>>
vars == <<file, stage, command, daemon, hooks, faults>>

None == [mode |-> "none", flag |-> Only({})]
NoFile == [mode |-> Unset, flag |-> [f \in Flag |-> Unset]]
Flags == [mode : {"legacy", "daemon", "shadow", Unset}, flag : [Flag -> BOOLEAN \cup {Unset}]]
Config == [mode : {"legacy", "daemon", "shadow"}, flag : [Flag -> BOOLEAN]]

Init ==
    /\ faults \in SUBSET Faults
    /\ file = IF "by hand" \in faults THEN [NoFile EXCEPT !.mode = "daemon"] ELSE NoFile
    /\ stage = "baseline"
    /\ cmd = "none"
    /\ pc = "idle"
    /\ daemon = None
    /\ via = [h \in Hook |-> "idle"]
    /\ under = [h \in Hook |-> None]

-----------------------------------------------------------------------------
Return ==
    /\ pc' = "idle"
    /\ cmd' = "none"

(***************************************************************************)
(* A command; a rollback first asks the daemon to stop.                    *)
(***************************************************************************)
Begin(c) ==
    /\ pc = "idle"
    /\ cmd' = c
    /\ pc' = IF c \in Level THEN "stop" ELSE "load"
    /\ UNCHANGED <<faults, file, stage, daemon, hooks>>

StopDaemon ==
    /\ pc = "stop"
    /\ daemon' \in {None, daemon}
    /\ pc' = "load"
    /\ UNCHANGED <<faults, file, stage, cmd, hooks>>

(***************************************************************************)
(* advance fails at the last stage, set_stage is done at the stage it is   *)
(* to set.                                                                 *)
(***************************************************************************)
IndexOf(s) == CHOOSE i \in DOMAIN StageOrder : StageOrder[i] = s

Nothing == cmd = stage \/ (cmd = "advance" /\ IndexOf(stage) = Len(StageOrder))

Load ==
    /\ pc = "load"
    /\ IF Nothing THEN Return ELSE pc' = "write" /\ UNCHANGED cmd
    /\ UNCHANGED <<faults, file, stage, daemon, hooks>>

Target ==
    CASE cmd = "advance" -> StageOrder[IndexOf(stage) + 1]
      [] cmd \in Level -> "baseline"
      [] OTHER -> cmd

WriteFlags ==
    /\ pc = "write"
    /\ file' = IF cmd \in Level THEN RolledBack(file, cmd) ELSE StageFlags(Target)
    /\ pc' = "save"
    /\ UNCHANGED <<faults, stage, cmd, daemon, hooks>>

SaveReached ==    \* mutant: a partial rollback keeps the stage
    /\ pc = "save"
    /\ stage' = IF cmd \in {"minimal", "medium"} THEN stage ELSE Target
    /\ Return
    /\ UNCHANGED <<faults, file, daemon, hooks>>

SaveState ==
    /\ pc = "save"
    /\ stage' = Target
    /\ Return
    /\ UNCHANGED <<faults, file, daemon, hooks>>

Die ==
    /\ "kill" \in faults /\ pc # "idle"
    /\ Return
    /\ UNCHANGED <<faults, file, stage, daemon, hooks>>

-----------------------------------------------------------------------------
(***************************************************************************)
(* A hook process starts and decides how to run.                           *)
(***************************************************************************)
Decide(h) ==
    /\ via[h] = "idle"
    /\ via' = [via EXCEPT ![h] = IF DaemonEnabled(file) THEN "daemon" ELSE "inline"]
    /\ UNCHANGED <<faults, file, stage, command, daemon, under>>

(***************************************************************************)
(* The hook runs in its own process, by choice or because it does not      *)
(* reach the daemon.                                                       *)
(***************************************************************************)
RunInlineRaw(h) ==    \* mutant: the mode matrix is not applied
    /\ via[h] # "idle" /\ under[h] = None
    /\ under' = [under EXCEPT ![h] = file]
    /\ UNCHANGED <<faults, file, stage, command, daemon, via>>

RunInline(h) ==
    /\ via[h] # "idle" /\ under[h] = None
    /\ under' = [under EXCEPT ![h] = Effective(file)]
    /\ UNCHANGED <<faults, file, stage, command, daemon, via>>

SpawnDaemon(h) ==
    /\ via[h] = "daemon" /\ under[h] = None
    /\ daemon = None
    /\ daemon' = Effective(file)
    /\ UNCHANGED <<faults, file, stage, command, hooks>>

RunInDaemon(h) ==
    /\ via[h] = "daemon" /\ under[h] = None
    /\ daemon # None
    /\ under' = [under EXCEPT ![h] = daemon]
    /\ UNCHANGED <<faults, file, stage, command, daemon, via>>

EndHook(h) ==
    /\ under[h] # None
    /\ under' = [under EXCEPT ![h] = None]
    /\ via' = [via EXCEPT ![h] = "idle"]
    /\ UNCHANGED <<faults, file, stage, command, daemon>>

DaemonExits ==
    /\ daemon # None
    /\ daemon' = None
    /\ UNCHANGED <<faults, file, stage, command, hooks>>

Next ==
    \/ \E c \in {"advance"} \cup Stage \cup Level : Begin(c)
    \/ StopDaemon \/ Load \/ WriteFlags \/ SaveState \/ Die
    \/ \E h \in Hook :
          Decide(h) \/ RunInline(h) \/ SpawnDaemon(h) \/ RunInDaemon(h) \/ EndHook(h)
    \/ DaemonExits

Spec == Init /\ [][Next]_vars

-----------------------------------------------------------------------------
(***************************************************************************)
(* Files, commands and the configs in force have their types.              *)
(***************************************************************************)
TypeOK ==
    /\ file \in Flags
    /\ stage \in Stage
    /\ cmd \in {"none", "advance"} \cup Stage \cup Level
    /\ pc \in {"idle", "stop", "load", "write", "save"}
    /\ daemon \in Config \cup {None}
    /\ via \in [Hook -> {"idle", "daemon", "inline"}]
    /\ under \in [Hook -> Config \cup {None}]
    /\ faults \subseteq Faults

(***************************************************************************)
(* In legacy mode nothing new is on, wherever commands died.               *)
(***************************************************************************)
LegacyIsOff == file.mode = "legacy" => file.flag = Only({})

(***************************************************************************)
(* The incremental compiler is never on without the projection tables it   *)
(* reads: in the file, in the daemon, in a hook.                           *)
(***************************************************************************)
CompilerHasProjections ==
    \A c \in {Effective(file), daemon} \cup {under[h] : h \in Hook} :
        c.flag[Incremental] => c.flag[Projections]

(***************************************************************************)
(* Between commands, none of which was killed, the flags in force are      *)
(* those of the stage, if it is one beyond baseline.                       *)
(***************************************************************************)
StageIsInForce ==
    "kill" \notin faults /\ pc = "idle" /\ stage # "baseline" => file = StageFlags(stage)

(***************************************************************************)
(* Commands never mix: whatever was rolled back, how often and in what     *)
(* order, and wherever commands died, the flags are those of one stage (or *)
(* of a file from before any command) or what one rollback leaves of them. *)
(***************************************************************************)
Origin == {NoFile, [NoFile EXCEPT !.mode = "daemon"]} \cup {StageFlags(s) : s \in Stage}

FlagsAreOfOneStage ==
    file \in Origin \cup {RolledBack(g, level) : g \in Origin, level \in Level}

(***************************************************************************)
(* A hook goes to the daemon when the config that hooks run under has one, *)
(* unless the mode was written by hand.                                    *)
(***************************************************************************)
ClientAgrees ==
    [][\A h \in Hook :
          "by hand" \notin faults /\ via[h] = "idle" /\ via'[h] # "idle" =>
              (via'[h] = "daemon" <=> Effective(file).flag[Daemon])]_vars
=============================================================================
