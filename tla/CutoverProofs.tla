---------------------------- MODULE CutoverProofs ----------------------------
(***************************************************************************)
(* Proofs about Cutover, for any set of hooks and whichever faults happen. *)
(***************************************************************************)
EXTENDS Cutover, TLAPS

LEMMA Stages == Stage = {"baseline", "A", "B", "C", "D"}
<1>1. DOMAIN StageOrder = {1, 2, 3, 4, 5}
  BY DEF StageOrder
<1>2. /\ StageOrder[1] = "baseline" /\ StageOrder[2] = "A" /\ StageOrder[3] = "B"
      /\ StageOrder[4] = "C" /\ StageOrder[5] = "D"
  BY DEF StageOrder
<1>3. Stage = {StageOrder[i] : i \in DOMAIN StageOrder}
  BY DEF Stage, ToSet
<1>. QED
  BY <1>1, <1>2, <1>3

(***************************************************************************)
(* advance finds the stage after the one it is at.                         *)
(***************************************************************************)
LEMMA NextStage ==
    ASSUME NEW s \in Stage, IndexOf(s) # Len(StageOrder)
    PROVE  StageOrder[IndexOf(s) + 1] \in Stage
<1>1. DOMAIN StageOrder = 1..5 /\ Len(StageOrder) = 5
  BY DEF StageOrder
<1>2. Stage = {StageOrder[i] : i \in DOMAIN StageOrder}
  BY DEF Stage, ToSet
<1>3. \E i \in DOMAIN StageOrder : StageOrder[i] = s
  BY <1>2
<1>4. IndexOf(s) \in DOMAIN StageOrder
  BY <1>3 DEF IndexOf
<1>5. IndexOf(s) + 1 \in DOMAIN StageOrder
  BY <1>1, <1>4
<1>. QED
  BY <1>2, <1>5

(***************************************************************************)
(* The flags of a stage, of a rollback, and those in force.                *)
(***************************************************************************)
LEMMA OnlyTyped ==
    ASSUME NEW on
    PROVE  /\ Only(on) \in [Flag -> BOOLEAN]
           /\ \A f \in Flag : Only(on)[f] = (f \in on)
BY DEF Only

LEMMA FlagsOfStage ==
    ASSUME NEW s \in Stage
    PROVE  /\ StageFlags(s) \in Flags
           /\ StageFlags(s).mode = "legacy" => StageFlags(s).flag = Only({})
           /\ StageFlags(s).flag[Incremental] = TRUE => StageFlags(s).flag[Projections] = TRUE
           /\ \A f \in Flag : StageFlags(s).flag[f] \in BOOLEAN
<1>1. /\ Incremental \in Flag /\ Projections \in Flag
      /\ Incremental # Daemon /\ Incremental # ReverseIndex /\ Incremental # Projections
  BY DEF Flag, Daemon, Incremental, Projections, ReverseIndex
<1>2. CASE s = "baseline"
  <2>1. StageFlags(s) = [mode |-> "legacy", flag |-> Only({})]
    BY <1>2 DEF StageFlags
  <2>. QED
    BY <2>1, <1>1, OnlyTyped DEF Flags
<1>3. CASE s = "A"
  <2>1. StageFlags(s) = [mode |-> "daemon", flag |-> Only({Daemon, ReverseIndex})]
    BY <1>3 DEF StageFlags
  <2>. QED
    BY <2>1, <1>1, OnlyTyped DEF Flags
<1>4. CASE s = "B"
  <2>1. StageFlags(s) = [mode |-> "daemon", flag |-> Only({Daemon, ReverseIndex, Projections})]
    BY <1>4 DEF StageFlags
  <2>. QED
    BY <2>1, <1>1, OnlyTyped DEF Flags
<1>5. CASE s \in {"C", "D"}
  <2>1. StageFlags(s) = [mode |-> IF s = "C" THEN "shadow" ELSE "daemon", flag |-> Only(Flag)]
    BY <1>5 DEF StageFlags
  <2>. QED
    BY <2>1, <1>1, OnlyTyped DEF Flags
<1>. QED
  BY <1>2, <1>3, <1>4, <1>5, Stages

LEMMA FlagsOfRollback ==
    ASSUME NEW flags \in Flags, NEW level \in Level
    PROVE  /\ RolledBack(flags, level) \in Flags
           /\ RolledBack(flags, level).flag[Incremental] = FALSE
           /\ RolledBack(flags, level).mode \in {flags.mode, "legacy"}
           /\ \A f \in Flag : RolledBack(flags, level).flag[f] \in {flags.flag[f], FALSE}
           /\ level = "full" => \A f \in Flag : RolledBack(flags, level).flag[f] = FALSE
           /\ level # "full" => RolledBack(flags, level).mode = flags.mode
<1>1. Incremental \in Flag
  BY DEF Flag
<1>2. Incremental \in SwitchedOff(level) /\ (level = "full" => SwitchedOff(level) = Flag)
  BY <1>1 DEF SwitchedOff, Level
<1>3. /\ RolledBack(flags, level).mode = IF level = "full" THEN "legacy" ELSE flags.mode
      /\ RolledBack(flags, level).flag =
             [f \in Flag |-> IF f \in SwitchedOff(level) THEN FALSE ELSE flags.flag[f]]
      /\ RolledBack(flags, level) =
             [mode |-> RolledBack(flags, level).mode, flag |-> RolledBack(flags, level).flag]
  BY DEF RolledBack
<1>4. /\ flags.mode \in {"legacy", "daemon", "shadow", Unset}
      /\ flags.flag \in [Flag -> BOOLEAN \cup {Unset}]
  BY DEF Flags
<1>5. RolledBack(flags, level) \in Flags
  BY <1>3, <1>4 DEF Flags
<1>. QED
  BY <1>1, <1>2, <1>3, <1>5

-----------------------------------------------------------------------------
(***************************************************************************)
(* The inductive invariant.  The file in legacy mode sets every flag to    *)
(* FALSE; a file no hand wrote says nothing of the mode if it says nothing *)
(* of the daemon; a command on its way has something to do; and, if none   *)
(* is killed, the file is ahead of the stage only between the two writes.  *)
(***************************************************************************)
CommandHasTarget ==
    /\ pc # "idle" => cmd # "none"
    /\ pc \in {"write", "save"} => ~Nothing

LegacySetsAll == file.mode = "legacy" => \A f \in Flag : file.flag[f] = FALSE

UnsetTogether == "by hand" \notin faults /\ file.flag[Daemon] = Unset => file.mode = Unset

FileOfStage ==
    "kill" \notin faults =>
        IF pc = "save" THEN cmd \in Level \/ file = StageFlags(Target)
        ELSE stage # "baseline" => file = StageFlags(stage)

CutoverInv ==
    /\ TypeOK /\ CommandHasTarget
    /\ LegacySetsAll /\ UnsetTogether
    /\ CompilerHasProjections /\ FileOfStage

LEMMA ConfigOfFile ==
    ASSUME NEW flags \in Flags
    PROVE  Effective(flags) \in Config
<1>1. /\ flags.mode \in {"legacy", "daemon", "shadow", Unset}
      /\ flags.flag \in [Flag -> BOOLEAN \cup {Unset}]
  BY DEF Flags
<1>2. Effective(flags).mode \in {"legacy", "daemon", "shadow"}
  BY <1>1 DEF Effective
<1>3. Effective(flags).flag \in [Flag -> BOOLEAN]
  <2>1. ASSUME NEW f \in Flag
        PROVE  (IF flags.flag[f] # Unset THEN flags.flag[f]
                ELSE flags.mode \in {"daemon", "shadow"}) \in BOOLEAN
    <3>1. (flags.mode \in {"daemon", "shadow"}) \in BOOLEAN
      OBVIOUS
    <3>2. flags.flag[f] # Unset => flags.flag[f] \in BOOLEAN
      BY <1>1
    <3>. QED
      BY <3>1, <3>2
  <2>. QED
    BY <2>1 DEF Effective
<1>. QED
  BY <1>2, <1>3 DEF Effective, Config

LEMMA TargetIsStage ==
    ASSUME TypeOK, cmd # "none", ~Nothing
    PROVE  Target \in Stage
<1>1. CASE cmd = "advance"
  <2>1. IndexOf(stage) # Len(StageOrder)
    BY <1>1 DEF Nothing
  <2>2. Target = StageOrder[IndexOf(stage) + 1]
    BY <1>1 DEF Target, Level
  <2>. QED
    BY <2>1, <2>2, NextStage DEF TypeOK
<1>2. CASE cmd \in Level
  BY <1>2, Stages DEF Target, Level
<1>3. CASE cmd \in Stage
  BY <1>3, Stages DEF Target, Level
<1>. QED
  BY <1>1, <1>2, <1>3 DEF TypeOK

LEMMA CutoverInit == Init => CutoverInv
<1>. SUFFICES ASSUME Init PROVE CutoverInv
  OBVIOUS
<1>1. Daemon \in Flag /\ Incremental \in Flag /\ Projections \in Flag
  BY DEF Flag
<1>2. file \in Flags /\ file.mode \in {Unset, "daemon"} /\ \A f \in Flag : file.flag[f] = Unset
  BY DEF Init, NoFile, Flags
<1>3. None \in Config \cup {None} /\ None.flag[Incremental] = FALSE
  BY <1>1, OnlyTyped DEF None
<1>4. TypeOK
  BY <1>2, <1>3, Stages DEF Init, TypeOK
<1>5. Effective(file).flag[Incremental] = Effective(file).flag[Projections]
  BY <1>1, <1>2 DEF Effective
<1>6. CompilerHasProjections
  BY <1>3, <1>5 DEF Init, CompilerHasProjections
<1>7. LegacySetsAll /\ UnsetTogether
  BY <1>1, <1>2, CutoverAssumption DEF Init, LegacySetsAll, UnsetTogether, NoFile
<1>. QED
  BY <1>4, <1>6, <1>7 DEF Init, CutoverInv, CommandHasTarget, FileOfStage

(***************************************************************************)
(* A command that does not write the flags now, and returns only if it has *)
(* not written them or has saved the stage.                                *)
(***************************************************************************)
LEMMA BeginKeeps ==
    ASSUME CutoverInv, NEW c \in {"advance"} \cup Stage \cup Level, Begin(c)
    PROVE  CutoverInv'
<1>1. TypeOK'
  BY DEF CutoverInv, TypeOK, Begin, hooks
<1>2. CommandHasTarget'
  BY Stages DEF CutoverInv, CommandHasTarget, Begin, Level
<1>3. FileOfStage'
  BY DEF CutoverInv, FileOfStage, Begin
<1>4. LegacySetsAll' /\ UnsetTogether' /\ CompilerHasProjections'
  BY DEF CutoverInv, LegacySetsAll, UnsetTogether, CompilerHasProjections, Begin, hooks, Effective
<1>. QED
  BY <1>1, <1>2, <1>3, <1>4 DEF CutoverInv

LEMMA StopDaemonKeeps ==
    ASSUME CutoverInv, StopDaemon
    PROVE  CutoverInv'
<1>1. TypeOK'
  BY DEF CutoverInv, TypeOK, StopDaemon, hooks
<1>2. CommandHasTarget' /\ FileOfStage'
  BY DEF CutoverInv, CommandHasTarget, FileOfStage, StopDaemon
<1>3. LegacySetsAll' /\ UnsetTogether'
  BY DEF CutoverInv, LegacySetsAll, UnsetTogether, StopDaemon
<1>4. None.flag[Incremental] = FALSE
  BY OnlyTyped DEF None, Flag
<1>5. CompilerHasProjections'
  BY <1>4 DEF CutoverInv, CompilerHasProjections, StopDaemon, hooks, Effective
<1>. QED
  BY <1>1, <1>2, <1>3, <1>5 DEF CutoverInv

LEMMA LoadKeeps ==
    ASSUME CutoverInv, Load
    PROVE  CutoverInv'
<1>1. TypeOK'
  BY DEF CutoverInv, TypeOK, Load, Return, hooks
<1>2. CommandHasTarget'
  BY DEF CutoverInv, CommandHasTarget, Load, Return, Nothing
<1>3. FileOfStage'
  BY DEF CutoverInv, FileOfStage, Load, Return
<1>4. LegacySetsAll' /\ UnsetTogether' /\ CompilerHasProjections'
  BY DEF CutoverInv, LegacySetsAll, UnsetTogether, CompilerHasProjections, Load, hooks, Effective
<1>. QED
  BY <1>1, <1>2, <1>3, <1>4 DEF CutoverInv

LEMMA DieKeeps ==
    ASSUME CutoverInv, Die
    PROVE  CutoverInv'
<1>1. TypeOK'
  BY DEF CutoverInv, TypeOK, Die, Return, hooks
<1>2. CommandHasTarget' /\ FileOfStage'
  BY DEF CutoverInv, CommandHasTarget, FileOfStage, Die, Return
<1>3. LegacySetsAll' /\ UnsetTogether' /\ CompilerHasProjections'
  BY DEF CutoverInv, LegacySetsAll, UnsetTogether, CompilerHasProjections, Die, hooks, Effective
<1>. QED
  BY <1>1, <1>2, <1>3 DEF CutoverInv

(***************************************************************************)
(* The two writes.                                                         *)
(***************************************************************************)
LEMMA WriteFlagsKeeps ==
    ASSUME CutoverInv, WriteFlags
    PROVE  CutoverInv'
<1>1. /\ Target \in Stage /\ Target' = Target /\ Nothing' = Nothing
      /\ pc = "write" /\ pc' = "save" /\ ~Nothing /\ cmd # "none"
      /\ UNCHANGED <<stage, cmd, daemon, via, under, faults>>
  BY TargetIsStage DEF CutoverInv, CommandHasTarget, WriteFlags, Target, Nothing, hooks
<1>2. Daemon \in Flag /\ Incremental \in Flag /\ Projections \in Flag
  BY DEF Flag
<1>3. CASE cmd \in Level
  <2>1. /\ file' \in Flags /\ file'.flag[Incremental] = FALSE
        /\ file'.mode \in {file.mode, "legacy"}
        /\ \A f \in Flag : file'.flag[f] \in {file.flag[f], FALSE}
        /\ cmd = "full" => \A f \in Flag : file'.flag[f] = FALSE
        /\ cmd # "full" => file'.mode = file.mode
    BY <1>3, FlagsOfRollback DEF CutoverInv, TypeOK, WriteFlags
  <2>2. TypeOK'
    BY <1>1, <2>1 DEF CutoverInv, TypeOK
  <2>3. LegacySetsAll'
    BY <2>1 DEF CutoverInv, LegacySetsAll
  <2>4. UnsetTogether'
    BY <1>1, <1>2, <2>1, CutoverAssumption DEF CutoverInv, UnsetTogether
  <2>5. Effective(file').flag[Incremental] = FALSE
    BY <1>2, <2>1, CutoverAssumption DEF Effective
  <2>6. CompilerHasProjections'
    BY <1>1, <2>5 DEF CutoverInv, CompilerHasProjections, Effective
  <2>. QED
    BY <1>1, <1>3, <2>2, <2>3, <2>4, <2>6
       DEF CutoverInv, CommandHasTarget, FileOfStage
<1>4. CASE cmd \notin Level
  <2>1. file' = StageFlags(Target)
    BY <1>4 DEF WriteFlags
  <2>2. /\ file' \in Flags
        /\ file'.mode = "legacy" => file'.flag = Only({})
        /\ file'.flag[Incremental] = TRUE => file'.flag[Projections] = TRUE
        /\ \A f \in Flag : file'.flag[f] \in BOOLEAN
    BY <1>1, <2>1, FlagsOfStage
  <2>3. TypeOK'
    BY <1>1, <2>2 DEF CutoverInv, TypeOK
  <2>4. LegacySetsAll'
    BY <2>2, OnlyTyped DEF LegacySetsAll
  <2>5. UnsetTogether'
    BY <1>2, <2>2, CutoverAssumption DEF UnsetTogether
  <2>6. \A f \in Flag : Effective(file').flag[f] = file'.flag[f]
    BY <2>2, CutoverAssumption DEF Effective
  <2>7. Effective(file').flag[Incremental] => Effective(file').flag[Projections]
    BY <1>2, <2>2, <2>6
  <2>8. CompilerHasProjections'
    BY <1>1, <2>7 DEF CutoverInv, CompilerHasProjections, Effective
  <2>9. FileOfStage'
    BY <1>1, <2>1 DEF FileOfStage
  <2>. QED
    BY <1>1, <2>3, <2>4, <2>5, <2>8, <2>9 DEF CutoverInv, CommandHasTarget
<1>. QED
  BY <1>3, <1>4

LEMMA SaveStateKeeps ==
    ASSUME CutoverInv, SaveState
    PROVE  CutoverInv'
<1>1. /\ Target \in Stage /\ pc = "save"
      /\ stage' = Target /\ pc' = "idle" /\ cmd' = "none"
      /\ UNCHANGED <<file, daemon, via, under, faults>>
  BY TargetIsStage DEF CutoverInv, CommandHasTarget, SaveState, Return, hooks
<1>2. TypeOK' /\ CommandHasTarget'
  BY <1>1 DEF CutoverInv, TypeOK, CommandHasTarget
<1>3. cmd \in Level => Target = "baseline"
  BY Stages DEF Target, Level
<1>4. FileOfStage'
  BY <1>1, <1>3 DEF CutoverInv, FileOfStage
<1>5. LegacySetsAll' /\ UnsetTogether' /\ CompilerHasProjections'
  BY <1>1 DEF CutoverInv, LegacySetsAll, UnsetTogether, CompilerHasProjections, Effective
<1>. QED
  BY <1>2, <1>4, <1>5 DEF CutoverInv

(***************************************************************************)
(* The hooks and the daemon: they change no file, and what they run under  *)
(* is none, what the daemon has, or what the file gives.                   *)
(***************************************************************************)
LEMMA ReadersKeep ==
    ASSUME CutoverInv, UNCHANGED <<file, stage, command, faults>>,
           daemon' \in {None, daemon, Effective(file)},
           via' \in [Hook -> {"idle", "daemon", "inline"}],
           \/ UNCHANGED under
           \/ \E h \in Hook, c \in {None, daemon, Effective(file)} :
                  under' = [under EXCEPT ![h] = c]
    PROVE  CutoverInv'
<1>1. Effective(file) \in Config
  BY ConfigOfFile DEF CutoverInv, TypeOK
<1>2. UNCHANGED <<file, stage, cmd, pc, faults>>
  BY DEF command
<1>3. daemon' \in Config \cup {None} /\ under' \in [Hook -> Config \cup {None}]
  BY <1>1 DEF CutoverInv, TypeOK
<1>4. TypeOK'
  BY <1>2, <1>3 DEF CutoverInv, TypeOK
<1>5. CommandHasTarget' /\ FileOfStage'
  BY <1>2 DEF CutoverInv, CommandHasTarget, FileOfStage, Nothing, Target
<1>6. LegacySetsAll' /\ UnsetTogether'
  BY <1>2 DEF CutoverInv, LegacySetsAll, UnsetTogether
<1>7. None.flag[Incremental] = FALSE
  BY OnlyTyped DEF None, Flag
<1>8. \A h \in Hook : under'[h] \in {under[h], None, daemon, Effective(file)}
  BY DEF CutoverInv, TypeOK
<1>9. CompilerHasProjections'
  BY <1>2, <1>7, <1>8 DEF CutoverInv, CompilerHasProjections, Effective
<1>. QED
  BY <1>4, <1>5, <1>6, <1>9 DEF CutoverInv

LEMMA HooksKeep ==
    ASSUME CutoverInv, NEW h \in Hook,
           Decide(h) \/ RunInline(h) \/ SpawnDaemon(h) \/ RunInDaemon(h) \/ EndHook(h)
    PROVE  CutoverInv'
<1>1. via \in [Hook -> {"idle", "daemon", "inline"}]
  BY DEF CutoverInv, TypeOK
<1>2. CASE Decide(h)
  <2>1. UNCHANGED <<file, stage, command, daemon, under, faults>>
    BY <1>2 DEF Decide
  <2>2. via' \in [Hook -> {"idle", "daemon", "inline"}]
    BY <1>1, <1>2 DEF Decide
  <2>. QED
    BY <2>1, <2>2, ReadersKeep
<1>3. CASE RunInline(h)
  BY <1>1, <1>3, ReadersKeep DEF RunInline
<1>4. CASE SpawnDaemon(h)
  BY <1>1, <1>4, ReadersKeep DEF SpawnDaemon, hooks
<1>5. CASE RunInDaemon(h)
  BY <1>1, <1>5, ReadersKeep DEF RunInDaemon
<1>6. CASE EndHook(h)
  <2>1. UNCHANGED <<file, stage, command, daemon, faults>> /\ under' = [under EXCEPT ![h] = None]
    BY <1>6 DEF EndHook
  <2>2. via' \in [Hook -> {"idle", "daemon", "inline"}]
    BY <1>1, <1>6 DEF EndHook
  <2>. QED
    BY <2>1, <2>2, ReadersKeep
<1>. QED
  BY <1>2, <1>3, <1>4, <1>5, <1>6

LEMMA CutoverStep == CutoverInv /\ [Next]_vars => CutoverInv'
<1>. SUFFICES ASSUME CutoverInv, [Next]_vars PROVE CutoverInv'
  OBVIOUS
<1>1. via \in [Hook -> {"idle", "daemon", "inline"}]
  BY DEF CutoverInv, TypeOK
<1>2. CASE UNCHANGED vars
  BY <1>1, <1>2, ReadersKeep DEF vars, hooks
<1>3. CASE DaemonExits
  BY <1>1, <1>3, ReadersKeep DEF DaemonExits, hooks
<1>4. CASE Next /\ ~DaemonExits
  BY <1>4, BeginKeeps, StopDaemonKeeps, LoadKeeps, WriteFlagsKeeps, SaveStateKeeps, DieKeeps,
     HooksKeep DEF Next
<1>. QED
  BY <1>2, <1>3, <1>4

LEMMA CutoverInvariant == Spec => []CutoverInv
BY CutoverInit, CutoverStep, PTL DEF Spec

-----------------------------------------------------------------------------
(***************************************************************************)
(* Every file, command and config the cutover can reach is well formed: a  *)
(* command always has a stage to go to.                                    *)
(***************************************************************************)
THEOREM CutoverTypeCorrect == Spec => []TypeOK
<1>1. CutoverInv => TypeOK
  BY DEF CutoverInv
<1>. QED
  BY <1>1, CutoverInvariant, PTL

(***************************************************************************)
(* The incremental compiler never runs without the projection tables,      *)
(* wherever commands are killed, for any number of hooks and with a daemon *)
(* that has outlived the flags it read.                                    *)
(***************************************************************************)
THEOREM CompilerIsCovered == Spec => []CompilerHasProjections
<1>1. CutoverInv => CompilerHasProjections
  BY DEF CutoverInv
<1>. QED
  BY <1>1, CutoverInvariant, PTL

(***************************************************************************)
(* A flags file in legacy mode leaves nothing on.                          *)
(***************************************************************************)
THEOREM LegacyLeavesNothingOn == Spec => []LegacyIsOff
<1>1. CutoverInv => LegacyIsOff
  <2>. SUFFICES ASSUME CutoverInv, file.mode = "legacy" PROVE file.flag = Only({})
    BY DEF LegacyIsOff
  <2>1. file.flag \in [Flag -> BOOLEAN \cup {Unset}]
    BY DEF CutoverInv, TypeOK, Flags
  <2>2. \A f \in Flag : file.flag[f] = Only({})[f]
    <3>1. ASSUME NEW f \in Flag PROVE Only({})[f] = FALSE
      <4>1. Only({})[f] \in BOOLEAN
        BY OnlyTyped
      <4>2. ~Only({})[f]
        BY OnlyTyped
      <4>. QED
        BY <4>1, <4>2
    <3>. QED
      BY <3>1 DEF CutoverInv, LegacySetsAll
  <2>. QED
    BY <2>1, <2>2, OnlyTyped
<1>. QED
  BY <1>1, CutoverInvariant, PTL

(***************************************************************************)
(* Unless a command was killed, the flags are those of the recorded stage  *)
(* whenever none is on its way, if the stage is one beyond baseline.       *)
(***************************************************************************)
THEOREM RecordedStageIsInForce == Spec => []StageIsInForce
<1>1. CutoverInv => StageIsInForce
  BY DEF CutoverInv, FileOfStage, StageIsInForce
<1>. QED
  BY <1>1, CutoverInvariant, PTL

(***************************************************************************)
(* Client and handlers agree on the daemon, although one reads the file    *)
(* alone and the other the mode matrix too, if no hand wrote the mode.     *)
(***************************************************************************)
THEOREM ClientFollowsConfig == Spec => ClientAgrees
<1>1. ASSUME CutoverInv, [Next]_vars, NEW h \in Hook,
             "by hand" \notin faults, via[h] = "idle", via'[h] # "idle"
      PROVE  via'[h] = "daemon" <=> Effective(file).flag[Daemon]
  <2>1. via'[h] = IF DaemonEnabled(file) THEN "daemon" ELSE "inline"
    BY <1>1 DEF CutoverInv, TypeOK, Next, vars, hooks, Begin, StopDaemon, Load, Return,
       WriteFlags, SaveState, Die, Decide, RunInline, SpawnDaemon, RunInDaemon, EndHook, DaemonExits
  <2>2. /\ Daemon \in Flag /\ file.flag[Daemon] \in BOOLEAN \cup {Unset}
        /\ file.flag[Daemon] = Unset => file.mode = Unset
    BY <1>1 DEF CutoverInv, TypeOK, Flags, Flag, UnsetTogether
  <2>3. Effective(file).flag[Daemon] <=> file.flag[Daemon] = TRUE
    BY <2>2, CutoverAssumption DEF Effective
  <2>. QED
    BY <2>1, <2>3 DEF DaemonEnabled
<1>2. CutoverInv /\ [Next]_vars =>
        \A h \in Hook :
          "by hand" \notin faults /\ via[h] = "idle" /\ via'[h] # "idle" =>
              (via'[h] = "daemon" <=> Effective(file).flag[Daemon])
  BY <1>1
<1>. QED
  BY <1>2, CutoverInvariant, PTL DEF Spec, ClientAgrees

-----------------------------------------------------------------------------
(***************************************************************************)
(* Two rollbacks come to one: that of the deeper level.                    *)
(***************************************************************************)
Deeper(k, l) ==
    CASE "full" \in {k, l} -> "full"
      [] "full" \notin {k, l} /\ "medium" \in {k, l} -> "medium"
      [] OTHER -> "minimal"

LEMMA DeeperSwitchesBothOff ==
    ASSUME NEW k \in Level, NEW l \in Level
    PROVE  /\ Deeper(k, l) \in Level
           /\ Deeper(k, l) = "full" <=> k = "full" \/ l = "full"
           /\ \A f \in Flag : f \in SwitchedOff(Deeper(k, l)) <=>
                                f \in SwitchedOff(k) \/ f \in SwitchedOff(l)
<1>1. Incremental \in Flag /\ Projections \in Flag
  BY DEF Flag
<1>2. CASE "full" \in {k, l}
  BY <1>1, <1>2 DEF Deeper, Level, SwitchedOff
<1>3. CASE "full" \notin {k, l} /\ "medium" \in {k, l}
  BY <1>1, <1>3 DEF Deeper, Level, SwitchedOff
<1>4. CASE "full" \notin {k, l} /\ "medium" \notin {k, l}
  BY <1>1, <1>4 DEF Deeper, Level, SwitchedOff
<1>. QED
  BY <1>2, <1>3, <1>4

LEMMA RollbackTwice ==
    ASSUME NEW flags \in Flags, NEW k \in Level, NEW l \in Level
    PROVE  RolledBack(RolledBack(flags, k), l) = RolledBack(flags, Deeper(k, l))
<1>. DEFINE m == Deeper(k, l)
            once == RolledBack(flags, k)
<1>1. once.mode = IF k = "full" THEN "legacy" ELSE flags.mode
  BY DEF RolledBack
<1>2. \A f \in Flag : once.flag[f] = IF f \in SwitchedOff(k) THEN FALSE ELSE flags.flag[f]
  BY DEF RolledBack
<1>3. /\ m = "full" <=> k = "full" \/ l = "full"
      /\ \A f \in Flag : f \in SwitchedOff(m) <=> f \in SwitchedOff(k) \/ f \in SwitchedOff(l)
  BY DeeperSwitchesBothOff
<1>. HIDE DEF m, once
<1>4. (IF l = "full" THEN "legacy" ELSE once.mode) = IF m = "full" THEN "legacy" ELSE flags.mode
  BY <1>1, <1>3
<1>5. [f \in Flag |-> IF f \in SwitchedOff(l) THEN FALSE ELSE once.flag[f]] =
          [f \in Flag |-> IF f \in SwitchedOff(m) THEN FALSE ELSE flags.flag[f]]
  <2>1. \A f \in Flag : (IF f \in SwitchedOff(l) THEN FALSE ELSE once.flag[f]) =
                           (IF f \in SwitchedOff(m) THEN FALSE ELSE flags.flag[f])
    BY <1>2, <1>3
  <2>. QED
    BY <2>1
<1>6. RolledBack(once, l) = RolledBack(flags, m)
  BY <1>4, <1>5 DEF RolledBack
<1>. QED
  BY <1>6 DEF m, once

LEMMA OriginTyped == Origin \subseteq Flags
<1>1. NoFile \in Flags /\ [NoFile EXCEPT !.mode = "daemon"] \in Flags
  BY DEF NoFile, Flags
<1>. QED
  BY <1>1, FlagsOfStage DEF Origin

(***************************************************************************)
(* Theorem.  However commands are repeated, ordered and killed, the flags  *)
(* are those of one stage, or what one rollback leaves of them.            *)
(***************************************************************************)
THEOREM FlagsStayOfOneStage == Spec => []FlagsAreOfOneStage
<1>1. Init => FlagsAreOfOneStage
  <2>1. Init => file \in {NoFile, [NoFile EXCEPT !.mode = "daemon"]}
    BY Zenon DEF Init
  <2>2. {NoFile, [NoFile EXCEPT !.mode = "daemon"]} \subseteq Origin
    BY Zenon DEF Origin
  <2>3. file \in Origin => FlagsAreOfOneStage
    BY DEF FlagsAreOfOneStage
  <2>. QED
    BY <2>1, <2>2, <2>3, Zenon
<1>2. CutoverInv /\ FlagsAreOfOneStage /\ [Next]_vars => FlagsAreOfOneStage'
  <2>. SUFFICES ASSUME CutoverInv, FlagsAreOfOneStage, [Next]_vars
                PROVE  file' \in Origin \cup {RolledBack(g, l) : g \in Origin, l \in Level}
    BY DEF FlagsAreOfOneStage
  <2>1. CASE WriteFlags /\ cmd \notin Level
    <3>1. Target \in Stage
      BY <2>1, TargetIsStage DEF CutoverInv, CommandHasTarget, WriteFlags
    <3>. QED
      BY <2>1, <3>1 DEF WriteFlags, Origin
  <2>2. CASE WriteFlags /\ cmd \in Level
    <3>1. file' = RolledBack(file, cmd)
      BY <2>2 DEF WriteFlags
    <3>2. CASE file \in Origin
      BY <2>2, <3>1, <3>2
    <3>3. ASSUME NEW g \in Origin, NEW l \in Level, file = RolledBack(g, l)
          PROVE  \E k \in Level : file' = RolledBack(g, k)
      BY <2>2, <3>1, <3>3, RollbackTwice, OriginTyped, DeeperSwitchesBothOff
    <3>. QED
      BY <3>2, <3>3 DEF FlagsAreOfOneStage
  <2>3. CASE UNCHANGED file
    BY <2>3 DEF FlagsAreOfOneStage
  <2>. QED
    BY <2>1, <2>2, <2>3
       DEF Next, vars, Begin, StopDaemon, Load, SaveState, Die, Decide, RunInline, SpawnDaemon,
           RunInDaemon, EndHook, DaemonExits
<1>. QED
  BY <1>1, <1>2, CutoverInvariant, PTL DEF Spec
=============================================================================
