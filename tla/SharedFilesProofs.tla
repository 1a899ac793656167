------------------------- MODULE SharedFilesProofs -------------------------
(***************************************************************************)
(* Proofs about SecureFile and SharedFiles, for any files, processes,      *)
(* contents, models and bounds.                                            *)
(***************************************************************************)
EXTENDS SharedFiles, TriggerProofs, ArtifactsProofs, HookBlockProofs

FInv == FileTypeOK /\ FileInv

-----------------------------------------------------------------------------
(* SecureFile by itself. *)

LEMMA FileInitInv == FileInit => FInv
BY FileConstants DEF FileInit, FInv, FileTypeOK, FileInv, OpIdle, Actors

LEMMA ReplaceStep ==
  ASSUME FInv, NEW p \in Procs, NEW f \in Files, NEW v \in Values,
         ReplaceTemp(p, f, v)
  PROVE  FInv'
BY FileConstants
   DEF FInv, FileTypeOK, FileInv, Actors, ReplaceTemp, Begin

LEMMA ReplaceCommitStep ==
  ASSUME FInv, NEW p \in Procs, ReplaceCommit(p)
  PROVE  FInv'
BY FileConstants
   DEF FInv, FileTypeOK, FileInv, Actors, ReplaceCommit, Put, End, OpIdle

LEMMA CreateStep ==
  ASSUME FInv, NEW p \in Procs, NEW f \in Files, NEW v \in Values,
         Create(p, f, v)
  PROVE  FInv'
BY FileConstants
   DEF FInv, FileTypeOK, FileInv, Actors, Create, Begin, Put

LEMMA CreateWriteStep ==
  ASSUME FInv, NEW p \in Procs, CreateWrite(p)
  PROVE  FInv'
BY FileConstants
   DEF FInv, FileTypeOK, FileInv, Actors, CreateWrite, Put, End, OpIdle

LEMMA RemoveReadStep ==
  ASSUME FInv, NEW f \in Files, RemoveRead(f)
  PROVE  FInv'
BY FileConstants
   DEF FInv, FileTypeOK, FileInv, Actors, RemoveRead, Begin

LEMMA RemoveUnlinkStep ==
  ASSUME FInv, RemoveUnlink
  PROVE  FInv'
BY FileConstants
   DEF FInv, FileTypeOK, FileInv, Actors, RemoveUnlink, Put, End, OpIdle

LEMMA DieStep ==
  ASSUME FInv, NEW p \in Actors, Die(p)
  PROVE  FInv'
BY FileConstants
   DEF FInv, FileTypeOK, FileInv, Actors, Die, End, OpIdle

LEMMA FileInvStep == FInv /\ [FileNext]_fvars => FInv'
<1> SUFFICES ASSUME FInv, [FileNext]_fvars PROVE FInv'
  OBVIOUS
<1>1. ASSUME NEW p \in Procs, NEW f \in Files, NEW v \in Values,
             ReplaceTemp(p, f, v) \/ Create(p, f, v)
      PROVE  FInv'
  BY <1>1, ReplaceStep, CreateStep
<1>2. ASSUME NEW p \in Procs, ReplaceCommit(p) \/ CreateWrite(p) PROVE FInv'
  BY <1>2, ReplaceCommitStep, CreateWriteStep
<1>3. ASSUME NEW f \in Files, RemoveRead(f) PROVE FInv'
  BY <1>3, RemoveReadStep
<1>4. CASE RemoveUnlink
  BY <1>4, RemoveUnlinkStep
<1>5. ASSUME NEW p \in Actors, Die(p) PROVE FInv'
  BY <1>5, DieStep
<1>6. CASE UNCHANGED fvars
  BY <1>6 DEF fvars, FInv, FileTypeOK, FileInv
<1> QED
  BY <1>1, <1>2, <1>3, <1>4, <1>5, <1>6 DEF FileNext

(* Each step is one of PrivateFile, or changes no file. *)
LEMMA FileStepRefines == FInv /\ [FileNext]_fvars => [Abstract!Next]_file
<1> SUFFICES ASSUME FInv, [FileNext]_fvars PROVE [Abstract!Next]_file
  OBVIOUS
<1> USE FileConstants DEF FInv, FileTypeOK, FileInv, Actors, Put, Abstract!Becomes
<1>1. ASSUME NEW p \in Procs, NEW f \in Files, NEW v \in Values, Create(p, f, v)
      PROVE  Abstract!Create(f)
  BY <1>1 DEF Create, Abstract!Create
<1>2. ASSUME NEW p \in Procs, ReplaceCommit(p)
      PROVE  Abstract!Replace(op[p].file, op[p].value) /\ op[p].file \in Files
             /\ op[p].value \in Values
  BY <1>2 DEF ReplaceCommit, Abstract!Replace
<1>3. ASSUME NEW p \in Procs, CreateWrite(p)
      PROVE  Abstract!Fill(op[p].file, op[p].value) /\ op[p].file \in Files
             /\ op[p].value \in Values
  BY <1>3 DEF CreateWrite, Abstract!Fill
<1>4. ASSUME RemoveUnlink
      PROVE  Abstract!Remove(op[Remover].file) /\ op[Remover].file \in Files
  BY <1>4 DEF RemoveUnlink, Abstract!Remove
<1>5. ASSUME \/ \E p \in Procs, f \in Files, v \in Values : ReplaceTemp(p, f, v)
             \/ \E f \in Files : RemoveRead(f)
             \/ \E p \in Actors : Die(p)
             \/ UNCHANGED fvars
      PROVE  UNCHANGED file
  BY <1>5 DEF ReplaceTemp, RemoveRead, Die, fvars
<1> QED
  BY <1>1, <1>2, <1>3, <1>4, <1>5 DEF FileNext, Abstract!Next

-----------------------------------------------------------------------------
(***************************************************************************)
(* SharedFiles.  What a process is about to write is what it checked, only *)
(* tokens are written to the token file, and only the pending file is      *)
(* removed.                                                                *)
(***************************************************************************)
MineTypeOK ==
  /\ model \in Models
  /\ cmd \in [Procs -> [pc: {"idle", "threshold", "token", "saving"},
                        value: Values \cup {None}, limit: Nat]]
  /\ got \in [Procs -> Tokens \cup {None}]
  /\ stop \in [pc: {"idle", "usage", "decided"}, limit: Nat, trigger: Nat]

CmdInv ==
  \A p \in Procs :
    /\ cmd[p].pc \in {"threshold", "token"} => cmd[p].value \in Values
    /\ cmd[p].pc = "token" => cmd[p].value \in Tokens
    /\ op[p].pc = "temp" => /\ cmd[p].pc = "saving" /\ op[p].value = cmd[p].value
                            /\ Writable(cmd[p].value, cmd[p].limit)
    /\ op[p].pc = "created" /\ op[p].file = Token => op[p].value \in Tokens

RemoverInv == op[Remover].pc = "found" => op[Remover].file = Pending

SharedInv ==
  FInv /\ MineTypeOK /\ CmdInv /\ RemoverInv /\ TokenAgrees /\ TriggerBelowLimit

LEMMA SharedInitInv == SharedInit => SharedInv
<1> SUFFICES ASSUME SharedInit PROVE SharedInv
  OBVIOUS
<1>1. FInv
  BY FileInitInv DEF SharedInit
<1>2. MineTypeOK /\ CmdInv /\ RemoverInv /\ TokenAgrees /\ TriggerBelowLimit
  BY FileConstants DEF SharedInit, FileInit, MineTypeOK, CmdInv, RemoverInv, TokenAgrees,
                       TriggerBelowLimit, CmdIdle, StopIdle, OpIdle, Actors
<1> QED
  BY <1>1, <1>2 DEF SharedInv

(* Reading the capacity gives a number, whatever state config.toml is in.  *)
LEMMA ContextLimitIsNat ==
  ASSUME MineTypeOK
  PROVE  ContextLimit \in Nat
<1> DEFINE lines == Lines(config)
           given == {i \in DOMAIN lines : lines[i] \in CapacityLines}
           first == {i \in given : \A j \in given : i <= j}
           i0 == CHOOSE i \in first : TRUE
<1>1. CASE model = DeclaredModel /\ \E i \in first : Declared[lines[i]] > 0
  <2>1. i0 \in first
    BY <1>1
  <2>2. lines[i0] \in CapacityLines
    BY <2>1
  <2>3. Declared[lines[i0]] \in Nat
    BY <2>2, SharedConstants
  <2> QED
    BY <1>1, <2>3 DEF ContextLimit, LimitBy
<1>2. CASE ~(model = DeclaredModel /\ \E i \in first : Declared[lines[i]] > 0)
  BY <1>2, SharedConstants DEF ContextLimit, LimitBy, MineTypeOK
<1> QED
  BY <1>1, <1>2

(* The steps of a process that writes or creates a file. *)
LEMMA CommandStep ==
  ASSUME SharedInv, NEW p \in Procs, Command(p)
  PROVE  SharedInv'
<1> USE FileConstants, SharedConstants
        DEF SharedInv, MineTypeOK, CmdInv, RemoverInv, TokenAgrees, TriggerBelowLimit, mine
<1>a. FInv
  OBVIOUS
<1>b. ContextLimit \in Nat
  BY ContextLimitIsNat
<1>1. ASSUME NEW v \in Thresholds, UpdateRead(p, v) PROVE SharedInv'
  <2>1. FInv'
    BY <1>1, <1>a, FileInvStep DEF UpdateRead
  <2> QED
    BY <1>1, <1>b, <2>1 DEF UpdateRead, CmdGoto, fvars
<1>2. CASE UpdateRejected(p)
  <2>1. FInv'
    BY <1>2, <1>a, FileInvStep DEF UpdateRejected
  <2> QED
    BY <1>2, <2>1 DEF UpdateRejected, CmdEnds, CmdIdle, fvars
<1>3. CASE UpdateWrite(p)
  <2>1. cmd[p].value \in Values /\ Settings \in Files
    BY <1>3 DEF UpdateWrite
  <2>2. FInv'
    BY <1>3, <1>a, <2>1, ReplaceStep DEF UpdateWrite
  <2> QED
    BY <1>3, <2>1, <2>2
       DEF UpdateWrite, CmdGoto, ReplaceTemp, Begin, FInv, FileTypeOK, FileInv, Actors
<1>4. CASE UpdateSaved(p)
  <2>1. FInv'
    BY <1>4, <1>a, ReplaceCommitStep DEF UpdateSaved
  <2>2. op[p].file = Settings
    BY <1>4 DEF UpdateSaved, ReplaceCommit, FInv, FileInv, Actors
  <2> QED
    BY <1>4, <2>1, <2>2 DEF UpdateSaved, CmdEnds, CmdIdle, ReplaceCommit, Put, End, OpIdle,
                           FInv, FileTypeOK, FileInv, Actors
<1>5. CASE TokenRead(p)
  <2>1. FInv'
    BY <1>5, <1>a, FileInvStep DEF TokenRead
  <2> QED
    BY <1>5, <2>1 DEF TokenRead, fvars
<1>6. ASSUME NEW t \in Tokens, TokenMissing(p, t) PROVE SharedInv'
  <2>1. FInv'
    BY <1>6, <1>a, FileInvStep DEF TokenMissing
  <2> QED
    BY <1>6, <2>1 DEF TokenMissing, CmdGoto, fvars
<1>7. CASE TokenCreate(p)
  <2>1. cmd[p].value \in Tokens /\ cmd[p].value \in Values /\ Token \in Files
    BY <1>7 DEF TokenCreate
  <2>2. FInv'
    BY <1>7, <1>a, <2>1, CreateStep DEF TokenCreate
  <2> QED
    BY <1>7, <2>1, <2>2 DEF TokenCreate, CmdGoto, Create, Begin, Put,
                           FInv, FileTypeOK, FileInv, Actors
<1>8. CASE TokenExists(p)
  <2>1. FInv'
    BY <1>8, <1>a, FileInvStep DEF TokenExists
  <2> QED
    BY <1>8, <2>1 DEF TokenExists, CmdEnds, CmdIdle, fvars
<1>9. CASE TokenWrite(p)
  <2>1. FInv'
    BY <1>9, <1>a, CreateWriteStep DEF TokenWrite
  <2>2. op[p].value \in Tokens /\ file[Token] = Torn
    BY <1>9 DEF TokenWrite, CreateWrite, FInv, FileInv, Actors
  <2>3. \A q \in Procs : got[q] = None
    BY <2>2
  <2> QED
    BY <1>9, <2>1, <2>2, <2>3 DEF TokenWrite, CmdEnds, CmdIdle, CreateWrite, Put, End, OpIdle,
                           FInv, FileTypeOK, FileInv, Actors
<1>10. CASE Freeze(p)
  <2>1. Identity \in Values /\ Pending \in Files
    OBVIOUS
  <2>2. FInv'
    BY <1>10, <1>a, <2>1, CreateStep DEF Freeze
  <2> QED
    BY <1>10, <2>1, <2>2 DEF Freeze, CmdGoto, Create, Begin, Put,
                            FInv, FileTypeOK, FileInv, Actors
<1>11. CASE FreezeWrite(p)
  <2>1. FInv'
    BY <1>11, <1>a, CreateWriteStep DEF FreezeWrite
  <2> QED
    BY <1>11, <2>1 DEF FreezeWrite, CmdEnds, CmdIdle, CreateWrite, Put, End, OpIdle,
                      FInv, FileTypeOK, FileInv, Actors
<1> QED
  BY <1>1, <1>2, <1>3, <1>4, <1>5, <1>6, <1>7, <1>8, <1>9, <1>10, <1>11 DEF Command

LEMMA SharedStep == SharedInv /\ [SharedNext]_vars => SharedInv'
<1> SUFFICES ASSUME SharedInv, [SharedNext]_vars PROVE SharedInv'
  OBVIOUS
<1> USE FileConstants, SharedConstants
        DEF SharedInv, MineTypeOK, CmdInv, RemoverInv, TokenAgrees, TriggerBelowLimit, mine
<1>a. FInv
  OBVIOUS
<1>1. ASSUME UNCHANGED <<fvars, mine>> PROVE SharedInv'
  <2>1. FInv'
    BY <1>1, <1>a, FileInvStep
  <2> QED
    BY <1>1, <2>1 DEF fvars
<1>2. ASSUME NEW p \in Procs, Command(p) PROVE SharedInv'
  BY <1>2, CommandStep
<1>3. ASSUME NEW p \in Actors, ProcDies(p) PROVE SharedInv'
  <2>1. FInv'
    BY <1>3, <1>a, DieStep DEF ProcDies
  <2>2. op' = [op EXCEPT ![p] = OpIdle] /\ file' = file /\ model' = model /\ stop' = stop
    BY <1>3 DEF ProcDies, Die, End
  <2>3. op \in [Actors -> [pc: {"idle", "temp", "created", "found"},
                          file: Files \cup {None}, value: Values \cup {None}]]
    BY DEF FInv, FileTypeOK
  <2>4. CASE p \in Procs
    <3>1. /\ cmd' = [cmd EXCEPT ![p] = CmdIdle]
          /\ got' = [got EXCEPT ![p] = None]
      BY <1>3, <2>4 DEF ProcDies, CmdEnds
    <3>2. \A q \in Procs \ {p} : op'[q] = op[q] /\ cmd'[q] = cmd[q] /\ got'[q] = got[q]
      BY <2>2, <2>3, <3>1 DEF Actors
    <3>3. op'[p].pc = "idle" /\ cmd'[p].pc = "idle" /\ got'[p] = None
      BY <2>2, <2>3, <2>4, <3>1 DEF Actors, OpIdle, CmdIdle
    <3>4. op'[Remover] = op[Remover]
      BY <2>2, <2>3, <2>4 DEF Actors
    <3>5. MineTypeOK'
      BY <2>2, <3>1 DEF CmdIdle
    <3>6. CmdInv'
      BY <3>2, <3>3
    <3>7. RemoverInv' /\ TokenAgrees' /\ TriggerBelowLimit'
      BY <2>2, <3>2, <3>3, <3>4
    <3> QED
      BY <2>1, <3>5, <3>6, <3>7
  <2>5. CASE p = Remover
    BY <1>3, <2>1, <2>2, <2>3, <2>5 DEF ProcDies, OpIdle, Actors
  <2> QED
    BY <2>4, <2>5 DEF Actors
<1>4. ASSUME NEW v \in Thresholds \cup {Invalid}, HandEdit(v) PROVE SharedInv'
  <2>1. FInv'
    BY <1>4 DEF HandEdit, Put, FInv, FileTypeOK, FileInv, Actors
  <2> QED
    BY <1>4, <2>1 DEF HandEdit, Put, FInv, FileTypeOK
<1>5. CASE Adopted
  <2>1. FInv'
    BY <1>5, <1>a, RemoveReadStep DEF Adopted
  <2> QED
    BY <1>5, <2>1 DEF Adopted, RemoveRead, Begin, FInv, FileTypeOK, Actors
<1>6. CASE PendingRemoved
  <2>1. FInv'
    BY <1>6, <1>a, RemoveUnlinkStep DEF PendingRemoved
  <2> QED
    BY <1>6, <2>1 DEF PendingRemoved, RemoveUnlink, Put, End, OpIdle, FInv, FileTypeOK, Actors
<1>7. CASE StopUsage
  <2>1. FInv'
    BY <1>7, <1>a, FileInvStep DEF StopUsage
  <2> QED
    BY <1>7, <2>1, ContextLimitIsNat DEF StopUsage, StopIdle, fvars
<1>8. ASSUME NEW ratio \in Ratios, StopTrigger(ratio) PROVE SharedInv'
  <2>1. FInv'
    BY <1>8, <1>a, FileInvStep DEF StopTrigger
  <2> DEFINE t == ReadTrigger(file[Settings], stop.limit, ratio)
  <2>2. t \in Nat /\ (stop.limit > 1 => t \in 1 .. stop.limit - 1)
    BY ReadTriggerBelow
  <2>3. stop' = [stop EXCEPT !.pc = "decided", !.trigger = t]
    BY <1>8 DEF StopTrigger
  <2> HIDE DEF t
  <2> QED
    BY <1>8, <2>1, <2>2, <2>3 DEF StopTrigger, fvars
<1>9. ASSUME NEW m \in Models, ModelChanges(m) PROVE SharedInv'
  <2>1. FInv'
    BY <1>9, <1>a, FileInvStep DEF ModelChanges
  <2> QED
    BY <1>9, <2>1 DEF ModelChanges, fvars
<1>10. ASSUME ConfigToml \/ Kimi \/ Adopts \/ UNCHANGED vars PROVE SharedInv'
  BY <1>10, <1>1 DEF ConfigToml, Kimi, Adopts, vars
<1> QED
  BY <1>2, <1>3, <1>4, <1>5, <1>6, <1>7, <1>8, <1>9, <1>10 DEF SharedNext

-----------------------------------------------------------------------------
(* The files of the state directory: a step of SharedFiles is one of       *)
(* PrivateFile, or touches none of them.                                   *)
LEMMA SharedInitRefines == SharedInit => Abstract!Init
BY DEF SharedInit, FileInit, Abstract!Init

LEMMA SharedStepRefines == SharedInv /\ [SharedNext]_vars => [Abstract!Next]_file
<1> SUFFICES ASSUME SharedInv, [SharedNext]_vars PROVE [Abstract!Next]_file
  OBVIOUS
<1> USE FileConstants, SharedConstants
<1>a. FInv
  BY DEF SharedInv
<1>1. ASSUME [FileNext]_fvars PROVE [Abstract!Next]_file
  BY <1>1, <1>a, FileStepRefines
<1>2. ASSUME NEW p \in Procs, Command(p) PROVE [FileNext]_fvars
  <2>1. cmd[p].pc \in {"threshold", "token"} => cmd[p].value \in Values
    BY DEF SharedInv, CmdInv
  <2>2. ASSUME \/ \E v \in Thresholds : UpdateRead(p, v)
               \/ UpdateRejected(p) \/ TokenRead(p)
               \/ \E t \in Tokens : TokenMissing(p, t)
               \/ TokenExists(p)
        PROVE  UNCHANGED fvars
    BY <2>2 DEF UpdateRead, UpdateRejected, TokenRead, TokenMissing, TokenExists
  <2>3. ASSUME UpdateWrite(p) \/ TokenCreate(p) \/ Freeze(p)
        PROVE  \E f \in Files, v \in Values : ReplaceTemp(p, f, v) \/ Create(p, f, v)
    BY <2>1, <2>3 DEF UpdateWrite, TokenCreate, Freeze
  <2>4. ASSUME UpdateSaved(p) \/ TokenWrite(p) \/ FreezeWrite(p)
        PROVE  ReplaceCommit(p) \/ CreateWrite(p)
    BY <2>4 DEF UpdateSaved, TokenWrite, FreezeWrite
  <2> QED
    BY <1>2, <2>2, <2>3, <2>4 DEF Command, FileNext
<1>3. ASSUME NEW p \in Actors, ProcDies(p) PROVE [FileNext]_fvars
  BY <1>3 DEF ProcDies, FileNext
<1>4. ASSUME NEW v \in Thresholds \cup {Invalid}, HandEdit(v) PROVE Abstract!Next
  <2>1. Abstract!Replace(Settings, v)
    BY <1>4 DEF HandEdit, Put, Abstract!Replace, Abstract!Becomes
  <2> QED
    BY <2>1 DEF Abstract!Next
<1>5. ASSUME Adopted \/ PendingRemoved PROVE [FileNext]_fvars
  BY <1>5 DEF Adopted, PendingRemoved, FileNext
<1>6. ASSUME \/ ConfigToml \/ Kimi \/ Adopts \/ StopUsage
             \/ \E ratio \in Ratios : StopTrigger(ratio)
             \/ \E m \in Models : ModelChanges(m)
             \/ UNCHANGED vars
      PROVE  UNCHANGED fvars
  BY <1>6 DEF ConfigToml, Kimi, Adopts, StopUsage, StopTrigger, ModelChanges, vars
<1> QED
  BY <1>1, <1>2, <1>3, <1>4, <1>5, <1>6 DEF SharedNext

-----------------------------------------------------------------------------
(* Kimi's files of a session. *)
LEMMA SharedArtifactStep == ArtifactInv /\ [SharedNext]_vars => ArtifactInv'
<1> SUFFICES ASSUME ArtifactInv, [SharedNext]_vars PROVE ArtifactInv'
  OBVIOUS
<1>1. ASSUME Kimi \/ Adopts PROVE ArtifactStep
  BY <1>1 DEF Kimi, Adopts, ArtifactStep
<1>2. ASSUME NEW p \in Procs, Command(p) PROVE UNCHANGED avars
  BY <1>2 DEF Command, UpdateRead, UpdateRejected, UpdateWrite, UpdateSaved, TokenRead,
              TokenMissing, TokenCreate, TokenExists, TokenWrite, Freeze, FreezeWrite
<1>3. ASSUME \/ ConfigToml \/ Adopted \/ PendingRemoved \/ StopUsage
             \/ \E p \in Actors : ProcDies(p)
             \/ \E v \in Thresholds \cup {Invalid} : HandEdit(v)
             \/ \E ratio \in Ratios : StopTrigger(ratio)
             \/ \E m \in Models : ModelChanges(m)
             \/ UNCHANGED vars
      PROVE  UNCHANGED avars
  BY <1>3 DEF ConfigToml, Adopted, PendingRemoved, StopUsage, ProcDies, HandEdit,
              StopTrigger, ModelChanges, vars
<1> QED
  BY <1>1, <1>2, <1>3, ArtifactInvStep DEF SharedNext

(* config.toml: the other programs only read it. *)
LEMMA SharedBlockStep == [SharedNext]_vars => [BlockNext]_bvars
<1> SUFFICES ASSUME [SharedNext]_vars PROVE [BlockNext]_bvars
  OBVIOUS
<1>1. ASSUME ConfigToml PROVE BlockNext
  BY <1>1 DEF ConfigToml, BlockNext
<1>2. ASSUME NEW p \in Procs, Command(p) PROVE UNCHANGED bvars
  BY <1>2 DEF Command, UpdateRead, UpdateRejected, UpdateWrite, UpdateSaved, TokenRead,
              TokenMissing, TokenCreate, TokenExists, TokenWrite, Freeze, FreezeWrite
<1>3. ASSUME \/ Kimi \/ Adopts \/ Adopted \/ PendingRemoved \/ StopUsage
             \/ \E p \in Actors : ProcDies(p)
             \/ \E v \in Thresholds \cup {Invalid} : HandEdit(v)
             \/ \E ratio \in Ratios : StopTrigger(ratio)
             \/ \E m \in Models : ModelChanges(m)
             \/ UNCHANGED vars
      PROVE  UNCHANGED bvars
  BY <1>3 DEF Kimi, Adopts, Adopted, PendingRemoved, StopUsage, ProcDies, HandEdit,
              StopTrigger, ModelChanges, vars
<1> QED
  BY <1>1, <1>2, <1>3 DEF SharedNext

LEMMA SharedBlockInv == SharedSpec => []BInv
<1>1. SharedInit => BInv
  BY BlockInitInv DEF SharedInit
<1> QED
  BY <1>1, SharedBlockStep, BlockInvStep, PTL DEF SharedSpec

(* The capacity that a text gives is that of its first capacity line, so   *)
(* two texts with the same capacity lines give the same.                   *)
LimitOf(given) ==
  IF model = DeclaredModel /\ given # <<>> /\ Declared[given[1]] > 0 THEN Declared[given[1]]
  ELSE Table[model]

LEMMA LimitOfGiven ==
  ASSUME NEW lines \in Seq(AnyLine)
  PROVE  LimitBy(lines) = LimitOf(Only(lines, CapacityLines))
<1> DEFINE given == {i \in DOMAIN lines : lines[i] \in CapacityLines}
           first == {i \in given : \A j \in given : i <= j}
           kept == Only(lines, CapacityLines)
<1>0. given \subseteq Nat /\ DOMAIN lines = 1 .. Len(lines) /\ Len(lines) \in Nat
  OBVIOUS
<1>1. CASE given = {}
  <2>1. kept = <<>>
    BY <1>1, OnlyNowhere
  <2>2. first = {}
    BY <1>1
  <2> HIDE DEF kept
  <2>3. LimitOf(kept) = Table[model]
    BY <2>1 DEF LimitOf
  <2>4. LimitBy(lines) = Table[model]
    BY <2>2 DEF LimitBy
  <2> QED
    BY <2>3, <2>4 DEF kept
<1>2. CASE given # {}
  <2>1. PICK i \in given : \A j \in given : i <= j
    BY <1>0, <1>2, NatMin
  <2>2. first = {i}
    BY <1>0, <2>1
  <2>3. FirstIn(lines, CapacityLines, i) /\ i \in DOMAIN lines
    <3>1. ASSUME NEW j \in 1 .. i - 1, lines[j] \in CapacityLines PROVE FALSE
      <4>1. j \in given
        BY <1>0, <2>1, <3>1
      <4> QED
        BY <1>0, <2>1, <4>1
    <3> QED
      BY <2>1, <3>1 DEF FirstIn
  <2>4. BeginsAt(lines, CapacityLines, i)
    BY <2>3, OnlyFirst
  <2>5. kept # <<>> /\ kept[1] = lines[i]
    BY <2>4 DEF BeginsAt
  <2>6. (CHOOSE k \in first : TRUE) = i
    BY <2>2
  <2>7. LimitBy(lines) = IF model = DeclaredModel /\ Declared[lines[i]] > 0
                         THEN Declared[lines[i]] ELSE Table[model]
    BY <2>2, <2>6 DEF LimitBy
  <2> HIDE DEF kept
  <2>8. LimitOf(kept) = IF model = DeclaredModel /\ Declared[lines[i]] > 0
                        THEN Declared[lines[i]] ELSE Table[model]
    BY <2>5 DEF LimitOf
  <2> QED
    BY <2>7, <2>8 DEF kept
<1> QED
  BY <1>1, <1>2

LEMMA LimitOfWritten ==
  ASSUME NEW s \in Seq(AnyLine), NEW t \in Seq(AnyLine), Written(s) = Written(t)
  PROVE  LimitBy(s) = LimitBy(t)
<1>1. CapacityLines \cap AnyLine \subseteq UserLines \ BlankLines
  BY SharedConstants
<1>2. /\ Only(Written(s), CapacityLines) = Only(s, CapacityLines)
      /\ Only(Written(t), CapacityLines) = Only(t, CapacityLines)
  BY <1>1, OnlyOnly DEF Written
<1>3. Only(s, CapacityLines) = Only(t, CapacityLines)
  BY <1>2
<1> QED
  BY <1>3, LimitOfGiven

(* What the Stop hook finds when no command has config.toml truncated.     *)
LEMMA CapacityStep ==
  ASSUME BInv, MineTypeOK, StopUsage, cli.pc \notin {"write", "rewrite"}, died = 0,
         edited # "during"
  PROVE  stop'.limit = LimitBy(text)
<1>1. Good(config)
  BY DEF BInv, BlockInv, WorkKept
<1>2. config \in Contents \cup {NoFile} /\ text \in Seq(AnyLine)
  BY DEF BInv, BlockTypeOK, AnyLine
<1>3. Lines(config) \in Seq(AnyLine) /\ Written(Lines(config)) = Written(text)
  BY <1>1, <1>2, LinesType, OwnType DEF Good
<1>4. ContextLimit = LimitBy(text)
  BY <1>2, <1>3, LimitOfWritten DEF ContextLimit
<1>5. ContextLimit \in Nat
  BY ContextLimitIsNat
<1>6. stop'.limit = IF ContextLimit > 0 THEN ContextLimit ELSE 0
  BY DEF StopUsage, StopIdle
<1> QED
  BY <1>4, <1>5, <1>6

(* Every step that counts has counted down. *)
LeftTypeOK == left \in Nat

LEMMA LeftStep == LeftTypeOK /\ [SharedNext]_vars => LeftTypeOK'
<1> SUFFICES ASSUME left \in Nat, [SharedNext]_vars PROVE left' \in Nat
  BY DEF LeftTypeOK
<1>1. Spend \/ UNCHANGED left => left' \in Nat
  BY DEF Spend
<1>2. ASSUME NEW p \in Procs, Command(p) PROVE Spend \/ UNCHANGED left
  BY <1>2 DEF Command, UpdateRead, UpdateRejected, UpdateWrite, UpdateSaved, TokenRead,
              TokenMissing, TokenCreate, TokenExists, TokenWrite, Freeze, FreezeWrite
<1>3. ASSUME \/ ConfigToml \/ Kimi \/ Adopts \/ Adopted \/ PendingRemoved \/ StopUsage
             \/ \E p \in Actors : ProcDies(p)
             \/ \E v \in Thresholds \cup {Invalid} : HandEdit(v)
             \/ \E ratio \in Ratios : StopTrigger(ratio)
             \/ \E m \in Models : ModelChanges(m)
             \/ UNCHANGED vars
      PROVE  Spend \/ UNCHANGED left
  BY <1>3 DEF ConfigToml, Kimi, Adopts, Adopted, PendingRemoved, StopUsage, ProcDies, HandEdit,
              StopTrigger, ModelChanges, vars
<1> QED
  BY <1>1, <1>2, <1>3 DEF SharedNext

-----------------------------------------------------------------------------
(* Whatever settings.json and config.toml hold while the Stop hook reads   *)
(* them, the trigger it goes by lies below the limit (_clamp_trigger).     *)
THEOREM TriggerBelowLimitHolds == SharedSpec => []TriggerBelowLimit
<1>1. SharedInv => TriggerBelowLimit
  BY DEF SharedInv
<1> QED
  BY SharedInitInv, SharedStep, <1>1, PTL DEF SharedSpec

(* A threshold that update_settings saves is what the panel and the gate   *)
(* take for it, unclamped, for the limit it was accepted for.              *)
THEOREM AcceptedIsShownHolds == SharedSpec => []AcceptedIsShown
<1>1. SharedInv => AcceptedIsShown
  <2> SUFFICES ASSUME SharedInv, NEW p \in Procs, op[p].pc = "temp", NEW ratio \in Ratios
               PROVE  ShownTrigger(op[p].value, cmd[p].limit, ratio) = op[p].value
    BY DEF AcceptedIsShown
  <2>1. op[p].value = cmd[p].value /\ Writable(cmd[p].value, cmd[p].limit)
    BY DEF SharedInv, CmdInv
  <2>2. cmd[p].limit \in Nat
    BY DEF SharedInv, MineTypeOK
  <2> QED
    BY <2>1, <2>2, WritableIsShown, SharedConstants
<1> QED
  BY SharedInitInv, SharedStep, <1>1, PTL DEF SharedSpec

(* O_EXCL lets one of `configure` and `serve` create the token, and what   *)
(* either goes on with is what the hooks read (ensure_control_token).      *)
THEOREM TokenAgreesHolds == SharedSpec => []TokenAgrees
<1>1. SharedInv => TokenAgrees
  BY DEF SharedInv
<1> QED
  BY SharedInitInv, SharedStep, <1>1, PTL DEF SharedSpec

(* The commands, the panel, the hooks and adopt() together implement       *)
(* PrivateFile: os.replace, O_EXCL and the check before the unlink.        *)
THEOREM FilesRefine == SharedSpec => RefinesPrivateFile
BY SharedInitInv, SharedStep, SharedInitRefines, SharedStepRefines, PTL
   DEF SharedSpec, RefinesPrivateFile, Abstract!Spec

(* adopt() never fails a fresh session for the wire that Kimi creates only *)
(* when the hook that waits for adopt() has returned.                      *)
THEOREM FreshSessionIsBoundHolds == SharedSpec => []FreshSessionIsBound
<1>1. SharedInit => ArtifactInv
  BY ArtifactInitInv DEF SharedInit
<1> QED
  BY <1>1, SharedArtifactStep, FreshIsBound, PTL DEF SharedSpec

(* The scanner's cursor is never beyond the complete rows of the wire.     *)
THEOREM CursorWithinWireHolds == SharedSpec => []CursorWithinWire
<1>1. SharedInit => ArtifactInv
  BY ArtifactInitInv DEF SharedInit
<1>2. ArtifactInv => CursorWithinWire
  BY DEF ArtifactInv
<1> QED
  BY <1>1, <1>2, SharedArtifactStep, PTL DEF SharedSpec

(* Files, commands, the wait and what each process found are of their      *)
(* types in every state.                                                   *)
THEOREM SharedTypeCorrect == SharedSpec => []SharedTypeOK
<1>1. SharedInit => SharedInv /\ ArtifactInv /\ LeftTypeOK
  BY SharedInitInv, ArtifactInitInv, SharedConstants DEF SharedInit, LeftTypeOK
<1>2. BInv /\ SharedInv /\ ArtifactInv /\ LeftTypeOK => SharedTypeOK
  BY DEF SharedTypeOK, LeftTypeOK, BInv, SharedInv, FInv, MineTypeOK, ArtifactInv
<1> QED
  BY <1>1, <1>2, SharedBlockInv, SharedStep, SharedArtifactStep, LeftStep, PTL DEF SharedSpec

(* What `install` and `uninstall` work on are the user's lines with at     *)
(* most one block among them, and before config.toml is truncated they     *)
(* are in a backup that is complete.                                       *)
THEOREM BlockInvHolds == SharedSpec => []BlockInv
<1>1. BInv => BlockInv
  BY DEF BInv
<1> QED
  BY <1>1, SharedBlockInv, PTL

(* However often the block is installed and removed, with edits in         *)
(* between, every other line of config.toml stays (remove_block).          *)
THEOREM UserLinesKeptHolds == SharedSpec => []UserLinesKept
BY SharedBlockInv, BInvKeepsUserLines, PTL

(* One command killed between the truncation and the write loses nothing   *)
(* that was in config.toml before the first install (cmd_install).         *)
THEOREM RecoverableHolds == SharedSpec => []Recoverable
BY SharedBlockInv, BInvRecovers, PTL

(* `install` truncates config.toml only when the backup holds the user's   *)
(* lines, unless a command was killed (cmd_install).                       *)
THEOREM BackedUpUnlessKilledHolds == SharedSpec => BackedUpUnlessKilled
<1>1. BInv => [InstallOpen /\ edited = "no" /\ died = 0 =>
                 Written(Own(backup)) = Written(text)]_bvars
  BY BInvBacksUp
<1> QED
  BY <1>1, SharedBlockInv, PTL DEF BackedUpUnlessKilled

(* The block that is or is not in config.toml makes no difference to the   *)
(* capacity that the Stop hook reads there (configured_model_context).     *)
THEOREM CapacityAsWrittenHolds == SharedSpec => CapacityAsWritten
<1>1. BInv /\ SharedInv =>
        [StopUsage /\ cli.pc \notin {"write", "rewrite"} /\ died = 0 /\ edited # "during"
           => stop'.limit = LimitBy(text)]_vars
  BY CapacityStep DEF SharedInv
<1> QED
  BY <1>1, SharedBlockInv, SharedInitInv, SharedStep, PTL DEF SharedSpec, CapacityAsWritten
=============================================================================
