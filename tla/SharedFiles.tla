---------------------------- MODULE SharedFiles ----------------------------
(***************************************************************************)
(* The programs that read each other's files while they are written.       *)
(* `install` and `uninstall` rewrite Kimi's config.toml (HookBlock), from  *)
(* which the Stop hook and the controller read the capacity of the model;  *)
(* the panel and `set-trigger` write settings.json (update_settings,       *)
(* Trigger); `configure` and `serve` create the control token (config.py); *)
(* a SessionStart hook creates the pending file, and adopt() waits for     *)
(* Kimi's files (Artifacts) before it removes it.  Settings, token and     *)
(* pending file go through SecureFile.                                     *)
(*                                                                         *)
(* A capacity in config.toml is one line of the user's, which stands for   *)
(* the section of a model and its field.                                   *)
(***************************************************************************)
EXTENDS HookBlock, SecureFile, Trigger, Artifacts

CONSTANTS
  Settings, Token, Pending,  \* the files of SecureFile
  Tokens,           \* values of the token that may be drawn
  Identity,         \* the content of the pending file
  Invalid,          \* settings.json that is no setting
  Thresholds,       \* what people ask for
  Models,           \* models in use, by Kimi's usage records
  Table,            \* MODEL_CONTEXT, 0 for a model that is not in it
  CapacityLines,    \* the lines of config.toml that give a capacity
  Declared,         \* that capacity
  DeclaredModel,    \* the model they are about
  Ratios,           \* DEFAULT_TRIGGER_RATIO or that of the environment, in percent
  MaxCommands       \* bound: commands, requests, hooks and edits

ASSUME SharedConstants ==
  /\ Files = {Settings, Token, Pending} /\ Replaced = {Settings}
  /\ Token # Settings /\ Pending # Settings /\ Pending # Token
  /\ Thresholds \subseteq Int
  /\ Values = Thresholds \cup {Invalid} \cup Tokens \cup {Identity}
  /\ Tokens \cap (Thresholds \cup {Invalid, Identity}) = {}
  /\ Invalid \notin Int
  /\ Table \in [Models -> Nat] /\ Ratios \subseteq Int
  /\ CapacityLines \subseteq UserLines \ BlankLines
  /\ Declared \in [CapacityLines -> Nat]
  /\ MaxCommands \in Nat

VARIABLES
  model,  \* the model of the last usage record
  cmd,    \* per process: what it decided on what it read
  got,    \* per process: the token it goes on with
  stop,   \* the Stop hook: the limit and trigger it found
  left    \* bound: commands that may still begin

mine == <<model, cmd, got, stop>>
vars == <<bvars, fvars, avars, mine, left>>

CmdIdle == [pc |-> "idle", value |-> None, limit |-> 0]
StopIdle == [pc |-> "idle", limit |-> 0, trigger |-> 0]

SharedTypeOK ==
  /\ BlockTypeOK /\ FileTypeOK /\ ArtifactTypeOK
  /\ model \in Models
  /\ cmd \in [Procs -> [pc: {"idle", "threshold", "token", "saving"},
                        value: Values \cup {None}, limit: Nat]]
  /\ got \in [Procs -> Tokens \cup {None}]
  /\ stop \in [pc: {"idle", "usage", "decided"}, limit: Nat, trigger: Nat]
  /\ left \in Nat

SharedInit ==
  /\ BlockInit /\ FileInit /\ ArtifactInit
  /\ model \in Models
  /\ cmd = [p \in Procs |-> CmdIdle]
  /\ got = [p \in Procs |-> None]
  /\ stop = StopIdle
  /\ left = MaxCommands

Spend == left > 0 /\ left' = left - 1

(* configured_model_context: the first line decides; a truncated file      *)
(* declares nothing.  Then MODEL_CONTEXT.                                  *)
LimitBy(lines) ==
  LET given == {i \in DOMAIN lines : lines[i] \in CapacityLines}
      first == {i \in given : \A j \in given : i <= j}
  IN  IF model = DeclaredModel /\ \E i \in first : Declared[lines[i]] > 0
      THEN Declared[lines[CHOOSE i \in first : TRUE]]
      ELSE Table[model]
ContextLimit == LimitBy(Lines(config))

CmdGoto(p, l, v, n) == cmd' = [cmd EXCEPT ![p] = [pc |-> l, value |-> v, limit |-> n]]
CmdEnds(p) == cmd' = [cmd EXCEPT ![p] = CmdIdle]

-----------------------------------------------------------------------------
(* update_settings, by a panel thread or `set-trigger`. *)

UpdateRead(p, v) ==
  /\ cmd[p].pc = "idle" /\ Spend
  /\ CmdGoto(p, "threshold", v, ContextLimit)
  /\ UNCHANGED <<bvars, avars, fvars, model, got, stop>>

UpdateRejected(p) ==
  /\ cmd[p].pc = "threshold" /\ ~Writable(cmd[p].value, cmd[p].limit)
  /\ CmdEnds(p)
  /\ UNCHANGED <<bvars, avars, fvars, model, got, stop, left>>

UpdateWrite(p) ==
  /\ cmd[p].pc = "threshold" /\ Writable(cmd[p].value, cmd[p].limit)
  /\ ReplaceTemp(p, Settings, cmd[p].value)
  /\ CmdGoto(p, "saving", cmd[p].value, cmd[p].limit)
  /\ UNCHANGED <<bvars, avars, model, got, stop, left>>

UpdateSaved(p) ==
  /\ ReplaceCommit(p)
  /\ CmdEnds(p)
  /\ UNCHANGED <<bvars, avars, model, got, stop, left>>

(* Someone writes settings.json by hand. *)
HandEdit(v) ==
  /\ Spend
  /\ Put(Settings, v)
  /\ UNCHANGED <<bvars, avars, op, mine>>

-----------------------------------------------------------------------------
(* ensure_control_token, by `configure` and by `serve`, which reads it     *)
(* again when it makes the server.  A torn token is refused.               *)

TokenRead(p) ==
  /\ cmd[p].pc = "idle" /\ Spend
  /\ file[Token] \in Tokens
  /\ got' = [got EXCEPT ![p] = file[Token]]
  /\ UNCHANGED <<bvars, avars, fvars, model, cmd, stop>>

TokenMissing(p, t) ==
  /\ cmd[p].pc = "idle" /\ Spend
  /\ file[Token] = None
  /\ CmdGoto(p, "token", t, 0)
  /\ UNCHANGED <<bvars, avars, fvars, model, got, stop>>

TokenCreate(p) ==
  /\ cmd[p].pc = "token"
  /\ Create(p, Token, cmd[p].value)
  /\ CmdGoto(p, "saving", cmd[p].value, 0)
  /\ UNCHANGED <<bvars, avars, model, got, stop, left>>

(* FileExistsError: the command fails. *)
TokenExists(p) ==
  /\ cmd[p].pc = "token" /\ file[Token] # None
  /\ CmdEnds(p)
  /\ UNCHANGED <<bvars, avars, fvars, model, got, stop, left>>

TokenWrite(p) ==
  /\ op[p].file = Token
  /\ CreateWrite(p)
  /\ got' = [got EXCEPT ![p] = op[p].value]
  /\ CmdEnds(p)
  /\ UNCHANGED <<bvars, avars, model, stop, left>>

-----------------------------------------------------------------------------
(* The pending file: _freeze_pending; and adopt(), which waits for the     *)
(* artifacts and removes it when the session is bound.                     *)

Freeze(p) ==
  /\ session # Nothing /\ cmd[p].pc = "idle" /\ Spend
  /\ Create(p, Pending, Identity)
  /\ CmdGoto(p, "saving", Identity, 0)
  /\ UNCHANGED <<bvars, avars, model, got, stop>>

FreezeWrite(p) ==
  /\ op[p].file = Pending
  /\ CreateWrite(p)
  /\ CmdEnds(p)
  /\ UNCHANGED <<bvars, avars, model, got, stop, left>>

Adopts ==
  /\ \/ file[Pending] = Identity /\ WaitBegin
     \/ WaitGoesOn
  /\ UNCHANGED <<bvars, fvars, mine, left>>

Adopted ==
  /\ wait.pc = "bound" /\ op[Remover].pc = "idle"
  /\ RemoveRead(Pending)
  /\ UNCHANGED <<bvars, avars, mine, left>>

PendingRemoved ==
  /\ RemoveUnlink
  /\ UNCHANGED <<bvars, avars, mine, left>>

Kimi ==
  /\ \/ (KimiStarts \/ KimiCopies \/ KimiBeginsRow) /\ Spend
     \/ KimiWrites /\ UNCHANGED left
  /\ UNCHANGED <<bvars, fvars, mine>>

-----------------------------------------------------------------------------
(* The threshold in the Stop hook: last_usage, then read_trigger_tokens.   *)
(* With an unknown capacity it lets the session stop.                      *)

StopUsage ==
  /\ stop.pc # "usage" /\ Spend
  /\ stop' = IF ContextLimit > 0 THEN [pc |-> "usage", limit |-> ContextLimit, trigger |-> 0]
             ELSE StopIdle
  /\ UNCHANGED <<bvars, avars, fvars, model, cmd, got>>

StopTrigger(ratio) ==
  /\ stop.pc = "usage"
  /\ stop' = [stop EXCEPT !.pc = "decided",
                          !.trigger = ReadTrigger(file[Settings], stop.limit, ratio)]
  /\ UNCHANGED <<bvars, avars, fvars, model, cmd, got, left>>

ModelChanges(m) ==
  /\ m # model /\ Spend
  /\ model' = m
  /\ UNCHANGED <<bvars, avars, fvars, cmd, got, stop>>

-----------------------------------------------------------------------------
Command(p) ==
  \/ \E v \in Thresholds : UpdateRead(p, v)
  \/ UpdateRejected(p) \/ UpdateWrite(p) \/ UpdateSaved(p)
  \/ TokenRead(p) \/ \E t \in Tokens : TokenMissing(p, t)
  \/ TokenCreate(p) \/ TokenExists(p) \/ TokenWrite(p)
  \/ Freeze(p) \/ FreezeWrite(p)

ProcDies(p) ==
  /\ Die(p)
  /\ IF p \in Procs THEN CmdEnds(p) /\ got' = [got EXCEPT ![p] = None]
     ELSE UNCHANGED <<cmd, got>>
  /\ UNCHANGED <<bvars, avars, model, stop, left>>

ConfigToml ==
  /\ \/ (CliStarts \/ Edits) /\ Spend
     \/ CliGoesOn /\ UNCHANGED left
  /\ UNCHANGED <<fvars, avars, mine>>

SharedNext ==
  \/ ConfigToml
  \/ \E p \in Procs : Command(p)
  \/ \E p \in Actors : ProcDies(p)
  \/ \E v \in Thresholds \cup {Invalid} : HandEdit(v)
  \/ Kimi \/ Adopts \/ Adopted \/ PendingRemoved
  \/ StopUsage \/ (\E ratio \in Ratios : StopTrigger(ratio))
  \/ \E m \in Models : ModelChanges(m)

SharedSpec == SharedInit /\ [][SharedNext]_vars

-----------------------------------------------------------------------------
(* "Without allowing a dead gate": whatever is in settings.json by now and *)
(* whatever model the limit was read for, the Stop hook demands a letter   *)
(* while there is room below the limit.                                    *)
TriggerBelowLimit ==
  stop.pc = "decided" /\ stop.limit > 1 => stop.trigger \in 1 .. stop.limit - 1

(* A threshold about to be saved was accepted for a limit, and for that    *)
(* limit the panel and the gate take it as it is, whatever the ratio; also *)
(* while the capacity is unknown (_usage accepts what write_trigger_tokens *)
(* let through).                                                           *)
AcceptedIsShown ==
  \A p \in Procs : op[p].pc = "temp" =>
    \A ratio \in Ratios : ShownTrigger(op[p].value, cmd[p].limit, ratio) = op[p].value

(* The capacity that the Stop hook reads is that of the user's lines, as   *)
(* if the block were not there, unless it reads config.toml while a        *)
(* command has truncated it, or such a command died, or overwrote an edit. *)
CapacityAsWritten ==
  [][StopUsage /\ cli.pc \notin {"write", "rewrite"} /\ died = 0 /\ edited # "during"
       => stop'.limit = LimitBy(text)]_vars

(* The token that a running `serve` checks requests against is the one in  *)
(* the file, which the hooks send, though `configure` and `serve` may both *)
(* have found none and been killed at any point.                           *)
TokenAgrees == \A p \in Procs : got[p] # None => file[Token] = got[p]
=============================================================================
