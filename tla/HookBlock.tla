------------------------------ MODULE HookBlock ------------------------------
(***************************************************************************)
(* `kimi-lastcall install` and `uninstall` (cli.py): a managed block is    *)
(* appended to Kimi's config.toml, and removed again.  Both commands read  *)
(* the whole file and write it back; writing truncates it first.  Kimi or  *)
(* a person saves the file as well, and a command may be killed, or its    *)
(* write fail, between any two steps.                                      *)
(*                                                                         *)
(* A file is its lines and whether the last one ends in a newline; a       *)
(* truncated file is Empty.  Commands run one at a time; a save that lands *)
(* between a truncation and the write that follows it is not modelled, nor *)
(* are other conventions for the end of a line.                            *)
(***************************************************************************)
EXTENDS Naturals, Sequences

CONSTANTS
  UserLines,   \* lines of Kimi and of people
  BlankLines,  \* those of white space only
  Originals,   \* what config.toml may be at first
  NoFile,
  MaxText,     \* bound: lines of the user's text up to which it is edited
  MaxDeaths    \* bound: commands killed

Block == <<"begin", "hooks", "end">>   \* MANAGED_BEGIN, the hooks, MANAGED_END
Contents == [lines: Seq(UserLines \cup {"begin", "hooks", "end"}), nl: BOOLEAN]
Empty == [lines |-> <<>>, nl |-> TRUE]

ASSUME BlockConstants ==
  /\ BlankLines \subseteq UserLines
  /\ UserLines \cap {"begin", "hooks", "end"} = {}
  /\ Originals \subseteq [lines: Seq(UserLines), nl: BOOLEAN] \cup {NoFile}
  /\ NoFile \notin Contents
  /\ MaxText \in Nat /\ MaxDeaths \in Nat

VARIABLES
  config,  \* config.toml
  backup,  \* config.toml.kimi-lastcall.bak
  cli,     \* the command under way and the content it read
  \* history
  text,    \* the lines that Kimi and people want in the file
  edited,  \* whether they saved it, and ever during a command
  died     \* commands killed

bvars == <<config, backup, cli, text, edited, died>>

CliIdle == [pc |-> "idle", read |-> NoFile]

BlockTypeOK ==
  /\ config \in Contents \cup {NoFile}
  /\ backup \in Contents \cup {NoFile}
  /\ cli \in [pc: {"idle", "backup", "copy", "open", "write", "remove", "rewrite"},
              read: Contents \cup {NoFile}]
  /\ cli.pc \in {"remove", "rewrite"} => cli.read # NoFile
  /\ text \in Seq(UserLines)
  /\ edited \in {"no", "between", "during"}
  /\ died \in Nat

Lines(c) == IF c = NoFile THEN <<>> ELSE c.lines

(* The lines at some places, and those that are one of `wanted`, in order. *)
Keep(lines, places) ==
  LET kept[i \in 0 .. Len(lines)] ==
        IF i = 0 THEN <<>>
        ELSE IF i \in places THEN Append(kept[i - 1], lines[i])
        ELSE kept[i - 1]
  IN  kept[Len(lines)]
Only(lines, wanted) == Keep(lines, {i \in DOMAIN lines : lines[i] \in wanted})

Own(c) == Only(Lines(c), UserLines)

BlockInit ==
  /\ config \in Originals
  /\ backup = NoFile /\ cli = CliIdle
  /\ text = Own(config) /\ edited = "no" /\ died = 0

-----------------------------------------------------------------------------
Installed(c) == \E i \in DOMAIN Lines(c) : Lines(c)[i] = "begin"

AddBlock(c) == [lines |-> Lines(c) \o Block, nl |-> TRUE]

(* The definitions named Mutant... are mistakes one could make in the      *)
(* definition that follows; each breaks a property of a run.               *)
MutantRemoveBlock(c) ==   \* everything from the first marker on
  LET first == CHOOSE i \in DOMAIN c.lines :
                 c.lines[i] = "begin" /\ \A j \in 1 .. i - 1 : c.lines[j] # "begin"
  IN  [lines |-> SubSeq(c.lines, 1, first - 1), nl |-> TRUE]

(* How deep in blocks the text is after each line; an end marker without   *)
(* its beginning counts for nothing.                                       *)
Depth(lines) ==
  LET depth[i \in 0 .. Len(lines)] ==
        IF i = 0 THEN 0
        ELSE IF lines[i] = "begin" THEN depth[i - 1] + 1
        ELSE IF lines[i] = "end" /\ depth[i - 1] > 0 THEN depth[i - 1] - 1
        ELSE depth[i - 1]
  IN  depth

(* The lines outside of every block stay. *)
RemoveBlock(c) ==
  LET depth == Depth(c.lines)
      outside == {i \in DOMAIN c.lines : c.lines[i] # "begin" /\ depth[i - 1] = 0}
  IN  [lines |-> Keep(c.lines, outside),
       nl |-> IF Len(c.lines) \in outside THEN c.nl ELSE TRUE]

IsBlank(c) == \A i \in DOMAIN c.lines : c.lines[i] \in BlankLines

-----------------------------------------------------------------------------
CliGoto(l) == cli' = [cli EXCEPT !.pc = l]
CliEnds    == cli' = CliIdle
Unedited   == UNCHANGED <<text, edited, died>>

InstallRead ==
  /\ cli.pc = "idle" /\ ~Installed(config)
  /\ cli' = [pc |-> "backup", read |-> config]
  /\ UNCHANGED <<config, backup>> /\ Unedited

MutantNeedsBackup ==   \* the wrong way round
  cli.read # NoFile /\ backup # NoFile

NeedsBackup == cli.read # NoFile /\ backup = NoFile

BackupOpen ==
  /\ cli.pc = "backup" /\ NeedsBackup
  /\ backup' = Empty
  /\ CliGoto("copy")
  /\ UNCHANGED config /\ Unedited

BackupWrite ==
  /\ cli.pc = "copy"
  /\ backup' = cli.read
  /\ CliGoto("open")
  /\ UNCHANGED config /\ Unedited

(* A backup that exists is never written again, complete or not. *)
BackupKept ==
  /\ cli.pc = "backup" /\ ~NeedsBackup
  /\ CliGoto("open")
  /\ UNCHANGED <<config, backup>> /\ Unedited

InstallOpen ==
  /\ cli.pc = "open"
  /\ config' = Empty
  /\ CliGoto("write")
  /\ UNCHANGED backup /\ Unedited

InstallWrite ==
  /\ cli.pc = "write"
  /\ config' = AddBlock(cli.read)
  /\ CliEnds
  /\ UNCHANGED backup /\ Unedited

UninstallRead ==
  /\ cli.pc = "idle" /\ Installed(config)
  /\ cli' = [pc |-> "remove", read |-> config]
  /\ UNCHANGED <<config, backup>> /\ Unedited

UninstallOpen ==
  /\ cli.pc = "remove" /\ ~IsBlank(RemoveBlock(cli.read))
  /\ config' = Empty
  /\ CliGoto("rewrite")
  /\ UNCHANGED backup /\ Unedited

UninstallWrite ==
  /\ cli.pc = "rewrite"
  /\ config' = RemoveBlock(cli.read)
  /\ CliEnds
  /\ UNCHANGED backup /\ Unedited

(* Nothing but white space would be left. *)
UninstallUnlink ==
  /\ cli.pc = "remove" /\ IsBlank(RemoveBlock(cli.read))
  /\ config' = NoFile
  /\ CliEnds
  /\ UNCHANGED backup /\ Unedited

CliDies ==
  /\ cli.pc # "idle" /\ died < MaxDeaths
  /\ CliEnds
  /\ died' = died + 1
  /\ UNCHANGED <<config, backup, text, edited>>

(* Kimi or a person adds a line outside the block, before or after it. *)
Edit(l, before) ==
  /\ cli.pc \notin {"copy", "write", "rewrite"} /\ Len(text) < MaxText
  /\ config' = IF before THEN [lines |-> <<l>> \o Lines(config),
                               nl |-> config = NoFile \/ config.nl]
               ELSE [lines |-> Append(Lines(config), l), nl |-> TRUE]
  /\ text' = IF before THEN <<l>> \o text ELSE Append(text, l)
  /\ edited' = IF cli.pc # "idle" \/ edited = "during" THEN "during" ELSE "between"
  /\ UNCHANGED <<backup, cli, died>>

CliGoesOn ==
  \/ BackupOpen \/ BackupWrite \/ BackupKept \/ InstallOpen \/ InstallWrite
  \/ UninstallOpen \/ UninstallWrite \/ UninstallUnlink \/ CliDies
CliStarts == InstallRead \/ UninstallRead
Edits == \E l \in UserLines, before \in BOOLEAN : Edit(l, before)

BlockNext == CliStarts \/ CliGoesOn \/ Edits

BlockSpec == BlockInit /\ [][BlockNext]_bvars

-----------------------------------------------------------------------------
Written(lines) == Only(lines, UserLines \ BlankLines)

(* Why the properties hold.  What a command works on are the lines of the  *)
(* user, with at most one block among them, and no line is missing; until  *)
(* a command is killed, whoever is about to write config.toml has a        *)
(* complete backup, if there was a file.                                   *)
Tidy(lines) ==
  LET own == Only(lines, UserLines)
      around(i) == (SubSeq(own, 1, i) \o Block) \o SubSeq(own, i + 1, Len(own))
  IN  lines = own \/ \E i \in 0 .. Len(own) : lines = around(i)

Good(c) == Written(Own(c)) = Written(text)

WorkKept ==
  /\ IF cli.pc \in {"write", "rewrite"} THEN config = Empty
     ELSE Tidy(Lines(config)) /\ Good(config)
  /\ cli.pc # "idle" => /\ Tidy(Lines(cli.read)) /\ Good(cli.read)
                        /\ Installed(cli.read) <=> cli.pc \in {"remove", "rewrite"}

BackupKnown ==
  /\ backup # NoFile /\ cli.pc # "copy" => Good(backup)
  /\ cli.pc \in {"open", "write", "remove", "rewrite"} => Good(backup)
  /\ Installed(config) => Good(backup) /\ cli.pc \notin {"backup", "copy"}

BlockInv ==
  /\ died = 0 /\ edited # "during" => WorkKept
  /\ died = 0 /\ edited = "no" => BackupKnown
  /\ died = 1 /\ edited = "no" =>
       \/ WorkKept
       \/ backup # NoFile /\ Good(backup) /\ cli.pc # "copy"

(* However often the block is installed and removed, with edits before,    *)
(* after and in between, every other line of the file is there, in order;  *)
(* without the block the file is nothing but them.  Blank lines may go     *)
(* with the file, when nothing else is left of it.                         *)
UserLinesKept ==
  cli.pc = "idle" /\ died = 0 /\ edited # "during" =>
    /\ Written(Own(config)) = Written(text)
    /\ ~Installed(config) => Lines(config) = Own(config)

(* One command killed at any point loses nothing that was there before the *)
(* first install: it is in config.toml or in the backup, or the next       *)
(* command is about to write it.                                           *)
Recoverable ==
  died <= 1 /\ edited = "no" =>
    Written(text) \in {Written(Own(c)) : c \in {config, backup, cli.read}}

(* install overwrites the file only when a complete backup holds what was  *)
(* in it before the first install, as long as no command was killed; and   *)
(* as the header of cli.py has it, always.                                 *)
BackedUpUnlessKilled ==
  [][InstallOpen /\ edited = "no" /\ died = 0 =>
       Written(Own(backup)) = Written(text)]_bvars
BackedUpFirst ==
  [][InstallOpen /\ edited = "no" => Written(Own(backup)) = Written(text)]_bvars
=============================================================================
