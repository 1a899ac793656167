------------------------------ MODULE LastCall ------------------------------
(***************************************************************************)
(* The whole hand-off: the controller together with the processes around   *)
(* it.  A Kimi TUI in the managed tmux pane reads the typed /new and       *)
(* starts sessions; each SessionStart runs a hook that freezes the new     *)
(* identity and asks the controller to adopt it (adoption.py); each Stop   *)
(* above the threshold with a fresh done marker runs a hook that takes the *)
(* session's lease and asks for an automatic hand-off (automation.py,      *)
(* handle_stop in gate.py).  A person may confirm a switch, start or       *)
(* resume a session, or change the mode; `serve` may stop and be started   *)
(* again.                                                                  *)
(*                                                                         *)
(* Kimi itself is external.  Assumed of it: it reads typed lines in order, *)
(* /new starts a session that never existed before, and a hook that runs   *)
(* too long is killed.  A dialog may swallow a typed /new (README.md,      *)
(* cache_expiry_hint).                                                     *)
(***************************************************************************)
EXTENDS Controller

CONSTANT Budget   \* bound: how often each kind of event of Kinds may happen

Kinds == {"user", "confirm", "stop", "crash", "mode"}
ASSUME BudgetIsNatural == Budget \in [Kinds -> Nat]

VARIABLES
  live,       \* the session the TUI shows
  started,    \* sessions that ever existed
  startHook,  \* per session: its SessionStart hook
  hook,       \* the Stop-hook processes
  fresh,      \* sessions whose done marker is not older than the demand
  budget

seatVars == <<live, started, startHook>>
stopVars == <<hook, fresh>>
vars == <<cvars, seatVars, stopVars, budget>>

HookOff == [pc |-> "off", session |-> None, queued |-> 0]

HookProgress == [pc: {"off", "leased", "waiting", "accepted"},
                 session: Sessions \cup {None}, queued: Nat]

TypeOK ==
  /\ ControllerTypeOK
  /\ live \in Sessions \cup {None}
  /\ started \subseteq Sessions
  /\ startHook \in [Sessions -> {"off", "fired", "created", "frozen"}]
  /\ hook \in [Hooks -> HookProgress]
  /\ fresh \subseteq Sessions
  /\ budget \in [Kinds -> Nat]

Init ==
  /\ ControllerInit
  /\ live = None /\ started = {}
  /\ startHook = [s \in Sessions |-> "off"]
  /\ hook = [h \in Hooks |-> HookOff]
  /\ fresh = {}
  /\ budget = Budget

Spend(k) == budget[k] > 0 /\ budget' = [budget EXCEPT ![k] = @ - 1]

-----------------------------------------------------------------------------
(* The seat. *)

Appear(s) ==
  /\ live' = s
  /\ started' = started \cup {s}
  /\ startHook' = [startHook EXCEPT ![s] = "fired"]

KimiNew(s) ==
  /\ typed > 0 /\ s \notin started
  /\ typed' = typed - 1
  /\ Appear(s)
  /\ UNCHANGED <<diskVars, marked, mode, processVars, leased, history, stopVars, budget>>

(* A dialog, or no TUI in the pane: the line is lost. *)
KimiIgnores ==
  /\ typed > 0
  /\ typed' = typed - 1
  /\ UNCHANGED <<diskVars, marked, mode, processVars, leased, history, seatVars, stopVars, budget>>

(* A person starts Kimi, types /new or resumes an old session in the seat. *)
UserSwitches(s) ==
  /\ s # live
  /\ Spend("user")
  /\ Appear(s)
  /\ UNCHANGED <<cvars, stopVars>>

(* The agent, or the person, finishes the hand-off letter of a session. *)
MarkDone(s) ==
  /\ s \in {binding, live} \ {None} /\ s \notin marked \cap fresh
  /\ CreateMarker(s)
  /\ fresh' = fresh \cup {s}
  /\ UNCHANGED <<seatVars, hook, budget>>

-----------------------------------------------------------------------------
(***************************************************************************)
(* The SessionStart hook of session s: _freeze_pending and _post_adoption. *)
(***************************************************************************)
StartGoto(s, l) == startHook' = [startHook EXCEPT ![s] = l] /\ UNCHANGED <<live, started>>

FreezeCreate(s) ==
  /\ startHook[s] = "fired" /\ pending = None
  /\ pending' = Torn
  /\ StartGoto(s, "created")
  /\ UNCHANGED <<binding, switch, receipt, request, marked, mode, processVars, typed,
                 leased, history, stopVars, budget>>

FreezeWrite(s) ==
  /\ startHook[s] = "created"
  /\ pending' = s
  /\ StartGoto(s, "frozen")
  /\ UNCHANGED <<binding, switch, receipt, request, marked, mode, processVars, typed,
                 leased, history, stopVars, budget>>

(* FileExistsError, and the file names this very session. *)
FreezeFound(s) ==
  /\ startHook[s] = "fired" /\ pending = s
  /\ StartGoto(s, "frozen")
  /\ UNCHANGED <<cvars, stopVars, budget>>

(* FileExistsError, and the file names another session or is unreadable. *)
FreezeConflict(s) ==
  /\ startHook[s] = "fired" /\ pending \notin {None, s}
  /\ StartGoto(s, "off")
  /\ UNCHANGED <<cvars, stopVars, budget>>

(* Seat not proved, killed: the pending file stays as it is. *)
StartHookFails(s) ==
  /\ startHook[s] # "off"
  /\ StartGoto(s, "off")
  /\ UNCHANGED <<cvars, stopVars, budget>>

PostAdoption(s) ==
  /\ startHook[s] = "frozen" /\ serve = "up"
  /\ StartGoto(s, "off")
  /\ AdoptBegin(s)
  /\ UNCHANGED <<adoptRest, binding, pending, switch, receipt, serve, receipts, stopVars, budget>>

(* No controller listens, or 409 session_adoption_locked: adopt() does not  *)
(* wait for the lock.                                                       *)
AdoptionRefused(s) ==
  /\ startHook[s] = "frozen"
  /\ serve # "up" \/ LockMayBeHeld
  /\ StartGoto(s, "off")
  /\ UNCHANGED <<cvars, stopVars, budget>>

-----------------------------------------------------------------------------
(***************************************************************************)
(* The Stop hook h of session s, above the threshold, its marker fresh.    *)
(***************************************************************************)
HookGoto(h, l) == hook' = [hook EXCEPT ![h].pc = l]
Exit(h) ==
  /\ hook' = [hook EXCEPT ![h] = HookOff]
  /\ leased' = leased \ {hook[h].session}

StopHook(h, s) ==
  /\ hook[h].pc = "off" /\ srv[h].pc = "idle"
  /\ s = live /\ s \in fresh /\ mode = "automatic" /\ s \notin leased
  /\ Spend("stop")
  /\ leased' = leased \cup {s}
  /\ hook' = [hook EXCEPT ![h] = [pc |-> "leased", session |-> s, queued |-> 0]]
  /\ UNCHANGED <<diskVars, marked, mode, processVars, typed, history, seatVars, fresh>>

(* Manual mode: the stop is released and the marker consumed. *)
StopReleased(s) ==
  /\ s = live /\ s \in fresh /\ mode = "manual"
  /\ Spend("stop")
  /\ fresh' = fresh \ {s}
  /\ UNCHANGED <<cvars, seatVars, hook>>

PostSignal(h) ==
  /\ hook[h].pc = "leased" /\ serve = "up"
  /\ HookGoto(h, "waiting")
  /\ srv' = [srv EXCEPT ![h] = [pc |-> "arrived", session |-> hook[h].session, id |-> 0]]
  /\ UNCHANGED <<diskVars, marked, mode, serve, loaded, lock, sw, wk, adopt, typed,
                 leased, history, seatVars, fresh, budget>>

(* No controller listens, or it refused: fail open, the marker not consumed. *)
HookRefused(h) ==
  /\ \/ hook[h].pc = "leased" /\ serve # "up"
     \/ hook[h].pc = "waiting" /\ srv[h].pc = "idle"
  /\ Exit(h)
  /\ UNCHANGED <<diskVars, marked, mode, processVars, typed, history, seatVars, fresh, budget>>

(* Killed, or the wait for the reply is too long; the kernel drops the lease. *)
HookFails(h) ==
  /\ hook[h].pc # "off"
  /\ Exit(h)
  /\ UNCHANGED <<diskVars, marked, mode, processVars, typed, history, seatVars, fresh, budget>>

(* The reply is read, consume_marker makes the marker stale, the hook exits. *)
HookDone(h) ==
  /\ hook[h].pc = "accepted"
  /\ fresh' = fresh \ {hook[h].session}
  /\ Exit(h)
  /\ UNCHANGED <<diskVars, marked, mode, processVars, typed, history, seatVars, budget>>

(* The controller's side; a hook that still waits learns the outcome. *)
Queued(h) ==
  /\ QueueNew(h)
  /\ hook' = IF hook[h].pc = "waiting" THEN [hook EXCEPT ![h].queued = NextId] ELSE hook
  /\ UNCHANGED <<seatVars, fresh, budget>>

Answered(h) ==
  /\ Reply(h)
  /\ hook' = IF hook[h].pc = "waiting" THEN [hook EXCEPT ![h].pc = "accepted"] ELSE hook
  /\ UNCHANGED <<seatVars, fresh, budget>>

HungUp(h) ==
  /\ hook[h].pc # "waiting"
  /\ ReplyLost(h)
  /\ UNCHANGED <<seatVars, stopVars, budget>>

HandleSignal(h) ==
  \/ QueueBegin(h) \/ QueueRefusedEarly(h) \/ QueueAgain(h) \/ QueueRefused(h) \/ StartWorker(h)

-----------------------------------------------------------------------------
Alone == UNCHANGED <<seatVars, stopVars, budget>>

ConfirmStep(t) == Confirm(t) /\ Spend("confirm") /\ UNCHANGED <<seatVars, stopVars>>
CrashStep      == Crash /\ Spend("crash") /\ UNCHANGED <<seatVars, stopVars>>
ModeStep(m)    == SetMode(m) /\ Spend("mode") /\ UNCHANGED <<seatVars, stopVars>>

StartHooks ==
  \E s \in Sessions :
    \/ FreezeCreate(s) \/ FreezeWrite(s) \/ FreezeFound(s) \/ FreezeConflict(s)
    \/ PostAdoption(s) \/ AdoptionRefused(s)

SignalThread(h) ==
  \/ Queued(h) \/ Answered(h) \/ HungUp(h)
  \/ HandleSignal(h) /\ Alone

Process ==
  \/ \E t \in Threads : ExecuteSwitch(t) /\ Alone
  \/ \E t \in Confirmers : ConfirmReply(t) /\ Alone
  \/ \E h \in Hooks : SignalThread(h)
  \/ (Work \/ Adopt \/ BootStart \/ BootResume) /\ Alone

StopHooks ==
  \/ \E s \in Sessions : StopReleased(s)
  \/ \E h \in Hooks :
       \/ \E s \in Sessions : StopHook(h, s)
       \/ PostSignal(h) \/ HookRefused(h) \/ HookDone(h)

People ==
  \/ \E s \in Sessions : UserSwitches(s) \/ MarkDone(s)
  \/ CrashStep
  \/ \E t \in Confirmers : ConfirmStep(t)
  \/ \E m \in Modes : ModeStep(m)

(* What goes wrong around the controller: dialogs, hooks, artifacts, callback. *)
Faults ==
  \/ KimiIgnores
  \/ \E s \in Sessions : StartHookFails(s)
  \/ \E h \in Hooks : HookFails(h)
  \/ AdoptFails /\ Alone

Cooperative ==
  \/ \E s \in Sessions : KimiNew(s)
  \/ StartHooks \/ StopHooks \/ Process \/ People

Next == Cooperative \/ Faults

Spec == Init /\ [][Next]_vars

-----------------------------------------------------------------------------
(***************************************************************************)
(* Safety of what is on disk.                                              *)
(***************************************************************************)

(* A switch marker always names the session being left: it is the bound    *)
(* one, or the bound one is the new session whose adoption has begun and   *)
(* is still frozen in the pending file, so that a restart completes it.    *)
SwitchNamesBinding ==
  switch \in Switches => binding = switch.old \/ (binding # None /\ pending = binding)

(* With no switch in progress, the completed receipt names the bound       *)
(* session: adopt() writes binding, receipt, marker in an order that no    *)
(* crash between two of them can betray.                                   *)
ReceiptNamesBinding ==
  switch = None /\ receipt # None /\ receipt.completed => binding = receipt.new

(* The O_EXCL creation of the marker never meets a file: the lock is held  *)
(* from the check to the creation, so `switch_already_in_progress` is only *)
(* raised for a second process.                                            *)
SwitchCreateIsExclusive ==
  \A t \in Threads : sw[t].pc = "create" => switch = None

(* An automatic request is only recorded as completed when an automatic    *)
(* switch away from its session was adopted (run_auto_handoff_worker after *)
(* a restart, or the poll of _execute_switch, which compares no id).       *)
AutoCompletedWasAdopted ==
  request # None /\ request.status = "completed" =>
    \E r \in receipts : r.completed /\ r.old = request.session /\ r.source = "automatic_relay"

(* _execute_switch returns `completed` only for its own operation, though  *)
(* the receipt it reads may by then be another one's.                      *)
CompletedIsOwn ==
  \A t \in Threads : sw[t].pc = "completed" =>
    \E r \in receipts : r.completed /\ r.op = sw[t].op

(* A switch marker only disappears once the receipt of that very operation *)
(* has been written, completed or failed.                                  *)
SwitchEndHasReceipt ==
  [][switch' = None /\ switch \in Switches => (\E r \in receipts : r.op = switch.op)]_vars

(* A bound session is only replaced under a switch marker that names it as *)
(* the one to leave (adopt: unrequested_session_change).                   *)
BindingMovesOnlyUnderSwitch ==
  [][binding # None /\ binding' # binding =>
       switch \in Switches /\ switch.old = binding]_vars

(* The frozen SessionStart identity is only removed when that session is   *)
(* bound and no marker is left (README.md: fail closed, preserve pending). *)
PendingClearedWhenBound ==
  [][pending # pending' /\ pending \in Sessions =>
       pending' = None /\ binding = pending /\ switch = None]_vars

-----------------------------------------------------------------------------
(***************************************************************************)
(* Why: the inductive invariant.  Who is in a section under the lock owns  *)
(* it; a running step knows its session; and what the owner of the lock    *)
(* read before still holds when it writes.                                 *)
(***************************************************************************)
LockInv ==
  /\ \A t \in Threads : sw[t].pc \in {"create", "write", "drop"} => lock = t
  /\ \A h \in Hooks : srv[h].pc = "locked" => lock = h
  /\ adopt.pc # "off" => lock = Adopter

SessionInv ==
  /\ \A t \in Threads : sw[t].pc \notin {"idle"} \cup Returned => sw[t].old \in Sessions
  /\ wk.pc # "none" => wk.session \in Sessions
  /\ wk.pc = "finish" => wk.verdict \in Final
  /\ \A h \in Hooks : srv[h].pc # "idle" => srv[h].session \in Sessions
  /\ \A h \in Hooks : hook[h].pc # "off" => hook[h].session \in Sessions
  /\ adopt.pc # "off" => adopt.session \in Sessions

SwitchInv ==
  \A t \in Threads :
    /\ sw[t].pc = "create" => switch = None /\ binding = sw[t].old
    /\ sw[t].pc = "write"  => switch = Torn /\ binding = sw[t].old
    /\ sw[t].pc = "drop"   => /\ receipt # None /\ ~receipt.completed
                             /\ \E r \in receipts : r.op = sw[t].op

(* At most one SessionStart hook is writing the pending file it created. *)
FreezeInv ==
  /\ \A s \in Sessions : startHook[s] = "created" => pending = Torn
  /\ \A s, z \in Sessions : startHook[s] = "created" /\ startHook[z] = "created" => s = z

AdoptInv ==
  /\ adopt.pc \notin {"off", "verify"} => pending = adopt.session
  /\ adopt.pc \in {"save", "callback", "receipt", "unswitch"} => switch = adopt.switch
  /\ adopt.pc = "save" => MayAdopt(adopt.session, switch)
  /\ adopt.pc \in {"callback", "receipt", "unswitch", "clear"} => binding = adopt.session
  /\ adopt.pc \in {"receipt", "unswitch"} => switch \in Switches
  /\ adopt.pc = "clear" => switch = None
  /\ adopt.pc = "unswitch" => /\ receipt # None /\ receipt.completed /\ receipt.new = binding
                             /\ \E r \in receipts : r.op = switch.op

DiskInv ==
  /\ SwitchNamesBinding
  /\ ReceiptNamesBinding
  /\ receipt # None /\ receipt.completed => receipt.new # None

SafetyInv == LockInv /\ SessionInv /\ SwitchInv /\ FreezeInv /\ AdoptInv /\ DiskInv

-----------------------------------------------------------------------------
(***************************************************************************)
(* The state directory, seen as the abstract rollover: while a marker is   *)
(* on disk its old session still counts as bound, and the removal of the   *)
(* marker is the instant at which the switch ends.                         *)
(***************************************************************************)
InFlight == switch \in Switches

ASSUME NoneIsNoSwitch == None \notin [id: Nat, from: Sessions]

Abstract == INSTANCE Rollover WITH
  bound <- IF InFlight THEN switch.old ELSE binding,
  op    <- IF InFlight THEN [id |-> switch.op, from |-> switch.old] ELSE None,
  begun <- IF switch = Torn THEN ops - 1 ELSE ops,
  done  <- {[id |-> r.op, from |-> r.old, to |-> r.new] :
              r \in {q \in receipts : q.completed /\ ~(InFlight /\ q.op = switch.op)}}

(* Whatever the threads, hooks and crashes do, the state directory behaves *)
(* like Rollover.                                                          *)
RefinesRollover == Abstract!Spec

(* The two files that are created with O_EXCL: the frozen identity, and    *)
(* the marker, seen as the session it names.                               *)
Created == INSTANCE PrivateFile WITH
  Files <- {"pending", "switch"}, Replaced <- {}, Values <- Sessions,
  file <- [f \in {"pending", "switch"} |->
             IF f = "pending" THEN pending ELSE IF InFlight THEN switch.old ELSE switch]

(* Hooks, threads and adopt() do with them what a PrivateFile allows: a    *)
(* file is created when there is none, never overwritten when complete,    *)
(* and never removed while it is torn; they never change both at once.     *)
RefinesCreatedFiles == Created!Spec

-----------------------------------------------------------------------------
(***************************************************************************)
(* Why a result is credited to the right operation: an operation id is     *)
(* used once; while a thread waits, its marker is there or its receipt was *)
(* written; and a completed receipt is written for a marker once, whoever  *)
(* completes the adoption, and only by the one who then removes it.        *)
(***************************************************************************)
Waiting == {"send", "senderr", "poll", "check"}
Open(t) == sw[t].pc \in Waiting \cup {"drop"}

OpInv ==
  /\ receipt # None => receipt \in receipts
  /\ \A r \in receipts : r.op <= ops /\ (switch = Torn => r.op < ops)
  /\ switch \in Switches => switch.op <= ops
  /\ \A t \in Threads :
       /\ sw[t].pc = "write" => sw[t].op = ops
       /\ Open(t) => sw[t].op <= ops /\ (switch = Torn => sw[t].op < ops)
  /\ \A t, u \in Threads : Open(t) /\ Open(u) /\ sw[t].op = sw[u].op => t = u

Adopted(t) ==
  \E r \in receipts : /\ r.completed /\ r.op = sw[t].op
                      /\ r.old = sw[t].old /\ r.source = SourceOf(t)

CreditInv ==
  /\ \A t \in Threads :
       /\ sw[t].pc \in Waiting => switch = SwitchOf(t) \/ Adopted(t)
       /\ sw[t].pc = "completed" => Adopted(t)
  /\ adopt.pc \in {"callback", "receipt", "unswitch"} /\ adopt.switch # None =>
       adopt.switch.old # adopt.session
  /\ adopt.pc = "unswitch" => receipt = Completed(switch, binding)
  /\ switch \in Switches => \A r \in receipts : r.completed /\ r.op = switch.op =>
       /\ r = Completed(switch, binding)
       /\ binding # switch.old /\ pending = binding
       /\ adopt.pc = "unswitch" \/ \A t \in Threads : Open(t) => sw[t].op # switch.op

(***************************************************************************)
(* Why the worker acts for its own request: an id is given once, and who   *)
(* knows it knows its session; the worker that has claimed a request has   *)
(* it to itself, and runs the switch that is its own; what it typed for is *)
(* final when it ends.  serve has no thread before the port is bound.      *)
(***************************************************************************)
KnowsRequest(i, s) ==
  /\ request # None /\ i \in 1..request.id
  /\ i = request.id => s = request.session

RequestInv ==
  /\ request # None => request.id > 0
  /\ \A h \in Hooks : srv[h].pc \in {"reply", "start"} => KnowsRequest(srv[h].id, srv[h].session)
  /\ wk.pc # "none" => KnowsRequest(wk.id, wk.session)
  /\ (\/ wk.pc \in {"inspect", "moved", "stayed", "judge", "run", "switching"}
      \/ wk.pc = "finish" /\ wk.verdict # "failed_closed") =>
       OwnRequest /\ request.status \in Active
  /\ sw[Worker].pc # "idle" => wk.pc = "switching" /\ sw[Worker].old = wk.session
  /\ wk.pc = "finish" /\ wk.verdict = "completed" =>
       \E r \in receipts : r.completed /\ r.old = wk.session /\ r.source = "automatic_relay"
  /\ AutoCompletedWasAdopted

ServeInv ==
  /\ serve # "up" => /\ \A t \in Threads : sw[t].pc = "idle"
                     /\ \A h \in Hooks : srv[h].pc = "idle"
                     /\ wk.pc = "none"
  /\ sw[Worker].pc \in {"create", "write", "send"} => loaded = "automatic"

LeaseInv ==
  /\ \A h \in Hooks :
       /\ hook[h].pc # "off" => hook[h].session \in leased
       /\ hook[h].pc = "waiting" /\ srv[h].pc # "idle" => srv[h].session = hook[h].session
       /\ hook[h].queued # 0 => /\ hook[h].pc # "off"
                                /\ KnowsRequest(hook[h].queued, hook[h].session)
       /\ hook[h].queued # 0 /\ wk.pc # "none" /\ wk.id = hook[h].queued =>
            wk.session = hook[h].session /\ wk.pc \in {"lease", "finish", "clear"}
  /\ \A h, g \in Hooks :
       /\ hook[h].pc # "off" /\ hook[g].pc # "off" /\ hook[h].session = hook[g].session => h = g
       /\ hook[h].queued # 0 /\ srv[g].pc \in {"reply", "start"} /\ srv[g].id = hook[h].queued =>
            srv[g].session = hook[h].session

TypedInv ==
  /\ budget["crash"] <= Budget["crash"]
  /\ budget["crash"] = Budget["crash"] =>
       \A i \in sent :
         /\ request # None /\ i <= request.id
         /\ i = request.id =>
              \/ request.status \in Final
              \/ /\ wk.id = i
                 /\ \/ wk.pc = "finish"
                    \/ wk.pc = "switching" /\ sw[Worker].pc \notin {"begin", "create", "write", "send"}

OwnershipInv == OpInv /\ CreditInv /\ RequestInv /\ ServeInv /\ LeaseInv /\ TypedInv

-----------------------------------------------------------------------------
(***************************************************************************)
(* When /new is typed.                                                     *)
(***************************************************************************)
Types(t) == typed' = typed + 1 /\ sw'[t] # sw[t]

(* The worker never types /new while the hook that queued the request is   *)
(* alive.                                                                  *)
TypedAfterQueuingHook ==
  [][Types(Worker) => (\A h \in Hooks : hook[h].queued # wk.id)]_vars

(* A controller that loaded the manual mode types nothing on its own, not  *)
(* even for a request queued before it was restarted.                      *)
ManualNeverTypesAlone ==
  [][Types(Worker) => loaded = "automatic"]_vars

(* /new is typed at most once for an automatic request. *)
TypedOncePerRequest ==
  [][Types(Worker) => wk.id \notin sent]_vars

(* As long as `serve` is not restarted that is so, though a second hook may *)
(* be answered already_queued and have a worker of its own started.        *)
TypedOnceUnlessRestarted ==
  [][Types(Worker) /\ budget["crash"] = Budget["crash"] => wk.id \notin sent]_vars

(* A request that reached a final status keeps it. *)
FinalStaysFinal ==
  [][request # None /\ request.status \in Final /\ request'.id = request.id
       => request'.status = request.status]_vars

(* What does hold: a worker that comes late for a request may only turn its *)
(* final status into a failure.  What was recorded as failed, or left to   *)
(* manual recovery, is never declared successful (README.md:179), nor made *)
(* active again.                                                           *)
FinalMayOnlyFail ==
  [][request # None /\ request.status \in Final /\ request'.id = request.id
       => request'.status \in {request.status, "failed_closed"}]_vars

-----------------------------------------------------------------------------
(***************************************************************************)
(* Liveness.  Fairness of `serve`: its threads run, the poll loop reads    *)
(* the clock in every round (so its deadline is met however often it is    *)
(* also in the middle of a round), and a supervisor starts it (README.md). *)
(***************************************************************************)
ServeFairness ==
  /\ \A t \in Threads : WF_vars(ExecuteSwitch(t) /\ Alone) /\ SF_vars(PollTimeout(t) /\ Alone)
  /\ \A h \in Hooks : WF_vars(SignalThread(h))
  /\ WF_vars(Work /\ Alone)
  /\ WF_vars(Adopt /\ Alone)
  /\ WF_vars((BootStart \/ BootResume) /\ Alone)

FairSpec == Spec /\ ServeFairness

(* Nothing goes wrong around the controller, it is started before Kimi is  *)
(* (README.md: the order matters), and Kimi and the hooks run as well.     *)
CooperativeSpec ==
  /\ Init
  /\ [][Cooperative /\ (live = None /\ live' # None => serve = "up")]_vars
  /\ ServeFairness
  /\ \A s \in Sessions : WF_vars(KimiNew(s))
  /\ \A s \in Sessions : WF_vars(FreezeCreate(s) \/ FreezeWrite(s) \/ FreezeFound(s)
                                 \/ FreezeConflict(s) \/ PostAdoption(s) \/ AdoptionRefused(s))
  /\ \A h \in Hooks : WF_vars(PostSignal(h) \/ HookRefused(h) \/ HookDone(h))

(* The lock is always released again. *)
LockIsReleased == []<>(lock = None)

(* Every worker ends, so that the next one can start. *)
WorkerEnds == []<>(wk.pc = "none")

(* The frozen identity of a session that no one is about to adopt: it waits *)
(* for the next start of `serve`.                                           *)
LeftForRestart ==
  pending \in Sessions /\ startHook[pending] = "off" /\ adopt.pc = "off"

(* A switch, confirmed or automatic, for which /new is about to be typed    *)
(* ends while `serve` is up: the new session is adopted, before or after    *)
(* the poll has timed out, or the failure is recorded.  The one exception   *)
(* leaves its evidence on disk: a SessionStart that was refused, because    *)
(* another request had the lock at that instant or an older session was     *)
(* frozen first, leaves a frozen identity for the next start to adopt.      *)
SwitchSettles ==
  \A t \in Threads :
    sw[t].pc = "send" ~> switch = None \/ LeftForRestart \/ serve # "up"

(* A queued request that no worker has and no thread is about to start one  *)
(* for: the hook was gone at the 202, or the last worker was still ending.  *)
Unattended ==
  /\ request # None /\ request.status = "queued"
  /\ wk.pc = "none"
  /\ \A h \in Hooks : srv[h].pc \in {"reply", "start"} => srv[h].id # request.id

(* While `serve` is up an automatic request reaches a final status, or it   *)
(* is left queued, with nothing done for it; and every request that a start *)
(* of `serve` finds reaches one, since resume_auto_handoff takes it up.     *)
RequestSettles ==
  /\ []<>(~RequestIsActive \/ Unattended \/ serve # "up")
  /\ RequestIsActive /\ serve = "bind" ~> ~RequestIsActive \/ serve = "down"

(* After a restart with a marker on disk the panel comes back.             *)
PanelComesBack == switch \in Switches /\ serve # "up" ~> serve = "up"

(* A queued request is taken up by a worker. *)
QueuedIsServed == request # None /\ request.status = "queued"
                    ~> request # None /\ request.status # "queued"
=============================================================================
