----------------------------- MODULE Controller -----------------------------
(***************************************************************************)
(* The last-call controller: the private state directory it keeps on disk  *)
(* and the `serve` process that works on it (controller.py, web.py).  The  *)
(* process has one lock and several threads: an HTTP thread per confirm    *)
(* request, one background worker for automatic hand-offs, an HTTP thread  *)
(* per Stop hook, and whoever runs adopt() (a SessionStart request, or     *)
(* the start-up code before the port is bound).                            *)
(*                                                                         *)
(* Abstractions.  A session is a model value and stands for its identity,  *)
(* digest, cwd and artifacts.  Tokens of operations and requests are       *)
(* numbers.  What a step reads from outside the state directory (tmux,     *)
(* hand-off files, token usage, session artifacts) may fail at any time,   *)
(* so every step that reads it also has an outcome for failure.  A         *)
(* replacing write is one step (os.replace is atomic); an exclusive write  *)
(* is two, the file being Torn in between.  Input/output errors of the     *)
(* state directory itself are not modelled.                                *)
(***************************************************************************)
EXTENDS Naturals, FiniteSets

CONSTANTS
  Sessions,     \* Kimi session ids
  Confirmers,   \* HTTP threads that may run confirm()
  Hooks,        \* Stop-hook processes, each served by an HTTP thread
  Worker,       \* the kimi-lastcall-auto-handoff thread
  Adopter,      \* the thread that runs adopt()
  None,         \* no file, no session, no owner
  Torn,         \* a file created by O_EXCL whose content is not complete
  ConfiguredModes, \* bound: what `configure --switch-mode` may have chosen
  MaxOps,       \* bound: operation ids created
  MaxRequests   \* bound: automatic requests persisted

Threads == Confirmers \cup {Worker}
Owners  == Threads \cup Hooks \cup {Adopter}

Modes   == {"manual", "automatic"}
Sources == {"human_confirmed", "automatic_relay"}
Active  == {"queued", "waiting_for_stop", "running"}
Final   == {"completed", "failed_closed", "manual_recovery_required", "superseded"}

Switches == [op: Nat, old: Sessions, source: Sources]
Receipts == [op: Nat, old: Sessions, new: Sessions \cup {None},
             completed: BOOLEAN, source: Sources]
Requests == [id: Nat, session: Sessions, status: Active \cup Final]

(* The three kinds of values are told apart, and so are the threads. *)
ASSUME BoundsAreSound ==
  MaxOps \in Nat /\ MaxRequests \in Nat /\ ConfiguredModes \subseteq Modes
ASSUME NoneAndTornAreNoData ==
  /\ None # Torn
  /\ None \notin Sessions \cup Switches \cup Receipts \cup Requests \cup Owners
  /\ Torn \notin Sessions \cup Switches
ASSUME OwnersAreDistinct ==
  /\ Worker \notin Confirmers \cup Hooks
  /\ Adopter \notin Threads \cup Hooks
  /\ Confirmers \cap Hooks = {}

VARIABLES
  \* the state directory and config.json
  binding,   \* bound session
  pending,   \* SessionStart identity frozen by the hook
  switch,    \* switch-in-progress marker
  receipt,   \* last receipt
  request,   \* automatic request
  marked,    \* sessions whose done marker exists
  mode,      \* switch_mode in config.json
  \* the serve process
  serve,     \* life cycle: down, reconcile, bind, up
  loaded,    \* the switch_mode it loaded
  lock,      \* owner of Controller._lock
  sw,        \* per thread: its progress in _execute_switch
  wk,        \* its progress in run_auto_handoff_worker
  srv,       \* per Stop hook: the HTTP thread that serves it
  adopt,     \* progress of adopt()
  \* outside
  typed,     \* `/new` lines typed into the pane and not yet read by Kimi
  leased,    \* sessions whose lease file a Stop hook has flocked
  \* history
  ops,       \* operation ids created so far
  receipts,  \* every receipt ever written
  sent       \* requests for which the worker typed /new

diskVars    == <<binding, pending, switch, receipt, request>>
processVars == <<serve, loaded, lock, sw, wk, srv, adopt>>
history     == <<ops, receipts, sent>>
swRest      == <<marked, mode, serve, loaded, wk, srv, adopt, leased>>
cvars == <<diskVars, marked, mode, processVars, typed, leased, history>>

SwitchIdle == [pc |-> "idle", old |-> None, op |-> 0]
WorkerIdle == [pc |-> "none", id |-> 0, session |-> None, verdict |-> "none"]
ServerIdle == [pc |-> "idle", session |-> None, id |-> 0]
AdoptIdle  == [pc |-> "off", session |-> None, switch |-> None]

Returned == {"completed", "failed", "timeout"}   \* ends of _execute_switch

SwitchProgress == [pc: {"idle", "begin", "create", "write", "send", "senderr",
                        "drop", "poll", "check"} \cup Returned,
                   old: Sessions \cup {None}, op: Nat]
WorkerProgress == [pc: {"none", "lease", "claim", "inspect", "moved", "stayed", "judge",
                        "run", "switching", "finish", "clear"},
                   id: Nat, session: Sessions \cup {None}, verdict: Final \cup {"none"}]
ServerProgress == [pc: {"idle", "arrived", "locked", "reply", "start"},
                   session: Sessions \cup {None}, id: Nat]
AdoptProgress  == [pc: {"off", "verify", "save", "callback", "receipt", "unswitch", "clear"},
                   session: Sessions \cup {None}, switch: Switches \cup {None}]

ControllerTypeOK ==
  /\ binding \in Sessions \cup {None}
  /\ pending \in Sessions \cup {None, Torn}
  /\ switch  \in Switches \cup {None, Torn}
  /\ receipt \in Receipts \cup {None}
  /\ request \in Requests \cup {None}
  /\ marked \subseteq Sessions
  /\ mode \in Modes /\ loaded \in Modes
  /\ serve \in {"down", "reconcile", "bind", "up"}
  /\ lock \in Owners \cup {None}
  /\ sw \in [Threads -> SwitchProgress]
  /\ wk \in WorkerProgress
  /\ srv \in [Hooks -> ServerProgress]
  /\ adopt \in AdoptProgress
  /\ typed \in Nat
  /\ leased \subseteq Sessions
  /\ ops \in Nat
  /\ receipts \subseteq Receipts
  /\ sent \subseteq Nat

ControllerInit ==
  /\ binding = None /\ pending = None /\ switch = None /\ receipt = None /\ request = None
  /\ marked = {} /\ mode \in ConfiguredModes
  /\ serve = "down" /\ loaded = mode /\ lock = None
  /\ sw = [t \in Threads |-> SwitchIdle]
  /\ wk = WorkerIdle
  /\ srv = [h \in Hooks |-> ServerIdle]
  /\ adopt = AdoptIdle
  /\ typed = 0 /\ leased = {}
  /\ ops = 0 /\ receipts = {} /\ sent = {}

(* The definitions named Mutant... are mistakes one could make in the      *)
(* definition that follows; each breaks a property of a run.               *)
MutantStatusReady ==   \* a switch in progress is no blocker
  binding # None /\ pending = None /\ binding \in marked

(***************************************************************************)
(* status(): the blockers that decide ready_to_switch.  A Torn file is     *)
(* unreadable and makes status() raise, which refuses just the same.       *)
(***************************************************************************)
StatusReady ==
  /\ binding # None
  /\ pending = None
  /\ switch = None
  /\ binding \in marked

(* with self._lock: and its release; a thread holds nothing else. *)
Take(o)  == lock = None /\ lock' = o
Pass     == lock = None /\ UNCHANGED lock     \* a section of one step
Free(o)  == lock = o /\ lock' = None

(* Someone is in, or may enter and leave within, a section under the lock. *)
LockMayBeHeld ==
  \/ lock # None
  \/ wk.pc \in {"claim", "run", "finish", "clear"}
  \/ \E h \in Hooks: srv[h].pc = "start"
  \/ \E t \in Threads: sw[t].pc \in {"begin", "senderr"}

-----------------------------------------------------------------------------
(***************************************************************************)
(* _execute_switch, run by a confirm thread or by the worker.              *)
(***************************************************************************)
SourceOf(t)  == IF t = Worker THEN "automatic_relay" ELSE "human_confirmed"
SwitchOf(t)  == [op |-> sw[t].op, old |-> sw[t].old, source |-> SourceOf(t)]
Failed(w)    == [op |-> w.op, old |-> w.old, new |-> None,
                 completed |-> FALSE, source |-> w.source]
Completed(w, s) == [op |-> w.op, old |-> w.old, new |-> s,
                    completed |-> TRUE, source |-> w.source]

Goto(t, l) == sw' = [sw EXCEPT ![t].pc = l]

WriteReceipt(r) == receipt' = r /\ receipts' = receipts \cup {r}

(* confirm(): a person previewed the phrase of the bound session and sends it. *)
Confirm(t) ==
  /\ serve = "up" /\ sw[t].pc = "idle" /\ binding # None
  /\ sw' = [sw EXCEPT ![t] = [pc |-> "begin", old |-> binding, op |-> 0]]
  /\ UNCHANGED <<swRest, diskVars, lock, typed, history>>

(* The confirm request is answered, whatever its outcome. *)
ConfirmReply(t) ==
  /\ sw[t].pc \in Returned
  /\ sw' = [sw EXCEPT ![t] = SwitchIdle]
  /\ UNCHANGED <<swRest, diskVars, lock, typed, history>>

MutantPreflight(t) ==   \* the mode was only checked when the request was queued
  StatusReady /\ binding = sw[t].old

Preflight(t) ==
  /\ StatusReady
  /\ binding = sw[t].old
  /\ t = Worker => loaded = "automatic"

ExecuteSwitchBegin(t) ==
  /\ sw[t].pc = "begin" /\ ops < MaxOps
  /\ Take(t)
  /\ Preflight(t)
  /\ Goto(t, "create")
  /\ UNCHANGED <<swRest, diskVars, typed, history>>

(* The lock is busy, or a check fails: nothing was written. *)
ExecuteSwitchRefused(t) ==
  /\ sw[t].pc = "begin"
  /\ Goto(t, "failed")
  /\ UNCHANGED <<swRest, diskVars, lock, typed, history>>

(* O_EXCL creation.  SwitchCreateIsExclusive shows that it never finds a file. *)
ExecuteSwitchCreate(t) ==
  /\ sw[t].pc = "create" /\ switch = None
  /\ switch' = Torn
  /\ ops' = ops + 1
  /\ sw' = [sw EXCEPT ![t].pc = "write", ![t].op = ops + 1]
  /\ UNCHANGED <<swRest, binding, pending, receipt, request, lock, typed, receipts, sent>>

ExecuteSwitchWrite(t) ==
  /\ sw[t].pc = "write"
  /\ switch' = SwitchOf(t)
  /\ Free(t)
  /\ Goto(t, "send")
  /\ UNCHANGED <<swRest, binding, pending, receipt, request, typed, history>>

(* send_new(), without the lock.  A tmux error may come after delivery. *)
SendNew(t) ==
  /\ sw[t].pc = "send"
  /\ \E delivered, ok \in BOOLEAN :
       /\ ok => delivered
       /\ typed' = IF delivered THEN typed + 1 ELSE typed
       /\ sent'  = IF delivered /\ t = Worker THEN sent \cup {wk.id} ELSE sent
       /\ Goto(t, IF ok THEN "poll" ELSE "senderr")
  /\ UNCHANGED <<swRest, diskVars, lock, ops, receipts>>

(* except TmuxDriverError: the marker still exists, so record the failure ... *)
SendFailed(t) ==
  /\ sw[t].pc = "senderr" /\ switch # None
  /\ Take(t)
  /\ WriteReceipt(Failed(SwitchOf(t)))
  /\ Goto(t, "drop")
  /\ UNCHANGED <<swRest, binding, pending, switch, request, typed, ops, sent>>

(* ... and remove it, if it is still ours. *)
DropSwitch(t) ==
  /\ sw[t].pc = "drop"
  /\ switch' = IF switch = SwitchOf(t) THEN None ELSE switch
  /\ Free(t)
  /\ Goto(t, "failed")
  /\ UNCHANGED <<swRest, binding, pending, receipt, request, typed, history>>

(* The status() that a completed result carries raises when it meets a file *)
(* that a hook or another thread is just creating.                          *)
SettledEnds == {"completed", "failed"}

(* ... or the marker is gone: SessionStart won the race with the tmux error. *)
SendOvertaken(t) ==
  /\ sw[t].pc = "senderr" /\ switch = None
  /\ Pass
  /\ \E l \in SettledEnds :
       Goto(t, IF receipt # None /\ receipt.completed THEN l ELSE "failed")
  /\ UNCHANGED <<swRest, diskVars, typed, history>>

(* The poll loop reads the binding, then the marker and the receipt. *)
Poll(t) ==
  /\ sw[t].pc = "poll" /\ binding \notin {None, sw[t].old}
  /\ Goto(t, "check")
  /\ UNCHANGED <<swRest, diskVars, lock, typed, history>>

MutantSwitchSettled ==   \* the marker is not looked at
  receipt # None /\ receipt.completed
SwitchSettled == switch = None /\ receipt # None /\ receipt.completed

PollCheck(t) ==
  /\ sw[t].pc = "check"
  /\ \E l \in SettledEnds : Goto(t, IF SwitchSettled THEN l ELSE "poll")
  /\ UNCHANGED <<swRest, diskVars, lock, typed, history>>

MutantPollTimeout(t) ==   \* no deadline once the binding moved
  /\ sw[t].pc = "poll" /\ binding = sw[t].old
  /\ Goto(t, "timeout")
  /\ UNCHANGED <<swRest, diskVars, lock, typed, history>>

(* switch_timeout_seconds passed; the marker stays. *)
PollTimeout(t) ==
  /\ sw[t].pc = "poll"
  /\ Goto(t, "timeout")
  /\ UNCHANGED <<swRest, diskVars, lock, typed, history>>

ExecuteSwitch(t) ==
  \/ ExecuteSwitchBegin(t) \/ ExecuteSwitchRefused(t)
  \/ ExecuteSwitchCreate(t) \/ ExecuteSwitchWrite(t)
  \/ SendNew(t) \/ SendFailed(t) \/ DropSwitch(t) \/ SendOvertaken(t)
  \/ Poll(t) \/ PollCheck(t) \/ PollTimeout(t)

-----------------------------------------------------------------------------
(***************************************************************************)
(* The automatic hand-off: queue_auto_handoff in the HTTP thread of Stop   *)
(* hook h, the reply, and run_auto_handoff_worker.                         *)
(***************************************************************************)
Serve(h, l) == srv' = [srv EXCEPT ![h].pc = l]

(* Seat and mode are checked before the lock; a busy lock is a refusal. *)
QueueBegin(h) ==
  /\ srv[h].pc = "arrived" /\ loaded = "automatic"
  /\ Take(h)
  /\ Serve(h, "locked")
  /\ UNCHANGED <<diskVars, marked, mode, serve, loaded, sw, wk, adopt, typed, leased, history>>

QueueRefusedEarly(h) ==
  /\ srv[h].pc = "arrived"
  /\ srv' = [srv EXCEPT ![h] = ServerIdle]
  /\ UNCHANGED <<diskVars, marked, mode, serve, loaded, lock, sw, wk, adopt,
                 typed, leased, history>>

RequestIsActive == request # None /\ request.status \in Active

NextId == IF request = None THEN 1 ELSE request.id + 1

(* The request is persisted before the reply. *)
QueueNew(h) ==
  /\ srv[h].pc = "locked" /\ NextId <= MaxRequests
  /\ binding = srv[h].session /\ ~RequestIsActive /\ StatusReady
  /\ Free(h)
  /\ request' = [id |-> NextId, session |-> binding, status |-> "queued"]
  /\ srv' = [srv EXCEPT ![h] = [pc |-> "reply", session |-> binding, id |-> NextId]]
  /\ UNCHANGED <<binding, pending, switch, receipt, marked, mode, serve, loaded, sw, wk,
                 adopt, typed, leased, history>>

QueueAgain(h) ==
  /\ srv[h].pc = "locked"
  /\ binding = srv[h].session /\ RequestIsActive /\ request.session = binding
  /\ Free(h)
  /\ srv' = [srv EXCEPT ![h] = [pc |-> "reply", session |-> binding, id |-> request.id]]
  /\ UNCHANGED <<diskVars, marked, mode, serve, loaded, sw, wk, adopt, typed, leased, history>>

MutantQueueRefused(h) ==   \* an error path that keeps the lock
  /\ srv[h].pc = "locked"
  /\ UNCHANGED lock
  /\ srv' = [srv EXCEPT ![h] = ServerIdle]
  /\ UNCHANGED <<diskVars, marked, mode, serve, loaded, sw, wk, adopt, typed, leased, history>>

(* Another session, another session's active request, not ready, no usage read. *)
QueueRefused(h) ==
  /\ srv[h].pc = "locked"
  /\ Free(h)
  /\ srv' = [srv EXCEPT ![h] = ServerIdle]
  /\ UNCHANGED <<diskVars, marked, mode, serve, loaded, sw, wk, adopt, typed, leased, history>>

(* The 202 is flushed, and only then is a worker started ... *)
Reply(h) ==
  /\ srv[h].pc = "reply"
  /\ Serve(h, "start")
  /\ UNCHANGED <<diskVars, marked, mode, serve, loaded, lock, sw, wk, adopt,
                 typed, leased, history>>

(* ... unless the hook hung up: BrokenPipeError ends the HTTP thread. *)
ReplyLost(h) ==
  /\ srv[h].pc = "reply"
  /\ srv' = [srv EXCEPT ![h] = ServerIdle]
  /\ UNCHANGED <<diskVars, marked, mode, serve, loaded, lock, sw, wk, adopt,
                 typed, leased, history>>

WorkerFor(i, s) == [pc |-> "lease", id |-> i, session |-> s, verdict |-> "none"]

(* start_auto_handoff_worker: returns False while the last thread is alive. *)
StartWorker(h) ==
  /\ srv[h].pc = "start"
  /\ Pass
  /\ wk' = IF wk.pc = "none" THEN WorkerFor(srv[h].id, srv[h].session) ELSE wk
  /\ srv' = [srv EXCEPT ![h] = ServerIdle]
  /\ UNCHANGED <<diskVars, marked, mode, serve, loaded, sw, adopt, typed, leased, history>>

WorkerGoto(l)   == wk' = [wk EXCEPT !.pc = l]
Conclude(v)     == wk' = [wk EXCEPT !.pc = "finish", !.verdict = v]
wkRest == <<marked, mode, serve, loaded, srv, adopt, typed, leased, history>>

MutantLeaseFree(s) == TRUE   \* the worker does not wait for the hook

(* wait_for_hook_exit: the worker takes and releases the hook's flock. *)
LeaseFree(s) == s \notin leased

WorkerLease ==
  /\ wk.pc = "lease" /\ LeaseFree(wk.session)
  /\ WorkerGoto("claim")
  /\ UNCHANGED <<wkRest, diskVars, lock, sw>>

WorkerLeaseTimeout ==
  /\ wk.pc = "lease" /\ ~LeaseFree(wk.session)
  /\ Conclude("failed_closed")
  /\ UNCHANGED <<wkRest, diskVars, lock, sw>>

OwnRequest == request # None /\ request.id = wk.id

MutantClaimable ==   \* a finished request is claimed again
  OwnRequest /\ request.session = wk.session
Claimable == OwnRequest /\ request.session = wk.session /\ request.status \in Active

WorkerClaim ==
  /\ wk.pc = "claim" /\ Claimable
  /\ Pass
  /\ request' = [request EXCEPT !.status = "waiting_for_stop"]
  /\ WorkerGoto("inspect")
  /\ UNCHANGED <<wkRest, binding, pending, switch, receipt, sw>>

WorkerNotActive ==
  /\ wk.pc = "claim" /\ ~Claimable
  /\ Pass
  /\ WorkerGoto("clear")
  /\ UNCHANGED <<wkRest, diskVars, sw>>

(* The binding is read first, without the lock ... *)
WorkerInspect ==
  /\ wk.pc = "inspect"
  /\ WorkerGoto(IF binding = wk.session THEN "stayed" ELSE "moved")
  /\ UNCHANGED <<wkRest, diskVars, lock, sw>>

MutantAutoReceiptFor(s) ==   \* a confirmed switch passes for an automatic one
  receipt # None /\ receipt.completed /\ receipt.old = s

AutoReceiptFor(s) ==
  /\ receipt # None
  /\ receipt.completed /\ receipt.old = s /\ receipt.source = "automatic_relay"

(* ... then the receipt and the marker; an unreadable marker is an exception. *)
WorkerMoved ==
  /\ wk.pc = "moved"
  /\ Conclude(IF switch = Torn THEN "failed_closed"
                ELSE IF AutoReceiptFor(wk.session) THEN "completed" ELSE "superseded")
  /\ UNCHANGED <<wkRest, diskVars, lock, sw>>

WorkerStayed ==
  /\ wk.pc = "stayed"
  /\ \/ switch = None   /\ WorkerGoto("judge")
     \/ switch = Torn   /\ Conclude("failed_closed")
     \/ switch \notin {None, Torn} /\ Conclude("manual_recovery_required")
  /\ UNCHANGED <<wkRest, diskVars, lock, sw>>

WorkerReady ==
  /\ wk.pc = "judge" /\ StatusReady
  /\ WorkerGoto("run")
  /\ UNCHANGED <<wkRest, diskVars, lock, sw>>

WorkerNotReady ==
  /\ wk.pc = "judge"
  /\ Conclude("failed_closed")
  /\ UNCHANGED <<wkRest, diskVars, lock, sw>>

(* No one but the worker itself ends its request: the branch of the code in *)
(* which the request is another one by now is never taken.                  *)
WorkerRun ==
  /\ wk.pc = "run" /\ OwnRequest
  /\ Pass
  /\ request' = [request EXCEPT !.status = "running"]
  /\ WorkerGoto("switching")
  /\ sw' = [sw EXCEPT ![Worker] = [pc |-> "begin", old |-> wk.session, op |-> 0]]
  /\ UNCHANGED <<wkRest, binding, pending, switch, receipt>>

(* _execute_switch came back, with a result or a ControllerError. *)
VerdictOf(l) == CASE l = "completed" -> "completed"
                  [] l = "timeout"   -> "manual_recovery_required"
                  [] OTHER           -> "failed_closed"

WorkerSwitched ==
  /\ wk.pc = "switching" /\ sw[Worker].pc \in Returned
  /\ Conclude(VerdictOf(sw[Worker].pc))
  /\ sw' = [sw EXCEPT ![Worker] = SwitchIdle]
  /\ UNCHANGED <<wkRest, diskVars, lock>>

(* _finish_auto_handoff: looks at the id of the request, not at its status. *)
WorkerFinish ==
  /\ wk.pc = "finish"
  /\ Pass
  /\ request' = IF OwnRequest THEN [request EXCEPT !.status = wk.verdict] ELSE request
  /\ WorkerGoto("clear")
  /\ UNCHANGED <<wkRest, binding, pending, switch, receipt, sw>>

(* finally: self._auto_thread = None *)
WorkerClear ==
  /\ wk.pc = "clear"
  /\ Pass
  /\ wk' = WorkerIdle
  /\ UNCHANGED <<wkRest, diskVars, sw>>

Work ==
  \/ WorkerLease \/ WorkerLeaseTimeout \/ WorkerClaim \/ WorkerNotActive \/ WorkerInspect
  \/ WorkerMoved \/ WorkerStayed \/ WorkerReady \/ WorkerNotReady \/ WorkerRun
  \/ WorkerSwitched \/ WorkerFinish \/ WorkerClear

-----------------------------------------------------------------------------
(***************************************************************************)
(* adopt(): one thread at a time, since it holds the lock throughout.  It  *)
(* is called by the SessionStart request, and by reconcile_pending before  *)
(* the port is bound.                                                      *)
(***************************************************************************)
adoptRest == <<request, marked, mode, loaded, sw, wk, srv, typed, leased, ops, sent>>

MutantAdoptBegin(s) ==   \* adopt() without the lock
  /\ adopt.pc = "off" /\ UNCHANGED lock
  /\ adopt' = [AdoptIdle EXCEPT !.pc = "verify", !.session = s]

(* A non-blocking acquire: LockMayBeHeld is when the caller gets a 409 instead. *)
AdoptBegin(s) ==
  /\ Take(Adopter)
  /\ adopt' = [AdoptIdle EXCEPT !.pc = "verify", !.session = s]

(* The lock is released; a failed reconcile_pending ends the process. *)
AdoptReturn(ok) ==
  /\ Free(Adopter)
  /\ adopt' = AdoptIdle
  /\ serve' = IF serve = "reconcile" THEN IF ok THEN "bind" ELSE "down" ELSE serve

AdoptGoto(l) == adopt' = [adopt EXCEPT !.pc = l] /\ UNCHANGED <<lock, serve>>

MutantMayAdopt(s, w) ==   \* an unrequested session is adopted as well
  IF w = None THEN TRUE ELSE w # Torn /\ w.old # s

(* May session s take over from the bound session, given marker w? *)
MayAdopt(s, w) ==
  IF w = None THEN binding \in {None, s}
              ELSE w # Torn /\ w.old # s

AdoptVerify ==
  /\ adopt.pc = "verify"
  /\ pending = adopt.session /\ MayAdopt(adopt.session, switch)
  /\ adopt' = [adopt EXCEPT !.pc = "save", !.switch = switch]
  /\ UNCHANGED <<adoptRest, lock, serve, binding, pending, switch, receipt, receipts>>

(* The frozen identity is another one, or its session may not take over. *)
AdoptRejects ==
  /\ adopt.pc = "verify"
  /\ pending # adopt.session \/ ~MayAdopt(adopt.session, switch)
  /\ AdoptReturn(FALSE)
  /\ UNCHANGED <<adoptRest, binding, pending, switch, receipt, receipts>>

MutantAdoptFails ==   \* a failed adoption gives the frozen identity up
  /\ adopt.pc \in {"verify", "callback"}
  /\ pending' = None
  /\ AdoptReturn(FALSE)
  /\ UNCHANGED <<adoptRest, binding, switch, receipt, receipts>>

(* The seat or the artifacts do not verify, or, with the binding saved, the *)
(* integration callback fails.                                              *)
AdoptFails ==
  /\ adopt.pc \in {"verify", "callback"}
  /\ AdoptReturn(FALSE)
  /\ UNCHANGED <<adoptRest, binding, pending, switch, receipt, receipts>>

AdoptSave ==
  /\ adopt.pc = "save"
  /\ binding' = adopt.session
  /\ AdoptGoto("callback")
  /\ UNCHANGED <<adoptRest, pending, switch, receipt, receipts>>

MutantAfterCallback ==   \* the marker goes before the receipt is written
  IF adopt.switch = None THEN "clear" ELSE "unswitch"
MutantAfterCallbackClear == "clear"   \* the marker is left behind

AfterCallback == IF adopt.switch = None THEN "clear" ELSE "receipt"

AdoptCallback ==
  /\ adopt.pc = "callback"
  /\ AdoptGoto(AfterCallback)
  /\ UNCHANGED <<adoptRest, binding, pending, switch, receipt, receipts>>

AdoptReceipt ==
  /\ adopt.pc = "receipt"
  /\ WriteReceipt(Completed(adopt.switch, adopt.session))
  /\ AdoptGoto("unswitch")
  /\ UNCHANGED <<adoptRest, binding, pending, switch>>

(* remove_private_file(expected=switch): no one else writes it under the lock. *)
AdoptUnswitch ==
  /\ adopt.pc = "unswitch" /\ switch = adopt.switch
  /\ switch' = None
  /\ AdoptGoto("clear")
  /\ UNCHANGED <<adoptRest, binding, pending, receipt, receipts>>

AdoptClear ==
  /\ adopt.pc = "clear" /\ pending = adopt.session
  /\ pending' = None
  /\ AdoptReturn(TRUE)
  /\ UNCHANGED <<adoptRest, binding, switch, receipt, receipts>>

Adopt ==
  \/ AdoptVerify \/ AdoptRejects \/ AdoptSave \/ AdoptCallback
  \/ AdoptReceipt \/ AdoptUnswitch \/ AdoptClear

-----------------------------------------------------------------------------
(***************************************************************************)
(* The life of the process: serve, make_server, a crash or a stop.         *)
(***************************************************************************)
outside == <<marked, mode, typed, leased, history>>

MutantBootStart ==   \* an unreadable identity is taken for one
  /\ serve = "down"
  /\ loaded' = mode
  /\ IF pending = None THEN serve' = "bind" /\ UNCHANGED <<lock, adopt>>
                       ELSE serve' = "reconcile" /\ AdoptBegin(pending)
  /\ UNCHANGED <<outside, diskVars, sw, wk, srv>>

(* reconcile_pending: nothing frozen, an identity to adopt, or an unreadable *)
(* file, with which the process ends again at once.                          *)
BootStart ==
  /\ serve = "down"
  /\ loaded' = mode
  /\ \/ /\ pending = None
        /\ serve' = "bind"
        /\ UNCHANGED <<lock, adopt>>
     \/ /\ pending \in Sessions
        /\ serve' = "reconcile"
        /\ AdoptBegin(pending)
  /\ UNCHANGED <<outside, diskVars, sw, wk, srv>>

MutantBootResume ==   \* an active request is not resumed
  /\ serve = "bind"
  /\ serve' = "up"
  /\ UNCHANGED <<outside, diskVars, loaded, lock, sw, wk, srv, adopt>>

(* The port is bound and resume_auto_handoff takes up an active request. *)
BootResume ==
  /\ serve = "bind"
  /\ serve' = "up"
  /\ \/ /\ ~RequestIsActive
        /\ UNCHANGED <<request, wk>>
     \/ /\ RequestIsActive /\ switch = None
        /\ wk' = WorkerFor(request.id, request.session)
        /\ UNCHANGED request
     \/ /\ RequestIsActive /\ switch # None
        /\ request' = [request EXCEPT !.status = "manual_recovery_required"]
        /\ UNCHANGED wk
  /\ UNCHANGED <<outside, binding, pending, switch, receipt, loaded, lock, sw, srv, adopt>>

(* The process stops between any two steps: all that is in memory is gone. *)
Crash ==
  /\ serve # "down"
  /\ serve' = "down" /\ lock' = None
  /\ sw' = [t \in Threads |-> SwitchIdle]
  /\ wk' = WorkerIdle
  /\ srv' = [h \in Hooks |-> ServerIdle]
  /\ adopt' = AdoptIdle
  /\ UNCHANGED <<outside, diskVars, loaded>>

(* kimi-lastcall set-mode rewrites the file, not the running process. *)
SetMode(m) ==
  /\ m # mode /\ mode' = m
  /\ UNCHANGED <<diskVars, marked, processVars, typed, leased, history>>

(* kimi-lastcall done, or the agent itself, creates the done marker of s. *)
CreateMarker(s) ==
  /\ marked' = marked \cup {s}
  /\ UNCHANGED <<diskVars, mode, processVars, typed, leased, history>>
=============================================================================
