-------------------------- MODULE OwnershipProofs --------------------------
(***************************************************************************)
(* Proofs that what LastCall records is credited to its own operation,     *)
(* request and hook (OwnershipInv), that its state directory implements    *)
(* Rollover, and when the worker may type into the pane.                   *)
(***************************************************************************)
EXTENDS LastCallProofs

USE NoneAndTornAreNoData, OwnersAreDistinct DEF Threads, Owners

(***************************************************************************)
(* Operations: OpInv and CreditInv.                                        *)
(***************************************************************************)
HistInv == OpInv /\ CreditInv
hvars   == <<ops, receipts, receipt, switch, sw, adopt, binding, pending>>

LEMMA HistInitInv == Init => HistInv
BY DEF Init, ControllerInit, SwitchIdle, AdoptIdle, HistInv, OpInv, CreditInv, Open, Waiting,
       Switches

LEMMA HistUntouched == HistInv /\ UNCHANGED hvars => HistInv'
BY DEF HistInv, hvars, OpInv, CreditInv, Open, Waiting, Adopted, SwitchOf, SourceOf, Completed

(* A thread goes elsewhere; it was waiting, and keeps its operation, or it *)
(* has none.                                                               *)
At(t, l) == [pc |-> l, old |-> sw[t].old, op |-> sw[t].op]

LEMMA GotoIs ==
  ASSUME TypeOK, NEW t \in Threads, NEW l, Goto(t, l)
  PROVE  sw' = [sw EXCEPT ![t] = At(t, l)]
<1>1. sw[t] \in SwitchProgress
  BY DEF TypeOK, ControllerTypeOK
<1>2. [sw[t] EXCEPT !.pc = l] = At(t, l)
  BY <1>1 DEF At, SwitchProgress
<1> QED
  BY <1>2 DEF Goto

LEMMA ThreadMoves ==
  ASSUME TypeOK, HistInv, NEW t \in Threads, NEW x,
         UNCHANGED <<ops, receipts, receipt, switch, adopt, binding, pending>>,
         sw' = [sw EXCEPT ![t] = x],
         \/ x.pc \notin Waiting \cup {"drop", "write", "completed"}
         \/ /\ sw[t].pc \in Waiting /\ x.op = sw[t].op /\ x.old = sw[t].old
            /\ x.pc \in Waiting \/ (x.pc = "completed" /\ Adopted(t))
  PROVE  HistInv'
<1>1. \A u \in Threads \ {t} : sw'[u] = sw[u]
  BY DEF TypeOK, ControllerTypeOK
<1>2. sw'[t] = x
  BY DEF TypeOK, ControllerTypeOK
<1>3. \A u \in Threads : Open(u)' => Open(u) /\ sw'[u].op = sw[u].op /\ sw'[u].old = sw[u].old
  BY <1>1, <1>2 DEF Open, Waiting
<1>4. \A u \in Threads : sw'[u].op = sw[u].op /\ sw'[u].old = sw[u].old =>
        (Adopted(u)' <=> Adopted(u)) /\ SwitchOf(u)' = SwitchOf(u)
  BY DEF Adopted, SwitchOf, SourceOf
<1>5. OpInv'
  <2>1. \A u \in Threads : sw'[u].pc = "write" => sw'[u] = sw[u]
    BY <1>1, <1>2 DEF Waiting
  <2> QED
    BY <1>3, <2>1 DEF HistInv, OpInv
<1>6. CreditInv'
  <2>1. \A u \in Threads : sw'[u].pc \in Waiting => (switch = SwitchOf(u) \/ Adopted(u))'
    BY <1>1, <1>2, <1>3, <1>4 DEF HistInv, CreditInv, Open, Waiting
  <2>2. \A u \in Threads : sw'[u].pc = "completed" => Adopted(u)'
    BY <1>1, <1>2, <1>4 DEF HistInv, CreditInv, Waiting
  <2> QED
    BY <1>3, <2>1, <2>2 DEF HistInv, CreditInv, Completed
<1> QED
  BY <1>5, <1>6 DEF HistInv

LEMMA WaitingMoves ==
  ASSUME TypeOK, HistInv, NEW t \in Threads, sw[t].pc \in Waiting,
         UNCHANGED <<ops, receipts, receipt, switch, adopt, binding, pending>>,
         NEW l \in Waiting \cup Returned, Goto(t, l), l = "completed" => Adopted(t)
  PROVE  HistInv'
<1>1. sw' = [sw EXCEPT ![t] = At(t, l)]
  BY GotoIs
<1>2. At(t, l).pc = l /\ At(t, l).op = sw[t].op /\ At(t, l).old = sw[t].old
  BY DEF At
<1>3. \/ l \notin Waiting \cup {"drop", "write", "completed"}
      \/ l \in Waiting
      \/ l = "completed" /\ Adopted(t)
  BY DEF Waiting, Returned
<1> HIDE DEF At
<1> QED
  BY <1>1, <1>2, <1>3, ThreadMoves

(* The marker of a thread that has one to write, or has written it.        *)
LEMMA OpenSwitch ==
  ASSUME Inv, NEW t \in Threads, Open(t) \/ sw[t].pc = "write"
  PROVE  /\ SwitchOf(t) \in Switches /\ SwitchOf(t) # None /\ SwitchOf(t) # Torn
         /\ SwitchOf(t).op = sw[t].op
<1>1. SwitchOf(t) \in Switches /\ SwitchOf(t).op = sw[t].op
  BY OwnSwitchIsSwitch DEF Inv, SafetyInv, Open, Waiting, Returned
<1> QED
  BY <1>1

(* Steps of _execute_switch. *)
LEMMA SwitchHist ==
  ASSUME Inv, HistInv, NEW t \in Threads, ExecuteSwitch(t)
  PROVE  HistInv'
<1> USE DEF Inv
<1>t. /\ sw \in [Threads -> SwitchProgress]
      /\ \A u \in Threads : (Open(u) \/ sw[u].pc = "write") =>
           SwitchOf(u) # None /\ SwitchOf(u) # Torn /\ SwitchOf(u).op = sw[u].op
      /\ ops \in Nat /\ \A r \in receipts : r.op \in Nat
      /\ \A u \in Threads : sw[u].op \in Nat
  BY OpenSwitch DEF TypeOK, ControllerTypeOK, SwitchProgress, Receipts
<1>1. CASE ExecuteSwitchBegin(t)
  BY <1>1, GotoIs, ThreadMoves
  DEF ExecuteSwitchBegin, swRest, diskVars, history, At, Waiting
<1>2. CASE ExecuteSwitchRefused(t)
  BY <1>2, GotoIs, ThreadMoves
  DEF ExecuteSwitchRefused, swRest, diskVars, history, At, Waiting
<1>3. CASE ExecuteSwitchCreate(t)
  <2> USE <1>3 DEF ExecuteSwitchCreate, swRest
  <2>1. /\ \A u \in Threads \ {t} : sw'[u] = sw[u]
        /\ sw'[t].pc = "write" /\ sw'[t].op = ops + 1
    BY <1>t DEF SwitchProgress
  <2>2. adopt.pc = "off"
    BY DEF SafetyInv, LockInv
  <2>o. \A u \in Threads : Open(u)' => u # t /\ Open(u) /\ sw'[u] = sw[u]
    BY <2>1 DEF Open, Waiting
  <2>3. OpInv'
    <3>1. \A r \in receipts : r.op < ops + 1
      BY <1>t DEF HistInv, OpInv
    <3>2. \A u \in Threads : Open(u) => sw[u].op < ops + 1
      BY <1>t DEF HistInv, OpInv
    <3>3. \A u \in Threads : sw'[u].pc = "write" => sw'[u].op = ops + 1
      <4>1. \A u \in Threads \ {t} : sw[u].pc # "write"
        BY DEF SafetyInv, LockInv
      <4> QED
        BY <2>1, <4>1
    <3>4. \A u, z \in Threads : Open(u)' /\ Open(z)' /\ sw'[u].op = sw'[z].op => u = z
      BY <2>o DEF HistInv, OpInv
    <3>5. (receipt # None => receipt \in receipts) /\ \A r \in receipts : r.op <= ops + 1
      BY <1>t, <3>1 DEF HistInv, OpInv
    <3>6. \A u \in Threads : Open(u)' => sw'[u].op <= ops + 1 /\ sw'[u].op < ops + 1
      BY <1>t, <2>o, <3>2
    <3> QED
      BY <3>1, <3>3, <3>4, <3>5, <3>6 DEF OpInv
  <2>4. \A u \in Threads : sw'[u].pc \in Waiting \cup {"completed"} =>
          u # t /\ Adopted(u) /\ Adopted(u)'
    <3> SUFFICES ASSUME NEW u \in Threads, sw'[u].pc \in Waiting \cup {"completed"}
                 PROVE  u # t /\ Adopted(u) /\ Adopted(u)'
      OBVIOUS
    <3>1. u # t /\ sw'[u] = sw[u]
      BY <2>1 DEF Waiting
    <3>2. Adopted(u)
      BY <1>t, <3>1 DEF HistInv, CreditInv, Open
    <3> QED
      BY <3>1, <3>2 DEF Adopted
  <2>5. CreditInv'
    BY <2>2, <2>4 DEF CreditInv
  <2> QED
    BY <2>3, <2>5 DEF HistInv
<1>4. CASE ExecuteSwitchWrite(t)
  <2> USE <1>4 DEF ExecuteSwitchWrite, swRest, history
  <2>1. /\ \A u \in Threads \ {t} : sw'[u] = sw[u]
        /\ sw'[t].pc = "send" /\ sw'[t].op = sw[t].op /\ sw'[t].old = sw[t].old
    BY <1>t DEF SwitchProgress, Goto
  <2>2. adopt.pc = "off" /\ switch = Torn /\ sw[t].op = ops
    BY DEF SafetyInv, LockInv, SwitchInv, HistInv, OpInv
  <2>3. OpInv'
    BY <1>t, <2>1, <2>2 DEF HistInv, OpInv, Open, Waiting
  <2>4. SwitchOf(t)' = switch'
    BY <2>1 DEF SwitchOf, SourceOf
  <2>5. \A u \in Threads \ {t} : sw'[u].pc \in Waiting \cup {"completed"} => Adopted(u)'
    <3> SUFFICES ASSUME NEW u \in Threads \ {t}, sw'[u].pc \in Waiting \cup {"completed"}
                 PROVE  Adopted(u)'
      OBVIOUS
    <3>1. Adopted(u)
      BY <1>t, <2>1, <2>2 DEF HistInv, CreditInv, Open
    <3> QED
      BY <2>1, <3>1 DEF Adopted
  <2>6. \A r \in receipts : r.op # switch'.op
    BY <1>t, <2>2 DEF HistInv, OpInv
  <2>7. CreditInv'
    BY <2>1, <2>2, <2>4, <2>5, <2>6 DEF CreditInv, Waiting
  <2> QED
    BY <2>3, <2>7 DEF HistInv
<1>5. CASE SendNew(t)
  <2>1. PICK l \in {"poll", "senderr"} : Goto(t, l)
    BY <1>5 DEF SendNew
  <2> QED
    BY <1>5, <2>1, WaitingMoves DEF SendNew, swRest, diskVars, Waiting, Returned
<1>6. CASE SendFailed(t)
  <2> USE <1>6 DEF SendFailed, swRest, WriteReceipt
  <2>1. /\ \A u \in Threads \ {t} : sw'[u] = sw[u]
        /\ sw'[t].pc = "drop" /\ sw'[t].op = sw[t].op
    BY <1>t DEF SwitchProgress, Goto
  <2>2. adopt.pc = "off"
    BY DEF SafetyInv, LockInv, Take
  <2> DEFINE f == Failed(SwitchOf(t))
  <2>3. receipts' = receipts \cup {f} /\ receipt' = f /\ f.op = sw[t].op /\ ~f.completed
    BY <1>t DEF Failed, Open, Waiting
  <2> HIDE DEF f
  <2>4. OpInv'
    BY <1>t, <2>1, <2>3 DEF HistInv, OpInv, Open, Waiting
  <2>5. \A u \in Threads \ {t} : Adopted(u) => Adopted(u)'
    BY <2>1, <2>3 DEF Adopted
  <2>6. \A u \in Threads \ {t} : SwitchOf(u)' = SwitchOf(u)
    BY <2>1 DEF SwitchOf, SourceOf
  <2>7. CreditInv'
    <3>1. \A u \in Threads : sw'[u].pc \in Waiting => (switch = SwitchOf(u) \/ Adopted(u))'
      BY <2>1, <2>5, <2>6 DEF HistInv, CreditInv, Waiting
    <3>2. \A u \in Threads : sw'[u].pc = "completed" => Adopted(u)'
      BY <2>1, <2>5 DEF HistInv, CreditInv
    <3> QED
      BY <2>1, <2>2, <2>3, <3>1, <3>2 DEF HistInv, CreditInv, Open, Waiting, Completed
  <2> QED
    BY <2>4, <2>7 DEF HistInv
<1>7. CASE DropSwitch(t)
  <2> USE <1>7 DEF DropSwitch, swRest, history
  <2>1. /\ \A u \in Threads \ {t} : sw'[u] = sw[u]
        /\ sw'[t].pc = "failed"
    BY <1>t DEF SwitchProgress, Goto
  <2>2. adopt.pc = "off"
    BY DEF SafetyInv, LockInv
  <2>3. OpInv'
    BY <1>t, <2>1 DEF HistInv, OpInv, Open, Waiting, Switches
  <2>4. \A u \in Threads \ {t} : SwitchOf(u)' = SwitchOf(u) /\ (Adopted(u) => Adopted(u)')
    BY <2>1 DEF SwitchOf, SourceOf, Adopted
  <2>5. \A u \in Threads \ {t} : Open(u) => SwitchOf(u) # SwitchOf(t)
    BY <1>t DEF HistInv, OpInv, Open
  <2>6. CreditInv'
    <3>1. \A u \in Threads : sw'[u].pc \in Waiting => (switch = SwitchOf(u) \/ Adopted(u))'
      BY <2>1, <2>4, <2>5 DEF HistInv, CreditInv, Waiting, Open
    <3>2. \A u \in Threads : sw'[u].pc = "completed" => Adopted(u)'
      BY <2>1, <2>4 DEF HistInv, CreditInv
    <3> QED
      BY <2>1, <2>2, <3>1, <3>2 DEF HistInv, CreditInv, Open, Waiting, Completed, Switches
  <2> QED
    BY <2>3, <2>6 DEF HistInv
<1>8. CASE SendOvertaken(t)
  <2>1. Adopted(t)
    BY <1>8, <1>t DEF SendOvertaken, HistInv, CreditInv, Open, Waiting
  <2>2. PICK l \in {"completed", "failed"} : Goto(t, l)
    BY <1>8 DEF SendOvertaken, SettledEnds
  <2> QED
    BY <1>8, <2>1, <2>2, WaitingMoves DEF SendOvertaken, swRest, diskVars, history, Waiting, Returned
<1>9. CASE Poll(t) \/ PollTimeout(t)
  <2>1. PICK l \in {"check", "timeout"} : Goto(t, l)
    BY <1>9 DEF Poll, PollTimeout
  <2> QED
    BY <1>9, <2>1, WaitingMoves DEF Poll, PollTimeout, swRest, diskVars, history, Waiting, Returned
<1>10. CASE PollCheck(t)
  <2>1. SwitchSettled => Adopted(t)
    BY <1>10, <1>t DEF PollCheck, SwitchSettled, HistInv, CreditInv, Open, Waiting
  <2>2. PICK l \in {"completed", "failed", "poll"} :
          Goto(t, l) /\ (l = "completed" => SwitchSettled)
    BY <1>10 DEF PollCheck, SettledEnds
  <2> QED
    BY <1>10, <2>1, <2>2, WaitingMoves DEF PollCheck, swRest, diskVars, history, Waiting, Returned
<1> QED
  BY <1>1, <1>2, <1>3, <1>4, <1>5, <1>6, <1>7, <1>8, <1>9, <1>10 DEF ExecuteSwitch

(* Steps of adopt() and of those who start it leave every thread where it  *)
(* is.                                                                     *)
LEMMA ThreadsStay ==
  ASSUME UNCHANGED sw
  PROVE  \A u \in Threads : /\ Open(u)' <=> Open(u)
                            /\ SwitchOf(u)' = SwitchOf(u)
                            /\ receipts \subseteq receipts' => (Adopted(u) => Adopted(u)')
BY DEF Open, SwitchOf, SourceOf, Adopted

LEMMA AdoptHist ==
  ASSUME Inv, HistInv, Adopt \/ AdoptFails
  PROVE  HistInv'
<1> USE DEF Inv, adoptRest
<1>t. /\ switch \in Switches \cup {None, Torn} /\ binding \in Sessions \cup {None}
      /\ ops \in Nat /\ adopt \in AdoptProgress
  BY DEF TypeOK, ControllerTypeOK
<1>1. CASE AdoptVerify \/ AdoptRejects \/ AdoptFails \/ AdoptCallback
  <2>1. /\ UNCHANGED <<ops, receipts, receipt, switch, sw, binding, pending>>
        /\ adopt.pc # "unswitch" /\ adopt'.pc # "unswitch"
        /\ adopt'.pc \in {"callback", "receipt", "unswitch"} =>
             /\ adopt.pc \in {"callback", "receipt", "unswitch"}
             /\ adopt'.switch = adopt.switch /\ adopt'.session = adopt.session
    <3>1. CASE AdoptVerify
      BY <3>1, <1>t DEF AdoptVerify, AdoptProgress
    <3>2. CASE AdoptRejects \/ AdoptFails
      BY <3>2, <1>t DEF AdoptRejects, AdoptFails, AdoptReturn, AdoptIdle
    <3>3. CASE AdoptCallback
      BY <3>3, <1>t DEF AdoptCallback, AdoptGoto, AfterCallback, AdoptProgress
    <3> QED
      BY <1>1, <3>1, <3>2, <3>3
  <2>2. OpInv'
    BY <2>1 DEF HistInv, OpInv, Open
  <2>3. CreditInv'
    BY <2>1, ThreadsStay DEF HistInv, CreditInv, Completed
  <2> QED
    BY <2>2, <2>3 DEF HistInv
<1>2. CASE AdoptSave
  <2>1. /\ UNCHANGED <<ops, receipts, receipt, switch, sw, pending>>
        /\ adopt.pc = "save" /\ adopt' = [adopt EXCEPT !.pc = "callback"]
        /\ binding' = adopt.session
    BY <1>2 DEF AdoptSave, AdoptGoto
  <2>2. pending = adopt.session /\ switch = adopt.switch /\ MayAdopt(adopt.session, switch)
    BY <2>1 DEF SafetyInv, AdoptInv
  <2>3. adopt'.pc = "callback" /\ adopt'.session = adopt.session /\ adopt'.switch = adopt.switch
    BY <1>t, <2>1 DEF AdoptProgress
  <2>4. OpInv'
    BY <2>1 DEF HistInv, OpInv, Open
  <2>5. adopt.switch # None => adopt.switch.old # adopt.session
    BY <2>2 DEF MayAdopt
  <2>6. switch \in Switches => \A r \in receipts : r.completed /\ r.op = switch.op =>
           binding' = binding
    BY <2>1, <2>2 DEF HistInv, CreditInv
  <2>7. CreditInv'
    BY <2>1, <2>3, <2>5, <2>6, ThreadsStay DEF HistInv, CreditInv, Completed
  <2> QED
    BY <2>4, <2>7 DEF HistInv
<1>3. CASE AdoptReceipt
  <2> DEFINE c == Completed(switch, binding)
  <2>1. /\ adopt.pc = "receipt" /\ switch = adopt.switch /\ switch \in Switches
        /\ binding = adopt.session /\ pending = adopt.session
    BY <1>3 DEF AdoptReceipt, SafetyInv, AdoptInv
  <2>2. /\ UNCHANGED <<ops, switch, sw, binding, pending>>
        /\ receipt' = c /\ receipts' = receipts \cup {c}
        /\ adopt' = [adopt EXCEPT !.pc = "unswitch"]
    BY <1>3, <2>1 DEF AdoptReceipt, AdoptGoto, WriteReceipt
  <2>3. c.op = switch.op /\ c.op \in Nat /\ c' = c
    BY <2>1, <2>2 DEF Completed, Switches
  <2>4. adopt'.pc = "unswitch" /\ adopt'.session = adopt.session /\ adopt'.switch = adopt.switch
    BY <1>t, <2>2 DEF AdoptProgress
  <2> HIDE DEF c
  <2>5. OpInv'
    BY <2>1, <2>2, <2>3 DEF HistInv, OpInv, Open
  <2>6. adopt.switch.old # adopt.session /\ adopt.switch # None
    BY <2>1 DEF HistInv, CreditInv
  <2>7. \A r \in receipts' : r.completed /\ r.op = switch.op => r = c
    BY <2>1, <2>2 DEF HistInv, CreditInv, c
  <2>8. receipt' = Completed(switch, binding)' /\ c = Completed(switch, binding)'
    BY <2>2 DEF c
  <2>9. CreditInv'
    <3>1. \A u \in Threads : sw'[u].pc \in Waiting => (switch = SwitchOf(u) \/ Adopted(u))'
      BY <2>2, ThreadsStay DEF HistInv, CreditInv
    <3>2. \A u \in Threads : sw'[u].pc = "completed" => Adopted(u)'
      BY <2>2, ThreadsStay DEF HistInv, CreditInv
    <3> QED
      BY <2>1, <2>2, <2>4, <2>6, <2>7, <2>8, <3>1, <3>2 DEF CreditInv
  <2> QED
    BY <2>5, <2>9 DEF HistInv
<1>4. CASE AdoptUnswitch
  <2>1. /\ adopt.pc = "unswitch" /\ switch = adopt.switch /\ switch \in Switches
        /\ receipt = Completed(switch, binding)
    BY <1>4 DEF AdoptUnswitch, SafetyInv, AdoptInv, HistInv, CreditInv
  <2>2. /\ UNCHANGED <<ops, receipt, receipts, sw, binding, pending>>
        /\ switch' = None /\ adopt' = [adopt EXCEPT !.pc = "clear"]
    BY <1>4 DEF AdoptUnswitch, AdoptGoto
  <2>3. OpInv'
    BY <2>1, <2>2 DEF HistInv, OpInv, Open
  <2>4. adopt'.pc = "clear"
    BY <1>t, <2>2 DEF AdoptProgress
  <2>5. receipt \in receipts
    BY <2>1, CompletedIsReceipt, <1>t DEF HistInv, OpInv, SafetyInv, AdoptInv
  <2>6. ASSUME NEW u \in Threads, switch = SwitchOf(u) PROVE Adopted(u)
    <3>1. /\ receipt.completed /\ receipt.op = sw[u].op
          /\ receipt.old = sw[u].old /\ receipt.source = SourceOf(u)
      BY <2>1, <2>6 DEF Completed, SwitchOf
    <3> QED
      BY <2>5, <3>1 DEF Adopted
  <2>7. CreditInv'
    <3>1. \A u \in Threads : sw'[u].pc \in Waiting => Adopted(u)'
      BY <2>2, <2>6, ThreadsStay DEF HistInv, CreditInv
    <3>2. \A u \in Threads : sw'[u].pc = "completed" => Adopted(u)'
      BY <2>2, ThreadsStay DEF HistInv, CreditInv
    <3> QED
      BY <2>2, <2>4, <3>1, <3>2 DEF CreditInv
  <2> QED
    BY <2>3, <2>7 DEF HistInv
<1>5. CASE AdoptClear
  <2>1. /\ UNCHANGED <<ops, receipt, receipts, switch, sw, binding>>
        /\ adopt' = AdoptIdle /\ adopt.pc = "clear"
    BY <1>5 DEF AdoptClear, AdoptReturn
  <2>2. switch = None
    BY <2>1 DEF SafetyInv, AdoptInv
  <2>3. OpInv'
    BY <2>1 DEF HistInv, OpInv, Open
  <2>4. CreditInv'
    BY <2>1, <2>2, ThreadsStay DEF HistInv, CreditInv, AdoptIdle
  <2> QED
    BY <2>3, <2>4 DEF HistInv
<1> QED
  BY <1>1, <1>2, <1>3, <1>4, <1>5 DEF Adopt

(* Who else touches what the history of operations speaks of. *)
LEMMA HistSteps ==
  ASSUME [Next]_vars
  PROVE  \/ UNCHANGED hvars
         \/ \E t \in Threads : ExecuteSwitch(t)
         \/ \E t \in Confirmers : Confirm(t) \/ ConfirmReply(t)
         \/ WorkerRun \/ WorkerSwitched
         \/ Adopt \/ AdoptFails \/ BootStart \/ Crash
         \/ \E s \in Sessions : PostAdoption(s) \/ FreezeCreate(s) \/ FreezeWrite(s)
<1> USE DEF vars, hvars, cvars, diskVars, swRest, processVars, history, seatVars, stopVars, outside,
            wkRest, adoptRest, Alone
<1>1. CASE Process
  <2>1. ASSUME NEW h \in Hooks, SignalThread(h) PROVE UNCHANGED hvars
    BY <2>1 DEF SignalThread, HandleSignal, Queued, Answered, HungUp, QueueNew, Reply, ReplyLost,
                QueueBegin, QueueRefusedEarly, QueueAgain, QueueRefused, StartWorker
  <2>2. ASSUME Work, ~WorkerRun, ~WorkerSwitched PROVE UNCHANGED hvars
    BY <2>2 DEF Work, WorkerLease, WorkerLeaseTimeout, WorkerClaim, WorkerNotActive,
                WorkerInspect, WorkerMoved, WorkerStayed, WorkerReady, WorkerNotReady,
                WorkerFinish, WorkerClear
  <2>3. ASSUME BootResume PROVE UNCHANGED hvars
    BY <2>3 DEF BootResume
  <2> QED
    BY <1>1, <2>1, <2>2, <2>3 DEF Process
<1>2. CASE ~Process /\ ~UNCHANGED vars
  <2>1. StartHooks => \/ UNCHANGED hvars
                      \/ \E s \in Sessions : PostAdoption(s) \/ FreezeCreate(s) \/ FreezeWrite(s)
    BY DEF StartHooks, FreezeFound, FreezeConflict, AdoptionRefused
  <2>2. StopHooks => UNCHANGED hvars
    BY DEF StopHooks, StopReleased, StopHook, PostSignal, HookRefused, HookDone
  <2>3. People => UNCHANGED hvars \/ Crash \/ \E t \in Confirmers : Confirm(t)
    BY DEF People, UserSwitches, MarkDone, CreateMarker, CrashStep, ConfirmStep, ModeStep, SetMode
  <2>4. Faults \/ (\E s \in Sessions : KimiNew(s)) => UNCHANGED hvars \/ AdoptFails
    BY DEF Faults, KimiIgnores, StartHookFails, HookFails, KimiNew
  <2> QED
    BY <1>2, <2>1, <2>2, <2>3, <2>4 DEF Next, Cooperative
<1> QED
  BY <1>1, <1>2 DEF vars

LEMMA HistStep == Inv /\ HistInv /\ [Next]_vars => HistInv'
<1> SUFFICES ASSUME Inv, HistInv, [Next]_vars PROVE HistInv'
  OBVIOUS
<1> USE DEF Inv
<1>1. ASSUME NEW t \in Threads, ExecuteSwitch(t) PROVE HistInv'
  BY <1>1, SwitchHist
<1>2. ASSUME NEW t \in Confirmers, Confirm(t) \/ ConfirmReply(t) PROVE HistInv'
  <2>1. PICK x \in {SwitchIdle, [pc |-> "begin", old |-> binding, op |-> 0]} :
            sw' = [sw EXCEPT ![t] = x]
    BY <1>2 DEF Confirm, ConfirmReply
  <2>2. UNCHANGED <<ops, receipts, receipt, switch, adopt, binding, pending>>
    BY <1>2 DEF Confirm, ConfirmReply, swRest, diskVars, history
  <2> QED
    BY <2>1, <2>2, ThreadMoves DEF Waiting, SwitchIdle
<1>3. ASSUME WorkerRun \/ WorkerSwitched PROVE HistInv'
  <2>1. PICK x \in {SwitchIdle, [pc |-> "begin", old |-> wk.session, op |-> 0]} :
            sw' = [sw EXCEPT ![Worker] = x]
    BY <1>3 DEF WorkerRun, WorkerSwitched
  <2>2. UNCHANGED <<ops, receipts, receipt, switch, adopt, binding, pending>>
    BY <1>3 DEF WorkerRun, WorkerSwitched, wkRest, diskVars, history
  <2> QED
    BY <2>1, <2>2, ThreadMoves DEF Waiting, SwitchIdle
<1>4. ASSUME Adopt \/ AdoptFails PROVE HistInv'
  BY <1>4, AdoptHist
<1>5. ASSUME BootStart \/ \E s \in Sessions : PostAdoption(s) PROVE HistInv'
  <2>1. UNCHANGED <<ops, receipts, receipt, switch, sw, binding, pending>>
    BY <1>5 DEF BootStart, PostAdoption, adoptRest, outside, diskVars, history
  <2>2. \/ adopt' = adopt
        \/ adopt.pc = "off" /\ adopt'.pc = "verify"
    BY <1>5 DEF BootStart, PostAdoption, AdoptBegin, AdoptIdle, Take, SafetyInv, LockInv
  <2>3. OpInv'
    BY <2>1 DEF HistInv, OpInv, Open
  <2>4. CreditInv'
    BY <2>1, <2>2, ThreadsStay DEF HistInv, CreditInv, Completed
  <2> QED
    BY <2>3, <2>4 DEF HistInv
<1>6. ASSUME NEW s \in Sessions, FreezeCreate(s) \/ FreezeWrite(s) PROVE HistInv'
  <2>1. UNCHANGED <<ops, receipts, receipt, switch, sw, binding, adopt>>
    BY <1>6 DEF FreezeCreate, FreezeWrite, processVars, history
  <2>2. pending \in {None, Torn}
    BY <1>6 DEF FreezeCreate, FreezeWrite, SafetyInv, FreezeInv
  <2>3. OpInv'
    BY <2>1 DEF HistInv, OpInv, Open
  <2>4. switch \in Switches => \A r \in receipts : ~(r.completed /\ r.op = switch.op)
    <3>1. switch \in Switches => binding \in Sessions
      BY DEF SafetyInv, DiskInv, SwitchNamesBinding, Switches, TypeOK, ControllerTypeOK
    <3> QED
      BY <2>2, <3>1 DEF HistInv, CreditInv
  <2>5. CreditInv'
    BY <2>1, <2>4, ThreadsStay DEF HistInv, CreditInv, Completed
  <2> QED
    BY <2>3, <2>5 DEF HistInv
<1>7. ASSUME Crash PROVE HistInv'
  <2>1. /\ UNCHANGED <<ops, receipts, receipt, switch, binding, pending>>
        /\ adopt'.pc = "off" /\ \A t \in Threads : sw'[t].pc = "idle"
    BY <1>7 DEF Crash, outside, diskVars, history, AdoptIdle, SwitchIdle
  <2>2. \A t \in Threads : ~Open(t)' /\ sw'[t].pc \notin Waiting \cup {"write", "completed"}
    BY <2>1 DEF Open, Waiting
  <2>3. OpInv'
    BY <2>1, <2>2 DEF HistInv, OpInv
  <2>4. CreditInv'
    BY <2>1, <2>2 DEF HistInv, CreditInv, Completed
  <2> QED
    BY <2>3, <2>4 DEF HistInv
<1> QED
  BY <1>1, <1>2, <1>3, <1>4, <1>5, <1>6, <1>7, HistSteps, HistUntouched

(* _execute_switch returns `completed` only for an operation whose own     *)
(* receipt adopt() wrote, whatever receipt it finds when it looks.         *)
THEOREM CompletedIsOwnHolds == Spec => []CompletedIsOwn
<1>1. HistInv => CompletedIsOwn
  BY DEF HistInv, CreditInv, Adopted, CompletedIsOwn
<1> QED
  BY InitInv, InvStep, HistInitInv, HistStep, <1>1, PTL DEF Spec

-----------------------------------------------------------------------------
(***************************************************************************)
(* Refinement.  The values that Rollover's variables have.                 *)
(***************************************************************************)
Bound == IF InFlight THEN switch.old ELSE binding
Op    == IF InFlight THEN [id |-> switch.op, from |-> switch.old] ELSE None
Begun == IF switch = Torn THEN ops - 1 ELSE ops
Counted == {q \in receipts : q.completed /\ ~(InFlight /\ q.op = switch.op)}
Done  == {[id |-> r.op, from |-> r.old, to |-> r.new] : r \in Counted}

mapped == <<Bound, Op, Begun, Done>>

LEMMA MappedIs == UNCHANGED mapped => UNCHANGED Abstract!rvars
BY DEF Abstract!rvars, mapped, Bound, Op, Begun, Done, Counted

LEMMA MappedInit == Init => Abstract!Init
BY DEF Init, ControllerInit, Abstract!Init, InFlight, Switches

(* What does not touch these four is no step of Rollover. *)
LEMMA Unmapped ==
  ASSUME UNCHANGED <<binding, switch, ops, receipts>>
  PROVE  UNCHANGED mapped
BY DEF mapped, Bound, Op, Begun, Done, Counted, InFlight

(* The steps of Rollover, in terms of the mapped values. *)
LEMMA MappedSteps ==
  /\ (/\ Bound # None /\ Op = None /\ Begun' = Begun + 1
      /\ Op' = [id |-> Begun', from |-> Bound] /\ UNCHANGED <<Bound, Done>>) => Abstract!Next
  /\ \A s \in Sessions :
       (/\ Bound = None /\ Op = None /\ Bound' = s /\ UNCHANGED <<Op, Begun, Done>>) => Abstract!Next
  /\ \A s \in Sessions :
       (/\ Op # None /\ s # Op.from /\ Bound' = s /\ Op' = None
        /\ Done' = Done \cup {[id |-> Op.id, from |-> Op.from, to |-> s]}
        /\ UNCHANGED Begun) => Abstract!Next
  /\ \A s \in Sessions :
       (/\ Op # None /\ Bound' = s /\ Op' = None /\ UNCHANGED <<Begun, Done>>) => Abstract!Next
<1> USE DEF Bound, Op, Begun, Done, Counted
<1>1. Abstract!Begin => Abstract!Next
  BY DEF Abstract!Next
<1>2. \A s \in Sessions : Abstract!Bind(s) \/ Abstract!Complete(s) \/ Abstract!Fail(s) => Abstract!Next
  BY DEF Abstract!Next
<1> QED
  BY <1>1, <1>2 DEF Abstract!Begin, Abstract!Bind, Abstract!Complete, Abstract!Fail

(* A new session, and the same one again, bound by adopt(). *)
LEMMA SaveMaps ==
  ASSUME Inv, HistInv, AdoptSave
  PROVE  UNCHANGED mapped \/ Abstract!Next
<1> USE DEF Inv
<1>1. /\ adopt.session \in Sessions /\ binding' = adopt.session
      /\ UNCHANGED <<switch, ops, receipts>> /\ MayAdopt(adopt.session, switch)
  BY DEF AdoptSave, adoptRest, SafetyInv, SessionInv, AdoptInv
<1>2. UNCHANGED <<Op, Begun, Done, InFlight>>
  BY <1>1 DEF Op, Begun, Done, Counted, InFlight
<1>3. CASE InFlight
  BY <1>1, <1>2, <1>3 DEF mapped, Bound
<1>4. CASE ~InFlight
  <2>1. switch = None
    BY <1>1, <1>4 DEF InFlight, MayAdopt, TypeOK, ControllerTypeOK
  <2>2. Bound = binding /\ Bound' = adopt.session /\ Op = None
    BY <1>1, <1>2, <1>4 DEF Bound, Op
  <2>3. binding \in {None, adopt.session}
    BY <1>1, <2>1 DEF MayAdopt
  <2> QED
    BY <1>1, <1>2, <2>2, <2>3, MappedSteps DEF mapped
<1> QED
  BY <1>3, <1>4

(* The receipt of the switch in progress does not count before it ends.    *)
LEMMA ReceiptMaps ==
  ASSUME Inv, HistInv, AdoptReceipt
  PROVE  UNCHANGED mapped
<1> USE DEF Inv
<1>1. /\ UNCHANGED <<binding, switch, ops>> /\ switch \in Switches
      /\ \E c : c.op = switch.op /\ receipts' = receipts \cup {c}
  <2>1. /\ UNCHANGED <<binding, switch, ops>> /\ adopt.switch = switch /\ switch \in Switches
        /\ receipts' = receipts \cup {Completed(switch, adopt.session)}
    BY DEF AdoptReceipt, adoptRest, WriteReceipt, SafetyInv, AdoptInv
  <2>2. Completed(switch, adopt.session).op = switch.op
    BY DEF Completed
  <2> QED
    BY <2>1, <2>2
<1>2. Counted' = Counted
  BY <1>1 DEF Counted, InFlight
<1> QED
  BY <1>1, <1>2 DEF mapped, Bound, Op, Begun, Done, InFlight

(* The removal of the marker by adopt() completes the switch.              *)
LEMMA UnswitchMaps ==
  ASSUME Inv, HistInv, AdoptUnswitch
  PROVE  Abstract!Next
<1> USE DEF Inv
<1>1. /\ switch \in Switches /\ switch' = None /\ UNCHANGED <<binding, ops, receipts>>
      /\ adopt.pc = "unswitch" /\ binding = adopt.session /\ adopt.switch = switch
      /\ receipt = Completed(switch, binding)
  BY DEF AdoptUnswitch, adoptRest, SafetyInv, AdoptInv, HistInv, CreditInv
<1>2. binding \in Sessions /\ binding # switch.old
  BY <1>1 DEF SafetyInv, SessionInv, HistInv, CreditInv
<1>3. Bound' = binding /\ Op' = None /\ Begun' = Begun
  BY <1>1 DEF Bound, Op, Begun, InFlight, Switches
<1>4. Op = [id |-> switch.op, from |-> switch.old] /\ Op # None
  BY <1>1, NoneIsNoSwitch DEF Op, InFlight, Switches
<1> DEFINE c == Completed(switch, binding)
<1>5. Counted' = Counted \cup {c}
  <2>1. c \in receipts /\ c.completed /\ c.op = switch.op
    BY <1>1, <1>2, CompletedIsReceipt DEF HistInv, OpInv
  <2>2. \A r \in receipts : r.completed /\ r.op = switch.op => r = c
    BY <1>1 DEF HistInv, CreditInv
  <2>3. Counted' = {q \in receipts : q.completed}
    BY <1>1 DEF Counted, InFlight, Switches
  <2>4. Counted = {q \in receipts : q.completed /\ q.op # switch.op}
    BY <1>1 DEF Counted, InFlight
  <2> HIDE DEF c
  <2> QED
    BY <2>1, <2>2, <2>3, <2>4
<1>6. Done' = Done \cup {[id |-> Op.id, from |-> Op.from, to |-> binding]}
  <2>1. c.op = Op.id /\ c.old = Op.from /\ c.new = binding
    BY <1>4 DEF Completed
  <2> HIDE DEF c
  <2> QED
    BY <1>5, <2>1 DEF Done
<1> QED
  BY <1>2, <1>3, <1>4, <1>6, MappedSteps

(* Steps of a thread in _execute_switch. *)
LEMMA SwitchMaps ==
  ASSUME Inv, HistInv, NEW t \in Threads, ExecuteSwitch(t)
  PROVE  UNCHANGED mapped \/ Abstract!Next
<1> USE DEF Inv
<1>t. /\ \A r \in receipts : r.op \in Nat
      /\ ops \in Nat /\ binding \in Sessions \cup {None}
  BY DEF TypeOK, ControllerTypeOK, Receipts
<1>1. CASE ExecuteSwitchCreate(t)
  <2>1. switch = None /\ switch' = Torn /\ ops' = ops + 1 /\ UNCHANGED <<binding, receipts>>
    BY <1>1 DEF ExecuteSwitchCreate
  <2>2. ~InFlight /\ ~InFlight'
    BY <2>1 DEF InFlight
  <2>3. Begun' = Begun
    BY <1>t, <2>1 DEF Begun
  <2> QED
    BY <2>1, <2>2, <2>3 DEF mapped, Bound, Op, Done, Counted
<1>2. CASE ExecuteSwitchWrite(t)
  <2>1. /\ switch = Torn /\ switch' = SwitchOf(t) /\ UNCHANGED <<binding, ops, receipts>>
        /\ sw[t].op = ops /\ sw[t].old = binding
    BY <1>2 DEF ExecuteSwitchWrite, history, SafetyInv, SwitchInv, HistInv, OpInv
  <2>2. SwitchOf(t) \in Switches /\ switch'.op = ops /\ switch'.old = binding
    BY <1>2, <2>1, OpenSwitch DEF ExecuteSwitchWrite, SwitchOf
  <2>3. ~InFlight /\ InFlight' /\ switch' # Torn
    BY <2>1, <2>2 DEF InFlight
  <2>4. Begun' = Begun + 1 /\ Begun' = ops
    BY <1>t, <2>1, <2>3 DEF Begun
  <2>5. Bound' = binding /\ Bound = binding /\ binding # None
    BY <2>1, <2>2, <2>3 DEF Bound, Switches
  <2>6. Op = None /\ Op' = [id |-> Begun', from |-> Bound]
    BY <2>2, <2>3, <2>4, <2>5 DEF Op
  <2>7. Counted' = Counted
    <3>1. \A r \in receipts : r.op # switch'.op
      BY <1>t, <2>1, <2>2 DEF HistInv, OpInv
    <3> QED
      BY <2>1, <2>3, <3>1 DEF Counted
  <2> QED
    BY <2>4, <2>5, <2>6, <2>7, MappedSteps DEF Done
<1>3. CASE SendFailed(t)
  <2>1. /\ UNCHANGED <<binding, switch, ops>>
        /\ receipts' = receipts \cup {Failed(SwitchOf(t))}
    BY <1>3 DEF SendFailed, WriteReceipt
  <2>2. ~Failed(SwitchOf(t)).completed
    BY DEF Failed
  <2>3. Counted' = Counted
    BY <2>1, <2>2 DEF Counted, InFlight
  <2> QED
    BY <2>1, <2>3 DEF mapped, Bound, Op, Begun, Done, InFlight
<1>4. CASE DropSwitch(t)
  <2>1. /\ UNCHANGED <<binding, ops, receipts>>
        /\ switch' = IF switch = SwitchOf(t) THEN None ELSE switch
    BY <1>4 DEF DropSwitch, history
  <2>2. CASE switch # SwitchOf(t)
    BY <2>1, <2>2, Unmapped
  <2>3. CASE switch = SwitchOf(t)
    <3>1. switch \in Switches /\ switch.op = sw[t].op /\ switch # Torn /\ switch' = None
      BY <1>4, <2>1, <2>3, OpenSwitch DEF DropSwitch, Open
    <3>2. binding \in Sessions
      BY <1>t, <3>1 DEF SafetyInv, DiskInv, SwitchNamesBinding, Switches
    <3>3. \A r \in receipts : ~(r.completed /\ r.op = switch.op)
      <4>1. adopt.pc = "off" /\ Open(t)
        BY <1>4 DEF DropSwitch, SafetyInv, LockInv, Open
      <4> QED
        BY <3>1, <4>1 DEF HistInv, CreditInv
    <3>4. InFlight /\ ~InFlight'
      BY <3>1 DEF InFlight, Switches
    <3>5. Counted' = Counted
      BY <2>1, <3>3, <3>4 DEF Counted
    <3>6. Op # None /\ Op' = None /\ Bound' = binding /\ Begun' = Begun
      BY <2>1, <3>1, <3>4, NoneIsNoSwitch DEF Op, Bound, Begun, Switches
    <3> QED
      BY <3>2, <3>5, <3>6, MappedSteps DEF Done
  <2> QED
    BY <2>2, <2>3
<1>5. CASE \/ ExecuteSwitchBegin(t) \/ ExecuteSwitchRefused(t) \/ SendNew(t)
           \/ SendOvertaken(t) \/ Poll(t) \/ PollCheck(t) \/ PollTimeout(t)
  <2>1. UNCHANGED <<binding, switch, ops, receipts>>
    BY <1>5 DEF ExecuteSwitchBegin, ExecuteSwitchRefused, SendNew, SendOvertaken, Poll, PollCheck,
                PollTimeout, diskVars, history
  <2> QED
    BY <2>1, Unmapped
<1> QED
  BY <1>1, <1>2, <1>3, <1>4, <1>5 DEF ExecuteSwitch

LEMMA StepMaps == Inv /\ HistInv /\ [Next]_vars => [Abstract!Next]_(Abstract!rvars)
<1> SUFFICES ASSUME Inv, HistInv, [Next]_vars PROVE UNCHANGED mapped \/ Abstract!Next
  BY MappedIs
<1>1. ASSUME NEW t \in Threads, ExecuteSwitch(t) PROVE UNCHANGED mapped \/ Abstract!Next
  BY <1>1, SwitchMaps
<1>2. ASSUME Adopt \/ AdoptFails PROVE UNCHANGED mapped \/ Abstract!Next
  <2>1. CASE AdoptVerify \/ AdoptRejects \/ AdoptFails \/ AdoptCallback \/ AdoptClear
    <3>1. UNCHANGED <<binding, switch, ops, receipts>>
      BY <2>1 DEF AdoptVerify, AdoptRejects, AdoptFails, AdoptCallback, AdoptClear, adoptRest
    <3> QED
      BY <3>1, Unmapped
  <2> QED
    BY <1>2, <2>1, SaveMaps, ReceiptMaps, UnswitchMaps DEF Adopt
<1>3. ASSUME \/ UNCHANGED hvars
             \/ \E t \in Confirmers : Confirm(t) \/ ConfirmReply(t)
             \/ WorkerRun \/ WorkerSwitched \/ BootStart \/ Crash
             \/ \E s \in Sessions : PostAdoption(s) \/ FreezeCreate(s) \/ FreezeWrite(s)
      PROVE  UNCHANGED mapped
  <2>1. UNCHANGED <<binding, switch, ops, receipts>>
    BY <1>3 DEF hvars, Confirm, ConfirmReply, WorkerRun, WorkerSwitched, BootStart, Crash,
                PostAdoption, FreezeCreate, FreezeWrite, swRest, wkRest, adoptRest, outside,
                diskVars, history
  <2> QED
    BY <2>1, Unmapped
<1> QED
  BY <1>1, <1>2, <1>3, HistSteps

(* Whatever threads, hooks, people and crashes do, the state directory     *)
(* goes through the steps of Rollover: one switch at a time, which ends in *)
(* the adoption of another session or fails.                               *)
THEOREM Refinement == Spec => RefinesRollover
BY InitInv, InvStep, HistInitInv, HistStep, MappedInit, StepMaps, PTL
DEF Spec, RefinesRollover, Abstract!Spec

-----------------------------------------------------------------------------
(***************************************************************************)
(* Requests, worker and leases: RequestInv, ServeInv, LeaseInv, TypedInv.  *)
(***************************************************************************)
ActInv == RequestInv /\ ServeInv /\ LeaseInv /\ TypedInv

LEMMA ActInitInv == Init => ActInv
BY BudgetIsNatural
DEF Init, ControllerInit, SwitchIdle, WorkerIdle, ServerIdle, HookOff, ActInv, RequestInv, ServeInv,
    LeaseInv, TypedInv, KnowsRequest, AutoCompletedWasAdopted, Kinds

(* What is known of a request stays true when its status changes, and when *)
(* the next request gets the next id.                                      *)
LEMMA KnowledgeStays ==
  ASSUME TypeOK,
         \/ request' = request
         \/ \E v \in Active \cup Final : request' = [request EXCEPT !.status = v]
         \/ \E s \in Sessions, v \in Active \cup Final : request' = [id |-> NextId, session |-> s, status |-> v]
  PROVE  \A i, s : KnowsRequest(i, s) => KnowsRequest(i, s)'
<1> SUFFICES ASSUME NEW i, NEW s, KnowsRequest(i, s) PROVE KnowsRequest(i, s)'
  OBVIOUS
<1>1. request \in Requests /\ request # None /\ request.id \in Nat
  BY DEF KnowsRequest, TypeOK, ControllerTypeOK, Requests
<1>2. CASE request' = request
  BY <1>2 DEF KnowsRequest
<1>3. ASSUME NEW v \in Active \cup Final, request' = [request EXCEPT !.status = v] PROVE KnowsRequest(i, s)'
  <2>1. request'.id = request.id /\ request'.session = request.session /\ request' # None
    BY <1>1, <1>3, StatusType DEF Requests, WithStatus
  <2> QED
    BY <2>1 DEF KnowsRequest
<1>4. ASSUME NEW z \in Sessions, NEW v \in Active \cup Final,
             request' = [id |-> NextId, session |-> z, status |-> v]
      PROVE KnowsRequest(i, s)'
  <2>1. NextId = request.id + 1
    BY <1>1 DEF NextId
  <2>2. request' \in Requests /\ request'.id = request.id + 1
    BY <1>1, <1>4, <2>1 DEF Requests
  <2> QED
    BY <1>1, <2>2 DEF KnowsRequest
<1> QED
  BY <1>2, <1>3, <1>4

LEMMA ActUntouched ==
  ASSUME ActInv, UNCHANGED <<request, srv, wk, sw, serve, loaded, hook, leased, sent>>,
         budget'["crash"] = budget["crash"], receipts \subseteq receipts'
  PROVE  ActInv'
<1>1. RequestInv'
  BY DEF ActInv, RequestInv, KnowsRequest, OwnRequest, AutoCompletedWasAdopted
<1>2. ServeInv'
  BY DEF ActInv, ServeInv
<1>3. LeaseInv'
  BY DEF ActInv, LeaseInv, KnowsRequest
<1>4. TypedInv'
  BY DEF ActInv, TypedInv
<1> QED
  BY <1>1, <1>2, <1>3, <1>4 DEF ActInv

(* How a step of _execute_switch moves its thread. *)
Moves(t, x) ==
  /\ sw' = [sw EXCEPT ![t] = x]
  /\ x.old = sw[t].old /\ x.pc \notin {"idle", "begin"} /\ sw[t].pc # "idle"
  /\ x.pc = "create" => sw[t].pc = "begin" /\ Preflight(t)
  /\ x.pc = "write"  => sw[t].pc = "create"
  /\ x.pc = "send"   => sw[t].pc = "write"
  /\ \/ sent' = sent
     \/ t = Worker /\ sw[t].pc = "send" /\ sent' = sent \cup {wk.id} /\ x.pc \in {"poll", "senderr"}

LEMMA SwitchMoves ==
  ASSUME TypeOK, NEW t \in Threads, ExecuteSwitch(t)
  PROVE  \E x : Moves(t, x)
<1>1. CASE ExecuteSwitchCreate(t)
  <2> DEFINE x == [pc |-> "write", old |-> sw[t].old, op |-> ops + 1]
  <2>0. sw[t] \in SwitchProgress
    BY DEF TypeOK, ControllerTypeOK
  <2>1. sw' = [sw EXCEPT ![t] = [[sw[t] EXCEPT !.pc = "write"] EXCEPT !.op = ops + 1]]
    BY <1>1 DEF ExecuteSwitchCreate, TypeOK, ControllerTypeOK
  <2>2. [[sw[t] EXCEPT !.pc = "write"] EXCEPT !.op = ops + 1] = x
    <3>1. [sw[t] EXCEPT !.pc = "write"] = At(t, "write")
      BY <2>0 DEF SwitchProgress, At
    <3>2. [At(t, "write") EXCEPT !.op = ops + 1] = x
      BY DEF At
    <3> QED
      BY <3>1, <3>2
  <2>3. sw' = [sw EXCEPT ![t] = x]
    BY <2>1, <2>2
  <2> QED
    BY <1>1, <2>3 DEF ExecuteSwitchCreate, Moves
<1>2. CASE ~ExecuteSwitchCreate(t)
  <2>1. PICK l : Goto(t, l)
    BY <1>2 DEF ExecuteSwitch, ExecuteSwitchBegin, ExecuteSwitchRefused, ExecuteSwitchWrite,
                SendNew, SendFailed, DropSwitch, SendOvertaken, Poll, PollCheck, PollTimeout
  <2>2. sw' = [sw EXCEPT ![t] = At(t, l)] /\ sw'[t].pc = l
    BY <2>1, GotoIs DEF At, TypeOK, ControllerTypeOK
  <2> DEFINE q == sw'[t].pc
  <2>3. /\ q \notin {"idle", "begin"} /\ sw[t].pc # "idle"
        /\ q = "create" => sw[t].pc = "begin" /\ Preflight(t)
        /\ q = "write"  => sw[t].pc = "create"
        /\ q = "send"   => sw[t].pc = "write"
        /\ \/ sent' = sent
           \/ t = Worker /\ sw[t].pc = "send" /\ sent' = sent \cup {wk.id} /\ q \in {"poll", "senderr"}
    <3> USE DEF TypeOK, ControllerTypeOK, SwitchProgress, Goto, history
    <3>1. CASE ExecuteSwitchBegin(t)
      BY <3>1 DEF ExecuteSwitchBegin
    <3>2. CASE ExecuteSwitchRefused(t) \/ ExecuteSwitchWrite(t) \/ DropSwitch(t)
      BY <3>2 DEF ExecuteSwitchRefused, ExecuteSwitchWrite, DropSwitch
    <3>3. CASE SendNew(t)
      BY <3>3 DEF SendNew
    <3>4. CASE SendFailed(t) \/ SendOvertaken(t)
      BY <3>4 DEF SendFailed, SendOvertaken, SettledEnds
    <3>5. CASE Poll(t) \/ PollCheck(t) \/ PollTimeout(t)
      BY <3>5 DEF Poll, PollCheck, PollTimeout, SettledEnds
    <3> QED
      BY <1>2, <3>1, <3>2, <3>3, <3>4, <3>5 DEF ExecuteSwitch
  <2>4. At(t, l).old = sw[t].old /\ At(t, l).pc = l
    BY DEF At
  <2> QED
    BY <2>2, <2>3, <2>4 DEF Moves
<1> QED
  BY <1>1, <1>2

LEMMA SwitchAct ==
  ASSUME Inv, ActInv, NEW t \in Threads, ExecuteSwitch(t), Alone
  PROVE  ActInv'
<1>1. PICK x : Moves(t, x)
  BY SwitchMoves DEF Inv
<1>2. /\ UNCHANGED <<request, srv, wk, serve, loaded, hook, leased, budget>>
      /\ receipts \subseteq receipts'
  BY DEF ExecuteSwitch, ExecuteSwitchBegin, ExecuteSwitchRefused, ExecuteSwitchCreate,
         ExecuteSwitchWrite, SendNew, SendFailed, DropSwitch, SendOvertaken, Poll, PollCheck,
         PollTimeout, WriteReceipt, Alone, swRest, diskVars, history, stopVars
<1>3. /\ \A u \in Threads \ {t} : sw'[u] = sw[u]
      /\ sw'[t] = x
  BY <1>1 DEF Moves, Inv, TypeOK, ControllerTypeOK
<1>4. RequestInv'
  BY <1>1, <1>2, <1>3 DEF Moves, ActInv, RequestInv, KnowsRequest, OwnRequest, AutoCompletedWasAdopted
<1>5. ServeInv'
  BY <1>1, <1>2, <1>3 DEF Moves, ActInv, ServeInv, Preflight
<1>6. LeaseInv'
  BY <1>2 DEF ActInv, LeaseInv, KnowsRequest
<1>7. TypedInv'
  BY <1>1, <1>2, <1>3 DEF Moves, ActInv, TypedInv, RequestInv, KnowsRequest, Inv, TypeOK,
                          ControllerTypeOK, Requests
<1> QED
  BY <1>4, <1>5, <1>6, <1>7 DEF ActInv

(* Steps of the worker. *)
LEMMA WorkAct ==
  ASSUME Inv, HistInv, ActInv, Work, Alone
  PROVE  ActInv'
<1> USE DEF Inv, TypeOK, ControllerTypeOK, ActInv, wkRest, diskVars, history, Alone, stopVars, Pass
<1>s. UNCHANGED <<srv, serve, loaded, hook, leased, budget, sent, receipts>>
  BY DEF Work, WorkerLease, WorkerLeaseTimeout, WorkerClaim, WorkerNotActive, WorkerInspect,
         WorkerMoved, WorkerStayed, WorkerReady, WorkerNotReady, WorkerRun, WorkerSwitched,
         WorkerFinish, WorkerClear
<1>1. CASE WorkerLease
  <2>1. /\ wk.pc = "lease" /\ wk.session \notin leased /\ UNCHANGED <<request, sw>>
        /\ wk' = [wk EXCEPT !.pc = "claim"]
    BY <1>1 DEF WorkerLease, LeaseFree, WorkerGoto
  <2>2. wk'.pc = "claim" /\ wk'.id = wk.id /\ wk'.session = wk.session
    BY <2>1 DEF WorkerProgress
  <2>3. RequestInv'
    BY <1>s, <2>1, <2>2 DEF RequestInv, KnowsRequest, OwnRequest, AutoCompletedWasAdopted
  <2>4. ServeInv'
    BY <1>s, <2>1, <2>2 DEF ServeInv
  <2>5. LeaseInv'
    <3>1. \A h \in Hooks : hook[h].queued # 0 => wk.id # hook[h].queued
      BY <2>1 DEF LeaseInv
    <3> QED
      BY <1>s, <2>1, <2>2, <3>1 DEF LeaseInv, KnowsRequest
  <2>6. TypedInv'
    BY <1>s, <2>1, <2>2 DEF TypedInv
  <2> QED
    BY <2>3, <2>4, <2>5, <2>6
<1>2. CASE WorkerLeaseTimeout \/ WorkerNotActive
  <2>1. /\ wk.pc \in {"lease", "claim"} /\ UNCHANGED <<request, sw>>
        /\ wk'.pc \in {"finish", "clear"} /\ wk'.id = wk.id /\ wk'.session = wk.session
        /\ wk'.pc = "finish" => wk'.verdict = "failed_closed"
    <3>1. CASE WorkerLeaseTimeout
      BY <3>1 DEF WorkerLeaseTimeout, Conclude, WorkerProgress
    <3>2. CASE WorkerNotActive
      BY <3>2 DEF WorkerNotActive, WorkerGoto, WorkerProgress
    <3> QED
      BY <1>2, <3>1, <3>2
  <2>2. RequestInv'
    BY <1>s, <2>1 DEF RequestInv, KnowsRequest, OwnRequest, AutoCompletedWasAdopted
  <2>3. ServeInv'
    BY <1>s, <2>1 DEF ServeInv
  <2>4. LeaseInv'
    BY <1>s, <2>1 DEF LeaseInv, KnowsRequest
  <2>5. TypedInv'
    BY <1>s, <2>1 DEF TypedInv
  <2> QED
    BY <2>2, <2>3, <2>4, <2>5
<1>3. CASE WorkerClaim
  <2> DEFINE r == WithStatus("waiting_for_stop")
  <2>1. /\ wk.pc = "claim" /\ request # None /\ request.id = wk.id /\ request.session = wk.session
        /\ request.status \in Active /\ request' = r /\ sw' = sw
        /\ wk' = [wk EXCEPT !.pc = "inspect"]
    BY <1>3 DEF WorkerClaim, Claimable, OwnRequest, WorkerGoto, WithStatus
  <2>2. /\ r \in Requests /\ r.id = request.id /\ r.session = request.session
        /\ r.status = "waiting_for_stop"
    BY <2>1, StatusType DEF WithStatus, Active, Requests
  <2>3. wk'.pc = "inspect" /\ wk'.id = wk.id /\ wk'.session = wk.session
    BY <2>1 DEF WorkerProgress
  <2>4. \A i, s : KnowsRequest(i, s) => KnowsRequest(i, s)'
    BY <2>1, KnowledgeStays DEF WithStatus, Active
  <2> HIDE DEF r
  <2>5. RequestInv'
    BY <1>s, <2>1, <2>2, <2>3, <2>4
    DEF RequestInv, OwnRequest, AutoCompletedWasAdopted, Active
  <2>6. ServeInv'
    BY <1>s, <2>1, <2>3 DEF ServeInv
  <2>7. LeaseInv'
    BY <1>s, <2>1, <2>3, <2>4 DEF LeaseInv
  <2>8. TypedInv'
    <3>1. request.status \notin Final
      BY <2>1 DEF Active, Final
    <3> QED
      BY <1>s, <2>1, <2>2, <2>3, <3>1 DEF TypedInv
  <2> QED
    BY <2>5, <2>6, <2>7, <2>8
<1>4. CASE WorkerInspect \/ WorkerMoved \/ WorkerStayed \/ WorkerReady \/ WorkerNotReady
  <2>1. /\ wk.pc \in {"inspect", "moved", "stayed", "judge"} /\ UNCHANGED <<request, sw>>
        /\ wk'.pc \in {"moved", "stayed", "judge", "run", "finish"}
        /\ wk'.id = wk.id /\ wk'.session = wk.session
        /\ wk'.pc = "finish" /\ wk'.verdict = "completed" => AutoReceiptFor(wk.session)
    <3> USE DEF Conclude, WorkerGoto, WorkerProgress
    <3>1. CASE WorkerInspect
      BY <3>1 DEF WorkerInspect
    <3>2. CASE WorkerMoved
      BY <3>2 DEF WorkerMoved
    <3>3. CASE WorkerStayed
      <4>1. wk.pc = "stayed" /\ UNCHANGED <<request, sw>>
        BY <3>3 DEF WorkerStayed
      <4>2. CASE WorkerGoto("judge")
        BY <4>1, <4>2
      <4>3. CASE Conclude("failed_closed")
        BY <4>1, <4>3
      <4>4. CASE Conclude("manual_recovery_required")
        BY <4>1, <4>4
      <4> QED
        BY <3>3, <4>2, <4>3, <4>4 DEF WorkerStayed
    <3>4. CASE WorkerReady
      BY <3>4 DEF WorkerReady
    <3>5. CASE WorkerNotReady
      BY <3>5 DEF WorkerNotReady
    <3> QED
      BY <1>4, <3>1, <3>2, <3>3, <3>4, <3>5
  <2>2. RequestInv'
    <3>1. AutoReceiptFor(wk.session) =>
            \E r \in receipts : r.completed /\ r.old = wk.session /\ r.source = "automatic_relay"
      BY DEF AutoReceiptFor, HistInv, OpInv
    <3> QED
      BY <1>s, <2>1, <3>1 DEF RequestInv, KnowsRequest, OwnRequest, AutoCompletedWasAdopted
  <2>3. ServeInv'
    BY <1>s, <2>1 DEF ServeInv
  <2>4. LeaseInv'
    BY <1>s, <2>1 DEF LeaseInv, KnowsRequest
  <2>5. TypedInv'
    <3>1. request.status \notin Final
      BY <2>1 DEF RequestInv, Active, Final
    <3> QED
      BY <1>s, <2>1, <3>1 DEF TypedInv
  <2> QED
    BY <2>2, <2>3, <2>4, <2>5
<1>5. CASE WorkerRun
  <2> DEFINE r == WithStatus("running")
  <2>1. /\ wk.pc = "run" /\ request # None /\ request' = r
        /\ sw' = [sw EXCEPT ![Worker] = [pc |-> "begin", old |-> wk.session, op |-> 0]]
        /\ wk' = [wk EXCEPT !.pc = "switching"]
    BY <1>5 DEF WorkerRun, OwnRequest, WorkerGoto, WithStatus
  <2>2. /\ r \in Requests /\ r.id = request.id /\ r.session = request.session
        /\ r.status = "running"
    BY <2>1, StatusType DEF WithStatus, Active, Requests
  <2>3. wk'.pc = "switching" /\ wk'.id = wk.id /\ wk'.session = wk.session
    BY <2>1 DEF WorkerProgress
  <2>4. \A i, s : KnowsRequest(i, s) => KnowsRequest(i, s)'
    BY <2>1, KnowledgeStays DEF WithStatus, Active
  <2>5. /\ sw'[Worker].pc = "begin" /\ sw'[Worker].old = wk.session
        /\ \A u \in Threads \ {Worker} : sw'[u] = sw[u]
    BY <2>1
  <2> HIDE DEF r
  <2>6. RequestInv'
    BY <1>s, <2>1, <2>2, <2>3, <2>4, <2>5
    DEF RequestInv, OwnRequest, AutoCompletedWasAdopted, Active
  <2>7. ServeInv'
    BY <1>s, <2>1, <2>3, <2>5 DEF ServeInv
  <2>8. LeaseInv'
    BY <1>s, <2>1, <2>3, <2>4 DEF LeaseInv
  <2>9. TypedInv'
    <3>1. request.status \notin Final
      BY <2>1 DEF RequestInv, Active, Final
    <3> QED
      BY <1>s, <2>1, <2>2, <2>3, <3>1 DEF TypedInv
  <2> QED
    BY <2>6, <2>7, <2>8, <2>9
<1>6. CASE WorkerSwitched
  <2>1. /\ wk.pc = "switching" /\ UNCHANGED request
        /\ sw' = [sw EXCEPT ![Worker] = SwitchIdle]
        /\ wk' = [wk EXCEPT !.pc = "finish", !.verdict = VerdictOf(sw[Worker].pc)]
    BY <1>6 DEF WorkerSwitched, Conclude
  <2>2. /\ wk'.pc = "finish" /\ wk'.id = wk.id /\ wk'.session = wk.session
        /\ wk'.verdict = VerdictOf(sw[Worker].pc)
    BY <2>1 DEF WorkerProgress
  <2>3. sw'[Worker].pc = "idle" /\ \A u \in Threads \ {Worker} : sw'[u] = sw[u]
    BY <2>1 DEF SwitchIdle
  <2>4. wk'.verdict = "completed" =>
          \E r \in receipts : r.completed /\ r.old = wk.session /\ r.source = "automatic_relay"
    <3>1. wk'.verdict = "completed" => sw[Worker].pc = "completed"
      BY <2>2 DEF VerdictOf
    <3>2. sw[Worker].pc = "completed" => Adopted(Worker) /\ sw[Worker].old = wk.session
      BY DEF HistInv, CreditInv, RequestInv
    <3> QED
      BY <3>1, <3>2 DEF Adopted, SourceOf
  <2>5. RequestInv'
    BY <1>s, <2>1, <2>2, <2>3, <2>4 DEF RequestInv, KnowsRequest, OwnRequest, AutoCompletedWasAdopted
  <2>6. ServeInv'
    BY <1>s, <2>1, <2>2, <2>3 DEF ServeInv
  <2>7. LeaseInv'
    BY <1>s, <2>1, <2>2 DEF LeaseInv, KnowsRequest
  <2>8. TypedInv'
    BY <1>s, <2>1, <2>2 DEF TypedInv
  <2> QED
    BY <2>5, <2>6, <2>7, <2>8
<1>7. CASE WorkerFinish
  <2>1. /\ wk.pc = "finish" /\ sw' = sw /\ wk' = [wk EXCEPT !.pc = "clear"]
        /\ request' = IF OwnRequest THEN WithStatus(wk.verdict) ELSE request
    BY <1>7 DEF WorkerFinish, WorkerGoto, WithStatus
  <2>2. wk'.pc = "clear" /\ wk'.id = wk.id /\ wk'.session = wk.session
    BY <2>1 DEF WorkerProgress
  <2>3. wk.verdict \in Final
    BY <2>1 DEF SafetyInv, SessionInv
  <2>4. OwnRequest => /\ request'.id = request.id /\ request'.session = request.session
                      /\ request'.status = wk.verdict /\ request' # None
    BY <2>1, <2>3, StatusType DEF OwnRequest, WithStatus, Requests
  <2>5. \A i, s : KnowsRequest(i, s) => KnowsRequest(i, s)'
    BY <2>1, <2>3, KnowledgeStays DEF WithStatus
  <2>6. RequestInv'
    <3>1. AutoCompletedWasAdopted'
      BY <1>s, <2>1, <2>4 DEF RequestInv, KnowsRequest, OwnRequest, AutoCompletedWasAdopted
    <3>2. sw[Worker].pc = "idle" /\ request # None
      BY <2>1 DEF RequestInv, KnowsRequest
    <3>3. request' # None => request'.id > 0
      <4>1. CASE OwnRequest
        BY <2>4, <3>2, <4>1 DEF RequestInv
      <4>2. CASE ~OwnRequest
        BY <2>1, <4>2 DEF RequestInv
      <4> QED
        BY <4>1, <4>2
    <3>4. KnowsRequest(wk.id, wk.session)'
      <4>1. KnowsRequest(wk.id, wk.session)
        BY <2>1 DEF RequestInv
      <4> QED
        BY <2>2, <2>5, <4>1 DEF KnowsRequest
    <3> QED
      BY <1>s, <2>1, <2>2, <2>5, <3>1, <3>2, <3>3, <3>4 DEF RequestInv
  <2>7. ServeInv'
    BY <1>s, <2>1, <2>2 DEF ServeInv
  <2>8. LeaseInv'
    BY <1>s, <2>1, <2>2, <2>5 DEF LeaseInv
  <2>9. TypedInv'
    <3> SUFFICES ASSUME budget["crash"] = Budget["crash"], NEW i \in sent
                 PROVE  /\ request' # None /\ i <= request'.id
                        /\ i = request'.id => request'.status \in Final
      BY <1>s DEF TypedInv
    <3>1. request # None /\ i <= request.id /\
          (i = request.id => request.status \in Final \/ wk.id = i)
      BY DEF TypedInv
    <3> QED
      BY <2>1, <2>3, <2>4, <3>1 DEF OwnRequest
  <2> QED
    BY <2>6, <2>7, <2>8, <2>9
<1>8. CASE WorkerClear
  <2>1. wk.pc = "clear" /\ UNCHANGED <<request, sw>> /\ wk'.pc = "none"
    BY <1>8 DEF WorkerClear, WorkerIdle
  <2>2. RequestInv'
    BY <1>s, <2>1 DEF RequestInv, KnowsRequest, OwnRequest, AutoCompletedWasAdopted
  <2>3. ServeInv'
    BY <1>s, <2>1 DEF ServeInv
  <2>4. LeaseInv'
    BY <1>s, <2>1 DEF LeaseInv, KnowsRequest
  <2>5. TypedInv'
    BY <1>s, <2>1 DEF TypedInv
  <2> QED
    BY <2>2, <2>3, <2>4, <2>5
<1> QED
  BY <1>1, <1>2, <1>3, <1>4, <1>5, <1>6, <1>7, <1>8 DEF Work

(* Steps of a confirm thread. *)
LEMMA ConfirmAct ==
  ASSUME Inv, ActInv, NEW t \in Confirmers, Confirm(t) \/ ConfirmReply(t),
         UNCHANGED <<seatVars, stopVars>>, budget'["crash"] = budget["crash"]
  PROVE  ActInv'
<1>1. /\ UNCHANGED <<request, srv, wk, serve, loaded, hook, leased, sent, receipts>>
      /\ serve = "up" \/ sw[t].pc # "idle"
  BY DEF Confirm, ConfirmReply, swRest, diskVars, history, stopVars, Returned
<1>2. sw' = [sw EXCEPT ![t] = SwitchIdle] \/ sw' = [sw EXCEPT ![t] = [pc |-> "begin", old |-> binding, op |-> 0]]
  BY DEF Confirm, ConfirmReply
<1>3. \A u \in Threads \ {t} : sw'[u] = sw[u]
  BY <1>2 DEF Inv, TypeOK, ControllerTypeOK
<1>4. t # Worker /\ Worker \in Threads /\ t \in Threads
  BY OwnersAreDistinct DEF Threads
<1>5. RequestInv'
  BY <1>1, <1>3, <1>4 DEF ActInv, RequestInv, KnowsRequest, OwnRequest, AutoCompletedWasAdopted
<1>6. ServeInv'
  BY <1>1, <1>3, <1>4 DEF ActInv, ServeInv
<1>7. LeaseInv'
  BY <1>1 DEF ActInv, LeaseInv, KnowsRequest
<1>8. TypedInv'
  BY <1>1, <1>3, <1>4 DEF ActInv, TypedInv
<1> QED
  BY <1>5, <1>6, <1>7, <1>8 DEF ActInv

(* Steps of adopt(). *)
LEMMA AdoptAct ==
  ASSUME ActInv, Adopt \/ AdoptFails, Alone
  PROVE  ActInv'
<1>1. /\ UNCHANGED <<request, srv, wk, sw, loaded, hook, leased, sent, budget>>
      /\ serve' = serve \/ (serve # "up" /\ serve' # "up")
      /\ receipts \subseteq receipts'
  BY DEF Adopt, AdoptVerify, AdoptRejects, AdoptFails, AdoptSave, AdoptCallback, AdoptReceipt,
         AdoptUnswitch, AdoptClear, AdoptReturn, AdoptGoto, WriteReceipt, adoptRest, Alone, stopVars
<1>2. RequestInv'
  BY <1>1 DEF ActInv, RequestInv, KnowsRequest, OwnRequest, AutoCompletedWasAdopted
<1>3. ServeInv'
  BY <1>1 DEF ActInv, ServeInv
<1>4. LeaseInv'
  BY <1>1 DEF ActInv, LeaseInv, KnowsRequest
<1>5. TypedInv'
  BY <1>1 DEF ActInv, TypedInv
<1> QED
  BY <1>2, <1>3, <1>4, <1>5 DEF ActInv

(* serve starts, resumes an active request, and stops. *)
LEMMA BootStartAct ==
  ASSUME ActInv, BootStart, Alone
  PROVE  ActInv'
<1>1. /\ UNCHANGED <<request, srv, wk, sw, hook, leased, sent, budget, receipts>>
      /\ serve # "up" /\ serve' # "up"
  BY DEF BootStart, outside, diskVars, history, Alone, stopVars
<1>2. sw[Worker].pc = "idle"
  BY <1>1 DEF ActInv, ServeInv, Threads
<1>3. RequestInv'
  BY <1>1 DEF ActInv, RequestInv, KnowsRequest, OwnRequest, AutoCompletedWasAdopted
<1>4. ServeInv'
  BY <1>1, <1>2 DEF ActInv, ServeInv
<1>5. LeaseInv'
  BY <1>1 DEF ActInv, LeaseInv, KnowsRequest
<1>6. TypedInv'
  BY <1>1 DEF ActInv, TypedInv
<1> QED
  BY <1>3, <1>4, <1>5, <1>6 DEF ActInv

LEMMA BootResumeAct ==
  ASSUME Inv, ActInv, BootResume, Alone
  PROVE  ActInv'
<1> USE DEF ActInv
<1>1. /\ UNCHANGED <<srv, sw, loaded, hook, leased, sent, budget, receipts>>
      /\ serve # "up" /\ serve' = "up"
  BY DEF BootResume, outside, history, Alone, stopVars
<1>2. /\ \A t \in Threads : sw[t].pc = "idle"
      /\ \A h \in Hooks : srv[h].pc = "idle"
      /\ wk.pc = "none" /\ Worker \in Threads
  BY <1>1 DEF ServeInv, Threads
<1>3. CASE ~RequestIsActive
  <2>1. UNCHANGED <<request, wk>>
    BY <1>3 DEF BootResume
  <2>2. RequestInv'
    BY <1>1, <2>1 DEF RequestInv, KnowsRequest, OwnRequest, AutoCompletedWasAdopted
  <2>3. ServeInv'
    BY <1>1, <1>2 DEF ServeInv
  <2>4. LeaseInv'
    BY <1>1, <2>1 DEF LeaseInv, KnowsRequest
  <2>5. TypedInv'
    BY <1>1, <2>1 DEF TypedInv
  <2> QED
    BY <2>2, <2>3, <2>4, <2>5
<1>4. CASE RequestIsActive /\ switch = None
  <2>1. /\ request' = request /\ request # None /\ request.status \in Active
        /\ wk' = WorkerFor(request.id, request.session)
    BY <1>4 DEF BootResume, RequestIsActive
  <2>2. wk'.pc = "lease" /\ wk'.id = request.id /\ wk'.session = request.session
    BY <2>1 DEF WorkerFor
  <2>3. request.id \in Nat /\ request.id > 0
    BY <2>1 DEF Inv, TypeOK, ControllerTypeOK, Requests, RequestInv
  <2>4. RequestInv'
    BY <1>1, <1>2, <2>1, <2>2, <2>3 DEF RequestInv, KnowsRequest, OwnRequest, AutoCompletedWasAdopted
  <2>5. ServeInv'
    BY <1>1, <1>2 DEF ServeInv
  <2>6. LeaseInv'
    BY <1>1, <1>2, <2>1, <2>2 DEF LeaseInv, KnowsRequest
  <2>7. TypedInv'
    BY <1>1, <1>2, <2>1, <2>2 DEF TypedInv
  <2> QED
    BY <2>4, <2>5, <2>6, <2>7
<1>5. CASE RequestIsActive /\ switch # None
  <2> DEFINE r == WithStatus("manual_recovery_required")
  <2>1. request' = r /\ wk' = wk /\ request # None
    BY <1>5 DEF BootResume, RequestIsActive, WithStatus
  <2>2. /\ r \in Requests /\ r.id = request.id /\ r.session = request.session
        /\ r.status = "manual_recovery_required"
    BY <2>1, StatusType DEF WithStatus, Final, Requests, Inv, TypeOK, ControllerTypeOK
  <2>3. \A i, s : KnowsRequest(i, s) => KnowsRequest(i, s)'
    BY <2>1, KnowledgeStays DEF WithStatus, Final, Inv
  <2> HIDE DEF r
  <2>4. RequestInv'
    BY <1>1, <1>2, <2>1, <2>2 DEF RequestInv, AutoCompletedWasAdopted
  <2>5. ServeInv'
    BY <1>1, <1>2 DEF ServeInv
  <2>6. LeaseInv'
    BY <1>1, <1>2, <2>1, <2>3 DEF LeaseInv
  <2>7. TypedInv'
    BY <1>1, <1>2, <2>1, <2>2 DEF TypedInv, Final
  <2> QED
    BY <2>4, <2>5, <2>6, <2>7
<1> QED
  BY <1>3, <1>4, <1>5

LEMMA CrashAct ==
  ASSUME Inv, ActInv, CrashStep
  PROVE  ActInv'
<1> USE DEF ActInv
<1>1. /\ UNCHANGED <<request, loaded, hook, leased, sent, receipts>>
      /\ sw' = [t \in Threads |-> SwitchIdle] /\ wk' = WorkerIdle
      /\ srv' = [h \in Hooks |-> ServerIdle]
  BY DEF CrashStep, Crash, outside, diskVars, history, stopVars
<1>2. /\ \A t \in Threads : sw'[t].pc = "idle"
      /\ \A h \in Hooks : srv'[h].pc = "idle"
      /\ wk'.pc = "none" /\ Worker \in Threads
  BY <1>1 DEF SwitchIdle, WorkerIdle, ServerIdle, Threads
<1>3. RequestInv'
  BY <1>1, <1>2 DEF RequestInv, AutoCompletedWasAdopted
<1>4. ServeInv'
  BY <1>2 DEF ServeInv
<1>5. LeaseInv'
  BY <1>1, <1>2 DEF LeaseInv, KnowsRequest
<1>6. TypedInv'
  <2>1. budget["crash"] \in Nat /\ budget["crash"] > 0 /\ budget'["crash"] = budget["crash"] - 1
    BY DEF CrashStep, Spend, Kinds, Inv, TypeOK
  <2>2. Budget["crash"] \in Nat
    BY BudgetIsNatural DEF Kinds
  <2> QED
    BY <2>1, <2>2 DEF TypedInv
<1> QED
  BY <1>3, <1>4, <1>5, <1>6

(* Steps of the thread that serves a Stop hook, one by one. *)
LEMMA QueuedAct ==
  ASSUME Inv, ActInv, NEW h \in Hooks, Queued(h)
  PROVE  ActInv'
<1> USE DEF ActInv
<1>1. /\ srv[h].pc = "locked" /\ binding = srv[h].session /\ ~RequestIsActive
      /\ request' = [id |-> NextId, session |-> binding, status |-> "queued"]
      /\ srv' = [srv EXCEPT ![h] = [pc |-> "reply", session |-> binding, id |-> NextId]]
      /\ UNCHANGED <<wk, sw, serve, loaded, leased, sent, receipts, budget>>
  BY DEF Queued, QueueNew, history
<1>2. /\ srv'[h].pc = "reply" /\ srv'[h].session = binding /\ srv'[h].id = NextId
      /\ \A g \in Hooks \ {h} : srv'[g] = srv[g]
  BY <1>1 DEF Inv, TypeOK, ControllerTypeOK
<1>3. /\ NextId \in Nat /\ NextId > 0
      /\ request # None => request.id \in Nat /\ request.id < NextId
      /\ request' # None
  BY <1>1, NoneAndTornAreNoData DEF NextId, Requests, Inv, TypeOK, ControllerTypeOK, RequestInv, StatusReady, Active, SafetyInv, SessionInv
<1>4. binding \in Sessions
  BY <1>1 DEF Inv, SafetyInv, SessionInv
<1>5. \A i, s : KnowsRequest(i, s) => KnowsRequest(i, s)' /\ i # NextId
  BY <1>1, <1>3, <1>4, KnowledgeStays DEF Inv, Active, KnowsRequest
<1>6. request'.id = NextId /\ request'.session = binding
  BY <1>1
<1>7. /\ \A g \in Hooks : hook'[g].pc = hook[g].pc /\ hook'[g].session = hook[g].session
      /\ \A g \in Hooks \ {h} : hook'[g] = hook[g]
      /\ hook'[h].queued = hook[h].queued \/ (hook'[h].queued = NextId /\ hook[h].pc = "waiting")
  BY DEF Queued, Inv, TypeOK, HookProgress
<1>8. /\ wk.pc \notin {"inspect", "moved", "stayed", "judge", "run", "switching"}
      /\ wk.pc = "finish" => wk.verdict = "failed_closed"
      /\ wk.pc # "none" => wk.id # NextId
      /\ sw[Worker].pc = "idle" /\ serve = "up"
  BY <1>1, <1>5 DEF RequestInv, ServeInv, RequestIsActive, OwnRequest
<1>9. RequestInv'
  <2>1. \A g \in Hooks : srv'[g].pc \in {"reply", "start"} => KnowsRequest(srv[g].id, srv[g].session)'
    <3> SUFFICES ASSUME NEW g \in Hooks, srv'[g].pc \in {"reply", "start"}
                 PROVE  KnowsRequest(srv[g].id, srv[g].session)'
      OBVIOUS
    <3>1. CASE g = h
      BY <1>2, <1>3, <1>6, <3>1 DEF KnowsRequest
    <3>2. CASE g # h
      <4>1. srv'[g] = srv[g] /\ KnowsRequest(srv[g].id, srv[g].session)
        BY <1>2, <3>2 DEF RequestInv
      <4> QED
        BY <1>5, <4>1 DEF KnowsRequest
    <3> QED
      BY <3>1, <3>2
  <2>2. wk'.pc # "none" => KnowsRequest(wk.id, wk.session)'
    <3>1. wk' = wk
      BY <1>1
    <3>2. wk.pc # "none" => KnowsRequest(wk.id, wk.session)
      BY DEF RequestInv
    <3> QED
      BY <1>5, <3>1, <3>2 DEF KnowsRequest
  <2>3. AutoCompletedWasAdopted'
    BY <1>1 DEF AutoCompletedWasAdopted
  <2>4. request'.id > 0
    BY <1>1, <1>3
  <2> QED
    BY <1>1, <1>8, <2>1, <2>2, <2>3, <2>4 DEF RequestInv
<1>10. ServeInv'
  BY <1>1, <1>8 DEF ServeInv
<1>11. LeaseInv'
  <2>1. hook[h].pc = "waiting" => hook[h].session = binding
    BY <1>1 DEF LeaseInv
  <2>2. \A g \in Hooks : hook'[g].queued # 0 =>
          /\ hook'[g].pc # "off"
          /\ KnowsRequest(hook[g].queued, hook[g].session)'
          /\ wk.pc # "none" /\ wk.id = hook'[g].queued =>
               wk.session = hook'[g].session /\ wk.pc \in {"lease", "finish", "clear"}
          /\ \A e \in Hooks : srv'[e].pc \in {"reply", "start"} /\ srv'[e].id = hook'[g].queued =>
               srv'[e].session = hook'[g].session
    <3> SUFFICES ASSUME NEW g \in Hooks, hook'[g].queued # 0
                 PROVE  /\ hook'[g].pc # "off"
                        /\ KnowsRequest(hook[g].queued, hook[g].session)'
                        /\ wk.pc # "none" /\ wk.id = hook'[g].queued =>
                             wk.session = hook'[g].session /\ wk.pc \in {"lease", "finish", "clear"}
                        /\ \A e \in Hooks :
                             srv'[e].pc \in {"reply", "start"} /\ srv'[e].id = hook'[g].queued =>
                               srv'[e].session = hook'[g].session
      OBVIOUS
    <3>1. CASE hook'[g].queued = hook[g].queued
      <4>1. hook[g].pc # "off" /\ KnowsRequest(hook[g].queued, hook[g].session)
        BY <3>1 DEF LeaseInv
      <4>2. KnowsRequest(hook[g].queued, hook[g].session)' /\ hook[g].queued # NextId
        BY <1>5, <1>7, <3>1, <4>1 DEF KnowsRequest
      <4>3. \A e \in Hooks : srv'[e].pc \in {"reply", "start"} /\ srv'[e].id = hook'[g].queued =>
              srv'[e].session = hook'[g].session
        BY <1>2, <1>7, <3>1, <4>2 DEF LeaseInv
      <4> QED
        BY <1>7, <3>1, <4>1, <4>2, <4>3 DEF LeaseInv
    <3>2. CASE g = h /\ hook'[h].queued = NextId /\ hook[h].pc = "waiting"
      <4>1. KnowsRequest(hook[h].queued, hook[h].session)'
        BY <1>3, <1>6, <1>7, <2>1, <3>2 DEF KnowsRequest
      <4>2. \A e \in Hooks : srv'[e].pc \in {"reply", "start"} /\ srv'[e].id = NextId => e = h
        BY <1>2, <1>5 DEF RequestInv
      <4> QED
        BY <1>2, <1>7, <1>8, <2>1, <3>2, <4>1, <4>2
    <3> QED
      BY <1>7, <3>1, <3>2
  <2>3. \A g \in Hooks : hook'[g].pc = "waiting" /\ srv'[g].pc # "idle" => srv'[g].session = hook'[g].session
    BY <1>1, <1>2, <1>7 DEF LeaseInv
  <2> QED
    BY <1>1, <1>7, <2>2, <2>3 DEF LeaseInv
<1>12. TypedInv'
  <2> SUFFICES ASSUME budget["crash"] = Budget["crash"], NEW i \in sent
               PROVE  i \in Nat /\ i < NextId
    BY <1>1, <1>3, <1>6 DEF TypedInv
  <2>1. request # None /\ i <= request.id /\ i \in Nat
    BY DEF TypedInv, Inv, TypeOK, ControllerTypeOK
  <2> QED
    BY <1>3, <2>1
<1> QED
  BY <1>9, <1>10, <1>11, <1>12

(* A step of that thread which learns no other request than it knew, or the *)
(* active one, for the session it serves.                                   *)
Answers(h) ==
  /\ UNCHANGED <<request, wk, sw, serve, loaded, leased, sent, receipts, budget>>
  /\ \A g \in Hooks \ {h} : srv'[g] = srv[g]
  /\ srv[h].pc # "idle"
  /\ srv'[h].pc # "idle" => srv'[h].session = srv[h].session
  /\ srv'[h].pc \in {"reply", "start"} =>
       \/ srv[h].pc \in {"reply", "start"} /\ srv'[h].id = srv[h].id
       \/ request # None /\ srv'[h].id = request.id /\ srv'[h].session = request.session
  /\ \A g \in Hooks : /\ hook'[g].session = hook[g].session /\ hook'[g].queued = hook[g].queued
                      /\ hook'[g].pc = "off" <=> hook[g].pc = "off"
                      /\ hook'[g].pc = "waiting" => hook[g].pc = "waiting"

LEMMA AnswersAct ==
  ASSUME Inv, ActInv, NEW h \in Hooks, Answers(h)
  PROVE  ActInv'
<1> USE DEF ActInv
<1>1. \A g \in Hooks : srv'[g].pc \in {"reply", "start"} => KnowsRequest(srv[g].id, srv[g].session)'
  <2> SUFFICES ASSUME NEW g \in Hooks, srv'[g].pc \in {"reply", "start"}
               PROVE  KnowsRequest(srv[g].id, srv[g].session)'
    OBVIOUS
  <2>1. CASE srv'[g].id = srv[g].id /\ srv'[g].session = srv[g].session /\ srv[g].pc \in {"reply", "start"}
    BY <2>1 DEF RequestInv, KnowsRequest, Answers
  <2>2. CASE request # None /\ srv'[g].id = request.id /\ srv'[g].session = request.session
    BY <2>2 DEF RequestInv, KnowsRequest, Answers, Inv, TypeOK, ControllerTypeOK, Requests
  <2> QED
    BY <2>1, <2>2 DEF Answers
<1>2. RequestInv'
  BY <1>1 DEF Answers, RequestInv, KnowsRequest, OwnRequest, AutoCompletedWasAdopted
<1>3. ServeInv'
  BY DEF Answers, ServeInv
<1>4. LeaseInv'
  <2>1. \A e, g \in Hooks :
          hook[e].queued # 0 /\ srv'[g].pc \in {"reply", "start"} /\ srv'[g].id = hook[e].queued =>
            srv'[g].session = hook[e].session
    <3> SUFFICES ASSUME NEW e \in Hooks, NEW g \in Hooks, hook[e].queued # 0,
                        srv'[g].pc \in {"reply", "start"}, srv'[g].id = hook[e].queued
                 PROVE  srv'[g].session = hook[e].session
      OBVIOUS
    <3>1. CASE srv'[g].id = srv[g].id /\ srv'[g].session = srv[g].session /\ srv[g].pc \in {"reply", "start"}
      BY <3>1 DEF LeaseInv
    <3>2. CASE request # None /\ srv'[g].id = request.id /\ srv'[g].session = request.session
      BY <3>2 DEF LeaseInv, KnowsRequest
    <3> QED
      BY <3>1, <3>2 DEF Answers
  <2>2. \A g \in Hooks : hook[g].queued # 0 => KnowsRequest(hook[g].queued, hook[g].session)
    BY DEF LeaseInv
  <2>3. \A g \in Hooks : hook'[g].queued # 0 => KnowsRequest(hook[g].queued, hook[g].session)'
    BY <2>2 DEF Answers, KnowsRequest
  <2>4. \A g \in Hooks : hook'[g].pc = "waiting" /\ srv'[g].pc # "idle" => srv'[g].session = hook'[g].session
    BY DEF Answers, LeaseInv
  <2> QED
    BY <2>1, <2>3, <2>4 DEF Answers, LeaseInv
<1>5. TypedInv'
  BY DEF Answers, TypedInv
<1> QED
  BY <1>2, <1>3, <1>4, <1>5

LEMMA SignalAnswers ==
  ASSUME Inv, NEW h \in Hooks,
         \/ (QueueBegin(h) \/ QueueRefusedEarly(h) \/ QueueAgain(h) \/ QueueRefused(h)) /\ Alone
         \/ Answered(h) \/ HungUp(h)
  PROVE  Answers(h)
<1> USE DEF Inv, TypeOK, ControllerTypeOK, ServerProgress, ServerIdle, Alone, stopVars, diskVars, history
<1>1. CASE (QueueBegin(h) \/ QueueRefusedEarly(h)) /\ Alone
  BY <1>1 DEF QueueBegin, QueueRefusedEarly, Serve, Answers
<1>2. CASE QueueRefused(h) /\ Alone
  BY <1>2 DEF QueueRefused, Answers
<1>3. CASE QueueAgain(h) /\ Alone
  BY <1>3 DEF QueueAgain, RequestIsActive, Answers
<1>4. CASE Answered(h)
  <2>1. /\ srv[h].pc = "reply" /\ srv' = [srv EXCEPT ![h].pc = "start"]
        /\ UNCHANGED <<request, wk, sw, serve, loaded, leased, sent, receipts, budget>>
    BY <1>4 DEF Answered, Reply, Serve
  <2>2. /\ \A g \in Hooks \ {h} : srv'[g] = srv[g]
        /\ srv'[h].session = srv[h].session /\ srv'[h].id = srv[h].id
    BY <2>1
  <2>3. \A g \in Hooks : /\ hook'[g].session = hook[g].session /\ hook'[g].queued = hook[g].queued
                         /\ hook'[g].pc = "off" <=> hook[g].pc = "off"
                         /\ hook'[g].pc = "waiting" => hook[g].pc = "waiting"
    BY <1>4 DEF Answered, HookProgress
  <2> QED
    BY <2>1, <2>2, <2>3 DEF Answers
<1>5. CASE HungUp(h)
  BY <1>5 DEF HungUp, ReplyLost, Answers
<1> QED
  BY <1>1, <1>2, <1>3, <1>4, <1>5

LEMMA StartWorkerAct ==
  ASSUME Inv, ActInv, NEW h \in Hooks, StartWorker(h), Alone
  PROVE  ActInv'
<1> USE DEF ActInv
<1>1. /\ srv[h].pc = "start" /\ srv' = [srv EXCEPT ![h] = ServerIdle]
      /\ UNCHANGED <<request, sw, serve, loaded, hook, leased, sent, receipts, budget>>
      /\ wk' = IF wk.pc = "none" THEN WorkerFor(srv[h].id, srv[h].session) ELSE wk
  BY DEF StartWorker, diskVars, history, Alone, stopVars
<1>2. srv'[h].pc = "idle" /\ \A g \in Hooks \ {h} : srv'[g] = srv[g]
  BY <1>1 DEF ServerIdle, Inv, TypeOK, ControllerTypeOK
<1>3. serve = "up"
  BY <1>1 DEF ServeInv
<1>4. CASE wk.pc # "none"
  <2>1. wk' = wk
    BY <1>1, <1>4
  <2>2. RequestInv'
    BY <1>1, <1>2, <2>1 DEF RequestInv, KnowsRequest, OwnRequest, AutoCompletedWasAdopted
  <2>3. ServeInv'
    BY <1>1, <1>3 DEF ServeInv
  <2>4. LeaseInv'
    BY <1>1, <1>2, <2>1 DEF LeaseInv, KnowsRequest
  <2>5. TypedInv'
    BY <1>1, <2>1 DEF TypedInv
  <2> QED
    BY <2>2, <2>3, <2>4, <2>5
<1>5. CASE wk.pc = "none"
  <2>1. wk'.pc = "lease" /\ wk'.id = srv[h].id /\ wk'.session = srv[h].session
    BY <1>1, <1>5 DEF WorkerFor
  <2>2. KnowsRequest(srv[h].id, srv[h].session)
    BY <1>1 DEF RequestInv
  <2>3. RequestInv'
    BY <1>1, <1>2, <1>5, <2>1, <2>2 DEF RequestInv, KnowsRequest, OwnRequest, AutoCompletedWasAdopted
  <2>4. ServeInv'
    BY <1>1, <1>3 DEF ServeInv
  <2>5. LeaseInv'
    BY <1>1, <1>2, <2>1 DEF LeaseInv, KnowsRequest
  <2>6. TypedInv'
    BY <1>1, <1>5, <2>1 DEF TypedInv
  <2> QED
    BY <2>3, <2>4, <2>5, <2>6
<1> QED
  BY <1>4, <1>5

LEMMA SignalAct ==
  ASSUME Inv, ActInv, NEW h \in Hooks, SignalThread(h)
  PROVE  ActInv'
BY QueuedAct, SignalAnswers, AnswersAct, StartWorkerAct DEF SignalThread, HandleSignal

(* Steps of a Stop hook. *)
LEMMA HookAct ==
  ASSUME Inv, ActInv, NEW h \in Hooks,
         \/ \E s \in Sessions : StopHook(h, s)
         \/ PostSignal(h) \/ HookRefused(h) \/ HookDone(h) \/ HookFails(h)
  PROVE  ActInv'
<1> USE DEF ActInv, Inv, TypeOK, ControllerTypeOK, diskVars, processVars, history, seatVars
<1>1. ASSUME NEW s \in Sessions, StopHook(h, s) PROVE ActInv'
  <2>1. /\ hook[h].pc = "off" /\ s \notin leased /\ leased' = leased \cup {s}
        /\ hook' = [hook EXCEPT ![h] = [pc |-> "leased", session |-> s, queued |-> 0]]
        /\ UNCHANGED <<request, srv, wk, sw, serve, loaded, sent, receipts>>
        /\ budget'["crash"] = budget["crash"]
    BY <1>1 DEF StopHook, Spend
  <2>2. /\ hook'[h].pc = "leased" /\ hook'[h].session = s /\ hook'[h].queued = 0
        /\ \A g \in Hooks \ {h} : hook'[g] = hook[g]
    BY <2>1
  <2>3. RequestInv'
    BY <2>1 DEF RequestInv, KnowsRequest, OwnRequest, AutoCompletedWasAdopted
  <2>4. ServeInv'
    BY <2>1 DEF ServeInv
  <2>5. LeaseInv'
    BY <2>1, <2>2 DEF LeaseInv, KnowsRequest
  <2>6. TypedInv'
    BY <2>1 DEF TypedInv
  <2> QED
    BY <2>3, <2>4, <2>5, <2>6
<1>2. CASE PostSignal(h)
  <2>1. /\ hook[h].pc = "leased" /\ serve = "up" /\ hook' = [hook EXCEPT ![h].pc = "waiting"]
        /\ srv' = [srv EXCEPT ![h] = [pc |-> "arrived", session |-> hook[h].session, id |-> 0]]
        /\ UNCHANGED <<request, wk, sw, serve, loaded, leased, sent, receipts, budget>>
    BY <1>2 DEF PostSignal, HookGoto
  <2>2. /\ hook'[h].pc = "waiting" /\ hook'[h].session = hook[h].session
        /\ hook'[h].queued = hook[h].queued
        /\ \A g \in Hooks \ {h} : hook'[g] = hook[g]
        /\ srv'[h].pc = "arrived" /\ srv'[h].session = hook[h].session
        /\ \A g \in Hooks \ {h} : srv'[g] = srv[g]
    BY <2>1 DEF HookProgress
  <2>3. RequestInv'
    BY <2>1, <2>2 DEF RequestInv, KnowsRequest, OwnRequest, AutoCompletedWasAdopted
  <2>4. ServeInv'
    BY <2>1 DEF ServeInv
  <2>5. LeaseInv'
    BY <2>1, <2>2 DEF LeaseInv, KnowsRequest
  <2>6. TypedInv'
    BY <2>1 DEF TypedInv
  <2> QED
    BY <2>3, <2>4, <2>5, <2>6
<1>3. CASE HookRefused(h) \/ HookDone(h) \/ HookFails(h)
  <2>1. /\ hook[h].pc # "off" /\ leased' = leased \ {hook[h].session}
        /\ hook' = [hook EXCEPT ![h] = HookOff]
        /\ UNCHANGED <<request, srv, wk, sw, serve, loaded, sent, receipts, budget>>
    BY <1>3 DEF HookRefused, HookDone, HookFails, Exit
  <2>2. /\ hook'[h].pc = "off" /\ hook'[h].queued = 0
        /\ \A g \in Hooks \ {h} : hook'[g] = hook[g]
    BY <2>1 DEF HookOff
  <2>3. RequestInv'
    BY <2>1 DEF RequestInv, KnowsRequest, OwnRequest, AutoCompletedWasAdopted
  <2>4. ServeInv'
    BY <2>1 DEF ServeInv
  <2>5. LeaseInv'
    BY <2>1, <2>2 DEF LeaseInv, KnowsRequest
  <2>6. TypedInv'
    BY <2>1 DEF TypedInv
  <2> QED
    BY <2>3, <2>4, <2>5, <2>6
<1> QED
  BY <1>1, <1>2, <1>3

LEMMA ActStep == Inv /\ HistInv /\ ActInv /\ [Next]_vars => ActInv'
<1> SUFFICES ASSUME Inv, HistInv, ActInv, [Next]_vars PROVE ActInv'
  OBVIOUS
<1> USE DEF cvars, diskVars, swRest, processVars, history, seatVars, stopVars, Spend
<1>1. CASE Process
  <2>1. ASSUME NEW t \in Confirmers, ConfirmReply(t), Alone PROVE ActInv'
    BY <2>1, ConfirmAct DEF Alone
  <2> QED
    BY <1>1, <2>1, SwitchAct, SignalAct, WorkAct, AdoptAct, BootStartAct, BootResumeAct DEF Process
<1>2. CASE StartHooks \/ (\E s \in Sessions : KimiNew(s))
  <2>1. ASSUME NEW s \in Sessions,
               \/ FreezeCreate(s) \/ FreezeWrite(s) \/ FreezeFound(s) \/ FreezeConflict(s)
               \/ PostAdoption(s) \/ AdoptionRefused(s) \/ KimiNew(s)
        PROVE  /\ UNCHANGED <<request, srv, wk, sw, serve, loaded, hook, leased, sent, receipts>>
               /\ budget'["crash"] = budget["crash"]
    BY <2>1 DEF FreezeCreate, FreezeWrite, FreezeFound, FreezeConflict, PostAdoption,
                AdoptionRefused, KimiNew, adoptRest
  <2> QED
    BY <1>2, <2>1, ActUntouched DEF StartHooks
<1>3. CASE StopHooks
  <2>1. ASSUME NEW s \in Sessions, StopReleased(s) PROVE ActInv'
    <3>1. /\ UNCHANGED <<request, srv, wk, sw, serve, loaded, hook, leased, sent, receipts>>
          /\ budget'["crash"] = budget["crash"]
      BY <2>1 DEF StopReleased
    <3> QED
      BY <3>1, ActUntouched
  <2> QED
    BY <1>3, <2>1, HookAct DEF StopHooks
<1>4. CASE People
  <2>1. ASSUME \/ \E s \in Sessions : UserSwitches(s) \/ MarkDone(s)
               \/ \E m \in Modes : ModeStep(m)
        PROVE  ActInv'
    <3>1. UNCHANGED <<request, srv, wk, sw, serve, loaded, hook, leased, sent, receipts>>
      BY <2>1 DEF UserSwitches, MarkDone, CreateMarker, ModeStep, SetMode
    <3>2. budget' = budget \/ \E k \in {"user", "mode"} : budget' = [budget EXCEPT ![k] = @ - 1]
      BY <2>1 DEF UserSwitches, MarkDone, ModeStep
    <3>3. budget'["crash"] = budget["crash"]
      BY <3>2 DEF Inv, TypeOK, Kinds
    <3> QED
      BY <3>1, <3>3, ActUntouched
  <2>2. ASSUME NEW t \in Confirmers, ConfirmStep(t) PROVE ActInv'
    BY <2>2, ConfirmAct DEF ConfirmStep
  <2> QED
    BY <1>4, <2>1, <2>2, CrashAct DEF People
<1>5. CASE Faults
  <2>1. ASSUME KimiIgnores \/ \E s \in Sessions : StartHookFails(s) PROVE ActInv'
    <3>1. /\ UNCHANGED <<request, srv, wk, sw, serve, loaded, hook, leased, sent, receipts>>
          /\ budget'["crash"] = budget["crash"]
      BY <2>1 DEF KimiIgnores, StartHookFails
    <3> QED
      BY <3>1, ActUntouched
  <2> QED
    BY <1>5, <2>1, HookAct, AdoptAct DEF Faults
<1>6. CASE UNCHANGED vars
  BY <1>6, ActUntouched DEF vars
<1> QED
  BY <1>1, <1>2, <1>3, <1>4, <1>5, <1>6 DEF Next, Cooperative

(***************************************************************************)
(* When the worker types.                                                  *)
(***************************************************************************)
LEMMA WorkerTypes ==
  ASSUME Inv, [Next]_vars, Types(Worker)
  PROVE  sw[Worker].pc = "send"
<1> USE DEF Inv, TypeOK, ControllerTypeOK, Types
<1>1. typed' # typed /\ typed' # typed - 1
  OBVIOUS
<1>2. ASSUME NEW t \in Threads, ExecuteSwitch(t) PROVE sw[Worker].pc = "send"
  <2>1. SendNew(t)
    BY <1>1, <1>2 DEF ExecuteSwitch, ExecuteSwitchBegin, ExecuteSwitchRefused, ExecuteSwitchCreate,
                      ExecuteSwitchWrite, SendFailed, DropSwitch, SendOvertaken, Poll, PollCheck,
                      PollTimeout
  <2>2. t = Worker
    BY <2>1 DEF SendNew, Goto
  <2> QED
    BY <2>1, <2>2 DEF SendNew
<1>3. ASSUME \/ \E t \in Confirmers : Confirm(t) \/ ConfirmReply(t)
             \/ WorkerRun \/ WorkerSwitched \/ Adopt \/ AdoptFails \/ BootStart \/ Crash
             \/ \E s \in Sessions : PostAdoption(s) \/ FreezeCreate(s) \/ FreezeWrite(s)
      PROVE  FALSE
  <2>1. typed' = typed
    BY <1>3 DEF Confirm, ConfirmReply, WorkerRun, WorkerSwitched, BootStart, Crash, Adopt,
                AdoptVerify, AdoptRejects, AdoptFails, AdoptSave, AdoptCallback, AdoptReceipt,
                AdoptUnswitch, AdoptClear, PostAdoption, FreezeCreate, FreezeWrite, wkRest,
                adoptRest, outside
  <2> QED
    BY <1>1, <2>1
<1>4. ~UNCHANGED hvars
  BY DEF hvars
<1> QED
  BY <1>2, <1>3, <1>4, HistSteps

(* The worker never types /new while the hook that queued its request is   *)
(* alive, whatever other hooks, people and restarts do in between.         *)
THEOREM TypedAfterQueuingHookHolds == Spec => TypedAfterQueuingHook
<1>1. Inv /\ ActInv /\ [Next]_vars =>
        (Types(Worker) => (\A h \in Hooks : hook[h].queued # wk.id))
  <2> SUFFICES ASSUME Inv, ActInv, [Next]_vars, Types(Worker), NEW h \in Hooks
               PROVE  hook[h].queued # wk.id
    OBVIOUS
  <2>1. sw[Worker].pc = "send"
    BY WorkerTypes
  <2>2. wk.pc = "switching" /\ KnowsRequest(wk.id, wk.session)
    BY <2>1 DEF ActInv, RequestInv
  <2>3. wk.id # 0
    BY <2>2 DEF KnowsRequest, Inv, TypeOK, ControllerTypeOK, Requests
  <2> QED
    BY <2>2, <2>3 DEF ActInv, LeaseInv
<1> QED
  BY InitInv, InvStep, HistInitInv, HistStep, ActInitInv, ActStep, <1>1, PTL
  DEF Spec, TypedAfterQueuingHook

(* A controller that was started in the manual mode types nothing on its   *)
(* own.                                                                    *)
THEOREM ManualNeverTypesAloneHolds == Spec => ManualNeverTypesAlone
<1>1. Inv /\ ActInv /\ [Next]_vars => (Types(Worker) => loaded = "automatic")
  BY WorkerTypes DEF ActInv, ServeInv
<1> QED
  BY InitInv, InvStep, HistInitInv, HistStep, ActInitInv, ActStep, <1>1, PTL
  DEF Spec, ManualNeverTypesAlone

(* Until serve is restarted, /new is typed at most once for a request.     *)
THEOREM TypedOnceUnlessRestartedHolds == Spec => TypedOnceUnlessRestarted
<1>1. Inv /\ ActInv /\ [Next]_vars =>
        (Types(Worker) /\ budget["crash"] = Budget["crash"] => wk.id \notin sent)
  <2> SUFFICES ASSUME Inv, ActInv, [Next]_vars, Types(Worker),
                      budget["crash"] = Budget["crash"], wk.id \in sent
               PROVE  FALSE
    OBVIOUS
  <2>1. sw[Worker].pc = "send"
    BY WorkerTypes
  <2>2. wk.pc = "switching" /\ OwnRequest /\ request.status \notin Final
    BY <2>1 DEF ActInv, RequestInv, Active, Final
  <2> QED
    BY <2>1, <2>2 DEF ActInv, TypedInv, OwnRequest
<1> QED
  BY InitInv, InvStep, HistInitInv, HistStep, ActInitInv, ActStep, <1>1, PTL
  DEF Spec, TypedOnceUnlessRestarted

(* The status of the request is written by the worker that has claimed it, *)
(* by one that is done with it, by a restart, and with the next request.   *)
LEMMA StatusWriters ==
  ASSUME [Next]_vars
  PROVE  \/ UNCHANGED request
         \/ WorkerClaim \/ WorkerRun \/ WorkerFinish \/ BootResume
         \/ \E h \in Hooks : Queued(h)
<1> USE DEF vars, cvars, diskVars, swRest, processVars, history, seatVars, stopVars, outside,
            wkRest, adoptRest
<1>1. CASE Process
  <2>1. ASSUME NEW t \in Threads, ExecuteSwitch(t) PROVE UNCHANGED request
    BY <2>1 DEF ExecuteSwitch, ExecuteSwitchBegin, ExecuteSwitchRefused, ExecuteSwitchCreate,
                ExecuteSwitchWrite, SendNew, SendFailed, DropSwitch, SendOvertaken, Poll,
                PollCheck, PollTimeout
  <2>2. ASSUME NEW h \in Hooks, SignalThread(h) PROVE UNCHANGED request \/ Queued(h)
    BY <2>2 DEF SignalThread, HandleSignal, Answered, HungUp, Reply, ReplyLost, Serve,
                QueueBegin, QueueRefusedEarly, QueueAgain, QueueRefused, StartWorker
  <2>3. ASSUME Work PROVE UNCHANGED request \/ WorkerClaim \/ WorkerRun \/ WorkerFinish
    BY <2>3 DEF Work, WorkerLease, WorkerLeaseTimeout, WorkerNotActive, WorkerInspect,
                WorkerMoved, WorkerStayed, WorkerReady, WorkerNotReady, WorkerSwitched, WorkerClear
  <2>4. ASSUME \/ \E t \in Confirmers : ConfirmReply(t)
               \/ Adopt \/ BootStart
        PROVE  UNCHANGED request
    BY <2>4 DEF ConfirmReply, BootStart, Adopt, AdoptVerify, AdoptRejects, AdoptSave,
                AdoptCallback, AdoptReceipt, AdoptUnswitch, AdoptClear
  <2> QED
    BY <1>1, <2>1, <2>2, <2>3, <2>4 DEF Process
<1>2. CASE StartHooks \/ StopHooks
  BY <1>2 DEF StartHooks, StopHooks, FreezeCreate, FreezeWrite, FreezeFound, FreezeConflict,
              PostAdoption, AdoptionRefused, StopReleased, StopHook, PostSignal, HookRefused, HookDone
<1>3. CASE People
  BY <1>3 DEF People, UserSwitches, MarkDone, CreateMarker, CrashStep, Crash, ConfirmStep, Confirm,
              ModeStep, SetMode
<1>4. CASE Faults \/ \E s \in Sessions : KimiNew(s)
  BY <1>4 DEF Faults, KimiIgnores, StartHookFails, HookFails, KimiNew, AdoptFails
<1> QED
  BY <1>1, <1>2, <1>3, <1>4 DEF Next, Cooperative

(* Once a request has a final status, it can only become failed_closed,    *)
(* whatever workers are started for it and however serve is restarted.     *)
THEOREM FinalMayOnlyFailHolds == Spec => FinalMayOnlyFail
<1>1. Inv /\ ActInv /\ [Next]_vars =>
        (request # None /\ request.status \in Final /\ request'.id = request.id
           => request'.status \in {request.status, "failed_closed"})
  <2> SUFFICES ASSUME Inv, ActInv, [Next]_vars, request # None, request.status \in Final,
                      request'.id = request.id, request' # request
               PROVE  request'.status \in {request.status, "failed_closed"}
    OBVIOUS
  <2>1. /\ request \in Requests /\ request.id \in Nat
        /\ request.status \notin Active
    BY DEF Inv, TypeOK, ControllerTypeOK, Requests, Active, Final
  <2>2. CASE WorkerClaim
    BY <2>1, <2>2 DEF WorkerClaim, Claimable
  <2>3. CASE WorkerRun
    BY <2>1, <2>3 DEF WorkerRun, ActInv, RequestInv
  <2>4. CASE WorkerFinish
    <3>1. OwnRequest /\ request' = WithStatus(wk.verdict) /\ wk.verdict = "failed_closed"
      BY <2>1, <2>4 DEF WorkerFinish, WithStatus, ActInv, RequestInv
    <3>2. request'.status = "failed_closed"
      BY <2>1, <3>1 DEF WithStatus, Requests
    <3> QED
      BY <3>2
  <2>5. CASE BootResume
    BY <2>1, <2>5 DEF BootResume, RequestIsActive
  <2>6. ASSUME NEW h \in Hooks, Queued(h) PROVE FALSE
    <3>1. request'.id = NextId
      BY <2>6 DEF Queued, QueueNew
    <3> QED
      BY <2>1, <3>1 DEF NextId
  <2> QED
    BY <2>2, <2>3, <2>4, <2>5, <2>6, StatusWriters
<1> QED
  BY InitInv, InvStep, HistInitInv, HistStep, ActInitInv, ActStep, <1>1, PTL
  DEF Spec, FinalMayOnlyFail

(* An automatic request is recorded as completed only when an automatic    *)
(* switch away from its session was adopted, before or after a restart.    *)
THEOREM AutoCompletedWasAdoptedHolds == Spec => []AutoCompletedWasAdopted
<1>1. ActInv => AutoCompletedWasAdopted
  BY DEF ActInv, RequestInv
<1> QED
  BY InitInv, InvStep, HistInitInv, HistStep, ActInitInv, ActStep, <1>1, PTL DEF Spec

(* What these theorems rest on.                                            *)
THEOREM OwnershipHolds == Spec => []OwnershipInv
<1>1. HistInv /\ ActInv => OwnershipInv
  BY DEF HistInv, ActInv, OwnershipInv
<1> QED
  BY InitInv, InvStep, HistInitInv, HistStep, ActInitInv, ActStep, <1>1, PTL DEF Spec
=============================================================================
