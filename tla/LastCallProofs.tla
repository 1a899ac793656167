--------------------------- MODULE LastCallProofs ---------------------------
(***************************************************************************)
(* Proofs about LastCall for any set of sessions, threads and hooks and    *)
(* any budgets.  SafetyInv is inductive together with TypeOK; each lemma   *)
(* below takes one group of actions and shows that it preserves both.      *)
(***************************************************************************)
EXTENDS LastCall, TLAPS

USE NoneAndTornAreNoData, OwnersAreDistinct DEF Threads, Owners

Inv == TypeOK /\ SafetyInv

LEMMA InitInv == Init => Inv
<1> SUFFICES ASSUME Init PROVE Inv
  OBVIOUS
<1> USE DEF Init, ControllerInit, SwitchIdle, WorkerIdle, ServerIdle, AdoptIdle, HookOff
<1>1. TypeOK
  BY BoundsAreSound, BudgetIsNatural
  DEF TypeOK, ControllerTypeOK, Modes, SwitchProgress, WorkerProgress, ServerProgress,
      AdoptProgress, HookProgress
<1>2. SafetyInv
  BY DEF SafetyInv, LockInv, SessionInv, SwitchInv, FreezeInv, AdoptInv, DiskInv,
         SwitchNamesBinding, ReceiptNamesBinding, Returned, Switches
<1> QED
  BY <1>1, <1>2 DEF Inv

(* What a thread past its check writes is well-formed. *)
LEMMA OwnSwitchIsSwitch ==
  ASSUME TypeOK, SessionInv, NEW t \in Threads, sw[t].pc \notin {"idle"} \cup Returned
  PROVE  /\ SwitchOf(t) \in Switches
         /\ SwitchOf(t).op = sw[t].op /\ SwitchOf(t).old = sw[t].old
         /\ Failed(SwitchOf(t)) \in Receipts
         /\ Failed(SwitchOf(t)).op = sw[t].op /\ ~Failed(SwitchOf(t)).completed
BY DEF TypeOK, ControllerTypeOK, SwitchProgress, SessionInv, SwitchOf, SourceOf, Failed, Switches,
       Receipts, Sources, Returned

(* The receipt of a completed switch. *)
LEMMA CompletedIsReceipt ==
  ASSUME NEW w \in Switches, NEW s \in Sessions
  PROVE  /\ Completed(w, s) \in Receipts
         /\ Completed(w, s).completed /\ Completed(w, s).new = s /\ Completed(w, s).op = w.op
BY DEF Completed, Switches, Receipts

(* An event of the environment uses up some of its budget. *)
LEMMA SpendType ==
  ASSUME TypeOK, NEW k \in Kinds, Spend(k)
  PROVE  budget' \in [Kinds -> Nat]
BY DEF TypeOK, Spend

Conclusion(v) == [wk EXCEPT !.pc = "finish", !.verdict = v]

LEMMA ConclusionType ==
  ASSUME TypeOK, NEW v \in Final
  PROVE  Conclusion(v) \in WorkerProgress
BY DEF Conclusion, TypeOK, ControllerTypeOK, WorkerProgress

WithStatus(v) == [request EXCEPT !.status = v]

LEMMA StatusType ==
  ASSUME TypeOK, NEW v \in Active \cup Final, request # None
  PROVE  WithStatus(v) \in Requests
BY DEF WithStatus, TypeOK, ControllerTypeOK, Requests

(* Who leaves the files, adopt() and the SessionStart hooks alone and puts *)
(* no thread into a section of _execute_switch keeps what is said of them. *)
onDisk == <<binding, pending, switch, receipt, receipts, adopt, startHook>>
NoNewSection ==
  \A t \in Threads : sw'[t] = sw[t] \/ sw'[t].pc \notin {"create", "write", "drop"}

LEMMA DiskUntouched ==
  ASSUME SwitchInv, FreezeInv, AdoptInv, DiskInv, UNCHANGED onDisk, NoNewSection
  PROVE  SwitchInv' /\ FreezeInv' /\ AdoptInv' /\ DiskInv'
<1> USE DEF onDisk, NoNewSection
<1>1. SwitchInv'
  BY DEF SwitchInv
<1>2. FreezeInv'
  BY DEF FreezeInv
<1>3. AdoptInv'
  BY DEF AdoptInv, MayAdopt
<1>4. DiskInv'
  BY DEF DiskInv, SwitchNamesBinding, ReceiptNamesBinding
<1> QED
  BY <1>1, <1>2, <1>3, <1>4

(* _execute_switch, in the thread of a confirm request or in the worker. *)
LEMMA SwitchStep ==
  ASSUME Inv, NEW t \in Threads, ExecuteSwitch(t), Alone
  PROVE  Inv'
<1> USE DEF Inv, TypeOK, ControllerTypeOK, SafetyInv, diskVars, processVars, history, cvars,
            seatVars, stopVars, outside, wkRest, adoptRest, swRest, Alone, Goto, Take, Free, Pass
<1>1. CASE ExecuteSwitchBegin(t)
  <2> USE <1>1 DEF ExecuteSwitchBegin, Preflight, StatusReady
  <2>1. TypeOK'
    BY DEF SwitchProgress, Returned
  <2>2. LockInv' /\ SessionInv'
    BY DEF LockInv, SessionInv, Returned
  <2>3. SwitchInv' /\ FreezeInv'
    BY DEF SwitchInv, FreezeInv, LockInv
  <2>4. AdoptInv'
    BY DEF AdoptInv, SwitchInv, FreezeInv, LockInv, MayAdopt, SwitchNamesBinding, Switches
  <2>5. DiskInv'
    BY DEF AdoptInv, DiskInv, SwitchInv, FreezeInv, LockInv, MayAdopt, SwitchNamesBinding,
       ReceiptNamesBinding, SwitchNamesBinding, Switches
  <2> QED
    BY <2>1, <2>2, <2>3, <2>4, <2>5
<1>2. CASE ExecuteSwitchRefused(t)
  <2> USE <1>2 DEF ExecuteSwitchRefused
  <2>1. TypeOK'
    BY DEF SwitchProgress, Returned
  <2>2. LockInv' /\ SessionInv'
    BY DEF LockInv, SessionInv, Returned
  <2>3. UNCHANGED onDisk /\ NoNewSection
    BY DEF onDisk, NoNewSection, Returned
  <2> QED
    BY <2>1, <2>2, <2>3, DiskUntouched
<1>3. CASE ExecuteSwitchCreate(t)
  <2> USE <1>3 DEF ExecuteSwitchCreate
  <2>1. TypeOK'
    BY DEF SwitchProgress, Returned
  <2>2. LockInv' /\ SessionInv'
    BY DEF LockInv, SessionInv, Returned
  <2>3. SwitchInv' /\ FreezeInv'
    BY DEF SwitchInv, FreezeInv, LockInv
  <2>4. AdoptInv'
    BY DEF AdoptInv, SwitchInv, FreezeInv, LockInv, MayAdopt, Switches
  <2>5. DiskInv'
    BY DEF AdoptInv, DiskInv, SwitchInv, FreezeInv, LockInv, MayAdopt, SwitchNamesBinding,
       ReceiptNamesBinding, Switches
  <2> QED
    BY <2>1, <2>2, <2>3, <2>4, <2>5
<1>4. CASE ExecuteSwitchWrite(t)
  <2> USE <1>4 DEF ExecuteSwitchWrite
  <2>0. SwitchOf(t) \in Switches /\ SwitchOf(t).old = sw[t].old
    BY OwnSwitchIsSwitch DEF Returned
  <2>1. TypeOK'
    BY <2>0 DEF SwitchProgress, Returned
  <2>2. LockInv' /\ SessionInv'
    BY DEF LockInv, SessionInv, Returned
  <2>3. SwitchInv' /\ FreezeInv'
    BY DEF SwitchInv, FreezeInv, LockInv
  <2>4. AdoptInv'
    BY <2>0 DEF AdoptInv, SwitchInv, FreezeInv, LockInv, MayAdopt
  <2>5. DiskInv'
    BY <2>0 DEF AdoptInv, DiskInv, SwitchInv, FreezeInv, LockInv, MayAdopt, SwitchNamesBinding,
       ReceiptNamesBinding
  <2> QED
    BY <2>1, <2>2, <2>3, <2>4, <2>5
<1>5. CASE SendNew(t)
  <2> USE <1>5 DEF SendNew
  <2>1. TypeOK'
    BY DEF SwitchProgress, Returned, WorkerProgress
  <2>2. LockInv' /\ SessionInv'
    BY DEF LockInv, SessionInv, Returned
  <2>3. UNCHANGED onDisk /\ NoNewSection
    BY DEF onDisk, NoNewSection, Returned
  <2> QED
    BY <2>1, <2>2, <2>3, DiskUntouched
<1>6. CASE SendFailed(t)
  <2> USE <1>6 DEF SendFailed, WriteReceipt
  <2> DEFINE r == Failed(SwitchOf(t))
  <2>0. r \in Receipts /\ r.op = sw[t].op /\ ~r.completed
    BY OwnSwitchIsSwitch DEF Returned
  <2> HIDE DEF r
  <2>a. receipt' = r /\ receipts' = receipts \cup {r}
    BY DEF r
  <2>1. TypeOK'
    BY <2>0, <2>a DEF SwitchProgress, Returned
  <2>2. LockInv' /\ SessionInv'
    BY DEF LockInv, SessionInv, Returned
  <2>3. SwitchInv' /\ FreezeInv'
    BY <2>0, <2>a DEF SwitchInv, FreezeInv, LockInv
  <2>4. AdoptInv'
    BY <2>0, <2>a DEF AdoptInv, SwitchInv, FreezeInv, LockInv, MayAdopt
  <2>5. DiskInv'
    BY <2>0, <2>a DEF AdoptInv, DiskInv, SwitchInv, FreezeInv, LockInv, MayAdopt,
       SwitchNamesBinding, ReceiptNamesBinding
  <2> QED
    BY <2>1, <2>2, <2>3, <2>4, <2>5
<1>7. CASE DropSwitch(t)
  <2> USE <1>7 DEF DropSwitch
  <2>0. SwitchOf(t) \in Switches /\ SwitchOf(t).old = sw[t].old
    BY OwnSwitchIsSwitch DEF Returned
  <2>1. TypeOK'
    BY DEF SwitchProgress, Returned
  <2>2. LockInv' /\ SessionInv'
    BY DEF LockInv, SessionInv, Returned
  <2>3. SwitchInv' /\ FreezeInv'
    BY DEF SwitchInv, FreezeInv, LockInv
  <2>4. AdoptInv'
    BY <2>0 DEF AdoptInv, SwitchInv, FreezeInv, LockInv, MayAdopt
  <2>5. DiskInv'
    BY <2>0 DEF AdoptInv, DiskInv, SwitchInv, FreezeInv, LockInv, MayAdopt, SwitchNamesBinding,
       ReceiptNamesBinding
  <2> QED
    BY <2>1, <2>2, <2>3, <2>4, <2>5
<1>8. CASE SendOvertaken(t)
  <2>0. PICK l \in {"completed", "failed"} : Goto(t, l)
    BY <1>8 DEF SendOvertaken, SettledEnds
  <2>1. sw[t].pc = "senderr" /\ UNCHANGED <<swRest, diskVars, typed, history, lock>>
    BY <1>8 DEF SendOvertaken, Pass
  <2>2. TypeOK'
    BY <2>0, <2>1 DEF SwitchProgress, Returned, diskVars, history
  <2>3. LockInv' /\ SessionInv'
    BY <2>0, <2>1 DEF LockInv, SessionInv, diskVars, Returned
  <2>4. UNCHANGED onDisk /\ NoNewSection
    BY <2>0, <2>1 DEF onDisk, NoNewSection, diskVars, Returned
  <2> QED
    BY <2>2, <2>3, <2>4, DiskUntouched
<1>9. CASE Poll(t)
  <2> USE <1>9 DEF Poll
  <2>1. TypeOK'
    BY DEF SwitchProgress, Returned
  <2>2. LockInv' /\ SessionInv'
    BY DEF LockInv, SessionInv, Returned
  <2>3. UNCHANGED onDisk /\ NoNewSection
    BY DEF onDisk, NoNewSection, Returned
  <2> QED
    BY <2>1, <2>2, <2>3, DiskUntouched
<1>10. CASE PollCheck(t)
  <2>0. PICK l \in {"completed", "failed", "poll"} : Goto(t, l)
    BY <1>10 DEF PollCheck, SettledEnds
  <2>1. sw[t].pc = "check" /\ UNCHANGED <<swRest, diskVars, lock, typed, history>>
    BY <1>10 DEF PollCheck
  <2>2. TypeOK'
    BY <2>0, <2>1 DEF SwitchProgress, Returned, diskVars, history
  <2>3. LockInv' /\ SessionInv'
    BY <2>0, <2>1 DEF LockInv, SessionInv, diskVars, Returned
  <2>4. UNCHANGED onDisk /\ NoNewSection
    BY <2>0, <2>1 DEF onDisk, NoNewSection, diskVars, Returned
  <2> QED
    BY <2>2, <2>3, <2>4, DiskUntouched
<1>11. CASE PollTimeout(t)
  <2> USE <1>11 DEF PollTimeout
  <2>1. TypeOK'
    BY DEF SwitchProgress, Returned
  <2>2. LockInv' /\ SessionInv'
    BY DEF LockInv, SessionInv, Returned
  <2>3. UNCHANGED onDisk /\ NoNewSection
    BY DEF onDisk, NoNewSection, Returned
  <2> QED
    BY <2>1, <2>2, <2>3, DiskUntouched
<1> QED
  BY <1>1, <1>2, <1>3, <1>4, <1>5, <1>6, <1>7, <1>8, <1>9, <1>10, <1>11 DEF ExecuteSwitch

(* run_auto_handoff_worker. *)
LEMMA WorkStep ==
  ASSUME Inv, Work, Alone
  PROVE  Inv'
<1> USE DEF Inv, TypeOK, ControllerTypeOK, SafetyInv, diskVars, processVars, history, cvars,
            seatVars, stopVars, outside, wkRest, adoptRest, swRest, Alone, Pass, WorkerGoto
<1>1. CASE WorkerLease
  <2> USE <1>1 DEF WorkerLease
  <2>1. TypeOK'
    BY DEF WorkerProgress
  <2>2. LockInv' /\ SessionInv'
    BY DEF LockInv, SessionInv, Returned
  <2>3. UNCHANGED onDisk /\ NoNewSection
    BY DEF onDisk, NoNewSection, Returned
  <2> QED
    BY <2>1, <2>2, <2>3, DiskUntouched
<1>2. CASE WorkerLeaseTimeout
  <2> USE <1>2 DEF WorkerLeaseTimeout
  <2>0. PICK v \in Final : wk' = Conclusion(v)
    BY DEF Final, Conclude, Conclusion
  <2>a. wk' \in WorkerProgress /\ wk'.session = wk.session /\ wk'.verdict = v
    BY <2>0, ConclusionType DEF Conclusion, WorkerProgress
  <2>1. TypeOK'
    BY <2>a DEF TypeOK
  <2>2. LockInv' /\ SessionInv'
    BY <2>0, <2>a DEF LockInv, SessionInv, Returned
  <2>3. UNCHANGED onDisk /\ NoNewSection
    BY DEF onDisk, NoNewSection, Returned
  <2> QED
    BY <2>1, <2>2, <2>3, DiskUntouched
<1>3. CASE WorkerClaim
  <2> USE <1>3 DEF WorkerClaim, Claimable, OwnRequest
  <2>0. request' \in Requests
    BY StatusType DEF WithStatus, Active
  <2>1. TypeOK'
    BY <2>0 DEF WorkerProgress
  <2>2. LockInv' /\ SessionInv'
    BY DEF LockInv, SessionInv, Returned
  <2>3. UNCHANGED onDisk /\ NoNewSection
    BY DEF onDisk, NoNewSection, Returned
  <2> QED
    BY <2>1, <2>2, <2>3, DiskUntouched
<1>4. CASE WorkerNotActive
  <2> USE <1>4 DEF WorkerNotActive
  <2>1. TypeOK'
    BY DEF WorkerProgress
  <2>2. LockInv' /\ SessionInv'
    BY DEF LockInv, SessionInv, Returned
  <2>3. UNCHANGED onDisk /\ NoNewSection
    BY DEF onDisk, NoNewSection, Returned
  <2> QED
    BY <2>1, <2>2, <2>3, DiskUntouched
<1>5. CASE WorkerInspect
  <2> USE <1>5 DEF WorkerInspect
  <2>1. TypeOK'
    BY DEF WorkerProgress
  <2>2. LockInv' /\ SessionInv'
    BY DEF LockInv, SessionInv, Returned
  <2>3. UNCHANGED onDisk /\ NoNewSection
    BY DEF onDisk, NoNewSection, Returned
  <2> QED
    BY <2>1, <2>2, <2>3, DiskUntouched
<1>6. CASE WorkerMoved
  <2> USE <1>6 DEF WorkerMoved
  <2>0. PICK v \in Final : wk' = Conclusion(v)
    BY DEF Final, Conclude, Conclusion
  <2>a. wk' \in WorkerProgress /\ wk'.session = wk.session /\ wk'.verdict = v
    BY <2>0, ConclusionType DEF Conclusion, WorkerProgress
  <2>1. TypeOK'
    BY <2>a DEF TypeOK
  <2>2. LockInv' /\ SessionInv'
    BY <2>0, <2>a DEF LockInv, SessionInv, Returned
  <2>3. UNCHANGED onDisk /\ NoNewSection
    BY DEF onDisk, NoNewSection, Returned
  <2> QED
    BY <2>1, <2>2, <2>3, DiskUntouched
<1>7. CASE WorkerStayed
  <2> USE <1>7 DEF WorkerStayed
  <2>0. \/ \E v \in Final : wk' = Conclusion(v)
     \/ wk' = [wk EXCEPT !.pc = "judge"]
    BY DEF Conclude, Conclusion, Final
  <2>c. ASSUME NEW v \in Final, wk' = Conclusion(v)
       PROVE  wk' \in WorkerProgress /\ wk'.session = wk.session /\ wk'.verdict \in Final
    BY <2>c, ConclusionType DEF Conclusion, WorkerProgress
  <2>d. ASSUME wk' = [wk EXCEPT !.pc = "judge"]
       PROVE  wk' \in WorkerProgress /\ wk'.session = wk.session /\ wk'.pc = "judge"
    BY <2>d DEF WorkerProgress
  <2>a. wk' \in WorkerProgress /\ wk'.session = wk.session
    BY <2>0, <2>c, <2>d
  <2>b. wk'.pc = "finish" => wk'.verdict \in Final
    BY <2>0, <2>c, <2>d
  <2>1. TypeOK'
    BY <2>a DEF TypeOK
  <2>2. LockInv' /\ SessionInv'
    BY <2>a, <2>b DEF LockInv, SessionInv, Returned
  <2>3. UNCHANGED onDisk /\ NoNewSection
    BY DEF onDisk, NoNewSection, Returned
  <2> QED
    BY <2>1, <2>2, <2>3, DiskUntouched
<1>8. CASE WorkerReady
  <2> USE <1>8 DEF WorkerReady
  <2>1. TypeOK'
    BY DEF WorkerProgress
  <2>2. LockInv' /\ SessionInv'
    BY DEF LockInv, SessionInv, Returned
  <2>3. UNCHANGED onDisk /\ NoNewSection
    BY DEF onDisk, NoNewSection, Returned
  <2> QED
    BY <2>1, <2>2, <2>3, DiskUntouched
<1>9. CASE WorkerNotReady
  <2> USE <1>9 DEF WorkerNotReady
  <2>0. PICK v \in Final : wk' = Conclusion(v)
    BY DEF Final, Conclude, Conclusion
  <2>a. wk' \in WorkerProgress /\ wk'.session = wk.session /\ wk'.verdict = v
    BY <2>0, ConclusionType DEF Conclusion, WorkerProgress
  <2>1. TypeOK'
    BY <2>a DEF TypeOK
  <2>2. LockInv' /\ SessionInv'
    BY <2>0, <2>a DEF LockInv, SessionInv, Returned
  <2>3. UNCHANGED onDisk /\ NoNewSection
    BY DEF onDisk, NoNewSection, Returned
  <2> QED
    BY <2>1, <2>2, <2>3, DiskUntouched
<1>10. CASE WorkerRun
  <2> USE <1>10 DEF WorkerRun, OwnRequest
  <2>0. request' \in Requests
    BY StatusType DEF WithStatus, Active
  <2>a. wk' \in WorkerProgress /\ wk'.session = wk.session
    BY DEF WorkerProgress
  <2>b. sw' \in [Threads -> SwitchProgress]
    BY DEF SwitchProgress, WorkerProgress
  <2>1. TypeOK'
    BY <2>0, <2>a, <2>b DEF WorkerRun
  <2>2. LockInv' /\ SessionInv'
    BY <2>a DEF LockInv, SessionInv, Returned, SwitchProgress
  <2>3. UNCHANGED onDisk /\ NoNewSection
    BY DEF onDisk, NoNewSection, Returned
  <2> QED
    BY <2>1, <2>2, <2>3, DiskUntouched
<1>11. CASE WorkerSwitched
  <2> USE <1>11 DEF WorkerSwitched, SwitchIdle
  <2>0. VerdictOf(sw[Worker].pc) \in Final
    BY DEF VerdictOf, Final
  <2>a. wk' = Conclusion(VerdictOf(sw[Worker].pc))
    BY DEF Conclude, Conclusion
  <2>b. wk' \in WorkerProgress /\ wk'.session = wk.session /\ wk'.verdict \in Final
    BY <2>0, <2>a, ConclusionType DEF Conclusion, WorkerProgress
  <2>c. sw' \in [Threads -> SwitchProgress]
    BY DEF SwitchProgress
  <2>1. TypeOK'
    BY <2>b, <2>c DEF WorkerSwitched
  <2>2. LockInv' /\ SessionInv'
    BY <2>b DEF LockInv, SessionInv, Returned
  <2>3. UNCHANGED onDisk /\ NoNewSection
    BY DEF onDisk, NoNewSection, Returned
  <2> QED
    BY <2>1, <2>2, <2>3, DiskUntouched
<1>12. CASE WorkerFinish
  <2> USE <1>12 DEF WorkerFinish, OwnRequest
  <2>0. request' \in Requests \cup {None}
    BY StatusType DEF WithStatus, SessionInv
  <2>1. TypeOK'
    BY <2>0 DEF WorkerProgress
  <2>2. LockInv' /\ SessionInv'
    BY DEF LockInv, SessionInv, Returned
  <2>3. UNCHANGED onDisk /\ NoNewSection
    BY DEF onDisk, NoNewSection, Returned
  <2> QED
    BY <2>1, <2>2, <2>3, DiskUntouched
<1>13. CASE WorkerClear
  <2> USE <1>13 DEF WorkerClear, WorkerIdle
  <2>1. TypeOK'
    BY DEF WorkerProgress
  <2>2. LockInv' /\ SessionInv'
    BY DEF LockInv, SessionInv, Returned
  <2>3. UNCHANGED onDisk /\ NoNewSection
    BY DEF onDisk, NoNewSection, Returned
  <2> QED
    BY <2>1, <2>2, <2>3, DiskUntouched
<1> QED
  BY <1>1, <1>2, <1>3, <1>4, <1>5, <1>6, <1>7, <1>8, <1>9, <1>10, <1>11, <1>12, <1>13 DEF Work

(* adopt(), for a SessionStart request or for reconcile_pending. *)
LEMMA AdoptStep ==
  ASSUME Inv, Adopt \/ AdoptFails, Alone
  PROVE  Inv'
<1> USE DEF Inv, TypeOK, ControllerTypeOK, SafetyInv, diskVars, processVars, history, cvars,
            seatVars, stopVars, outside, wkRest, adoptRest, swRest, Alone, Take, Free, Pass
<1>1. CASE AdoptVerify
  <2> USE <1>1 DEF AdoptVerify
  <2>0. switch \in Switches \cup {None}
    BY DEF MayAdopt
  <2>a. adopt' \in AdoptProgress /\ adopt'.session = adopt.session /\ adopt'.switch = switch
    BY <2>0 DEF AdoptProgress
  <2>1. TypeOK'
    BY <2>a DEF AdoptVerify
  <2>2. LockInv' /\ SessionInv'
    BY <2>a DEF LockInv, SessionInv, Returned, AdoptProgress
  <2>3. SwitchInv' /\ FreezeInv'
    BY DEF SwitchInv, FreezeInv, LockInv
  <2>4. AdoptInv'
    BY <2>a DEF AdoptInv, SwitchInv, FreezeInv, LockInv, MayAdopt, AdoptProgress
  <2>5. DiskInv'
    BY <2>a DEF AdoptInv, DiskInv, SwitchInv, FreezeInv, LockInv, MayAdopt, SwitchNamesBinding,
       ReceiptNamesBinding, AdoptProgress
  <2> QED
    BY <2>1, <2>2, <2>3, <2>4, <2>5
<1>2. CASE AdoptRejects
  <2> USE <1>2 DEF AdoptRejects, AdoptReturn, AdoptIdle
  <2>1. TypeOK'
    BY DEF AdoptProgress
  <2>2. LockInv' /\ SessionInv'
    BY DEF LockInv, SessionInv, Returned
  <2>3. SwitchInv' /\ FreezeInv'
    BY DEF SwitchInv, FreezeInv, LockInv
  <2>4. AdoptInv'
    BY DEF AdoptInv, SwitchInv, FreezeInv, LockInv, MayAdopt
  <2>5. DiskInv'
    BY DEF AdoptInv, DiskInv, SwitchInv, FreezeInv, LockInv, MayAdopt, SwitchNamesBinding,
       ReceiptNamesBinding
  <2> QED
    BY <2>1, <2>2, <2>3, <2>4, <2>5
<1>3. CASE AdoptFails
  <2> USE <1>3 DEF AdoptFails, AdoptReturn, AdoptIdle
  <2>1. TypeOK'
    BY DEF AdoptProgress
  <2>2. LockInv' /\ SessionInv'
    BY DEF LockInv, SessionInv, Returned
  <2>3. SwitchInv' /\ FreezeInv'
    BY DEF SwitchInv, FreezeInv, LockInv
  <2>4. AdoptInv'
    BY DEF AdoptInv, SwitchInv, FreezeInv, LockInv, MayAdopt
  <2>5. DiskInv'
    BY DEF AdoptInv, DiskInv, SwitchInv, FreezeInv, LockInv, MayAdopt, SwitchNamesBinding,
       ReceiptNamesBinding
  <2> QED
    BY <2>1, <2>2, <2>3, <2>4, <2>5
<1>4. CASE AdoptSave
  <2> USE <1>4 DEF AdoptSave, AdoptGoto
  <2>0. adopt.session \in Sessions /\ adopt.session # None
    BY DEF SessionInv
  <2>1. TypeOK'
    BY <2>0 DEF AdoptProgress
  <2>2. LockInv' /\ SessionInv'
    BY DEF LockInv, SessionInv, Returned
  <2>3. SwitchInv' /\ FreezeInv'
    BY DEF SwitchInv, FreezeInv, LockInv
  <2>4. AdoptInv'
    BY <2>0 DEF AdoptInv, SwitchInv, FreezeInv, LockInv, MayAdopt, Switches, AdoptProgress
  <2>5. DiskInv'
    BY <2>0 DEF AdoptInv, DiskInv, SwitchInv, FreezeInv, LockInv, MayAdopt, SwitchNamesBinding,
       ReceiptNamesBinding, Switches, AdoptProgress
  <2> QED
    BY <2>1, <2>2, <2>3, <2>4, <2>5
<1>5. CASE AdoptCallback
  <2> USE <1>5 DEF AdoptCallback, AdoptGoto, AfterCallback
  <2>1. TypeOK'
    BY DEF AdoptProgress
  <2>2. LockInv' /\ SessionInv'
    BY DEF LockInv, SessionInv, Returned
  <2>3. SwitchInv' /\ FreezeInv'
    BY DEF SwitchInv, FreezeInv, LockInv
  <2>4. AdoptInv'
    BY DEF AdoptInv, SwitchInv, FreezeInv, LockInv, MayAdopt, AdoptProgress
  <2>5. DiskInv'
    BY DEF AdoptInv, DiskInv, SwitchInv, FreezeInv, LockInv, MayAdopt, SwitchNamesBinding,
       ReceiptNamesBinding, AdoptProgress
  <2> QED
    BY <2>1, <2>2, <2>3, <2>4, <2>5
<1>6. CASE AdoptReceipt
  <2> USE <1>6 DEF AdoptReceipt, AdoptGoto, WriteReceipt
  <2> DEFINE r == Completed(adopt.switch, adopt.session)
  <2>0. r \in Receipts /\ r.completed /\ r.new = adopt.session /\ r.op = adopt.switch.op
    BY CompletedIsReceipt DEF SessionInv, AdoptInv
  <2> HIDE DEF r
  <2>a. receipt' = r /\ receipts' = receipts \cup {r}
    BY DEF r
  <2>1. TypeOK'
    BY <2>0, <2>a DEF AdoptProgress
  <2>2. LockInv' /\ SessionInv'
    BY DEF LockInv, SessionInv, Returned
  <2>3. SwitchInv' /\ FreezeInv'
    BY <2>0, <2>a DEF SwitchInv, FreezeInv, LockInv
  <2>4. AdoptInv'
    BY <2>0, <2>a DEF AdoptInv, SwitchInv, FreezeInv, LockInv, MayAdopt, SessionInv
  <2>5. DiskInv'
    BY <2>0, <2>a DEF AdoptInv, DiskInv, SwitchInv, FreezeInv, LockInv, MayAdopt,
       SwitchNamesBinding, ReceiptNamesBinding, SessionInv
  <2> QED
    BY <2>1, <2>2, <2>3, <2>4, <2>5
<1>7. CASE AdoptUnswitch
  <2> USE <1>7 DEF AdoptUnswitch, AdoptGoto
  <2>1. TypeOK'
    BY DEF AdoptProgress
  <2>2. LockInv' /\ SessionInv'
    BY DEF LockInv, SessionInv, Returned
  <2>3. SwitchInv' /\ FreezeInv'
    BY DEF SwitchInv, FreezeInv, LockInv
  <2>4. AdoptInv'
    BY DEF AdoptInv, SwitchInv, FreezeInv, LockInv, MayAdopt
  <2>5. DiskInv'
    BY DEF AdoptInv, DiskInv, SwitchInv, FreezeInv, LockInv, MayAdopt, SwitchNamesBinding,
       ReceiptNamesBinding
  <2> QED
    BY <2>1, <2>2, <2>3, <2>4, <2>5
<1>8. CASE AdoptClear
  <2> USE <1>8 DEF AdoptClear, AdoptReturn, AdoptIdle
  <2>1. TypeOK'
    BY DEF AdoptProgress
  <2>2. LockInv' /\ SessionInv'
    BY DEF LockInv, SessionInv, Returned
  <2>3. SwitchInv' /\ FreezeInv'
    BY DEF SwitchInv, FreezeInv, LockInv, SessionInv
  <2>4. AdoptInv'
    BY DEF AdoptInv, SwitchInv, FreezeInv, LockInv, MayAdopt
  <2>5. DiskInv'
    BY DEF AdoptInv, DiskInv, SwitchInv, FreezeInv, LockInv, MayAdopt, SwitchNamesBinding,
       ReceiptNamesBinding
  <2> QED
    BY <2>1, <2>2, <2>3, <2>4, <2>5
<1> QED
  BY <1>1, <1>2, <1>3, <1>4, <1>5, <1>6, <1>7, <1>8 DEF Adopt

(* The start of the process: with or without an identity to reconcile. *)
LEMMA BootStartStep ==
  ASSUME Inv, BootStart, Alone
  PROVE  Inv'
<1> USE DEF Inv, TypeOK, ControllerTypeOK, SafetyInv, diskVars, processVars, history, cvars,
            seatVars, stopVars, outside, wkRest, adoptRest, swRest, Alone
<1>1. CASE pending = None /\ UNCHANGED <<lock, adopt>>
  <2> USE <1>1 DEF BootStart
  <2>1. TypeOK'
    BY DEF BootStart
  <2>2. LockInv' /\ SessionInv'
    BY DEF LockInv, SessionInv, Returned
  <2>3. UNCHANGED onDisk /\ NoNewSection
    BY DEF onDisk, NoNewSection, Returned
  <2> QED
    BY <2>1, <2>2, <2>3, DiskUntouched
<1>2. CASE pending \in Sessions /\ AdoptBegin(pending)
  <2> USE <1>2 DEF BootStart, AdoptBegin, AdoptIdle, Take
  <2>1. TypeOK'
    BY DEF AdoptProgress
  <2>2. LockInv' /\ SessionInv'
    BY DEF LockInv, SessionInv, Returned
  <2>3. SwitchInv' /\ FreezeInv'
    BY DEF SwitchInv, FreezeInv, LockInv
  <2>4. AdoptInv'
    BY DEF AdoptInv, SwitchInv, FreezeInv, LockInv, MayAdopt
  <2>5. DiskInv'
    BY DEF AdoptInv, DiskInv, SwitchInv, FreezeInv, LockInv, MayAdopt, SwitchNamesBinding,
       ReceiptNamesBinding
  <2> QED
    BY <2>1, <2>2, <2>3, <2>4, <2>5
<1> QED
  BY <1>1, <1>2 DEF BootStart

(* The port is bound; an active request is taken up. *)
LEMMA BootResumeStep ==
  ASSUME Inv, BootResume, Alone
  PROVE  Inv'
<1> USE DEF Inv, TypeOK, ControllerTypeOK, SafetyInv, diskVars, processVars, history, cvars,
            seatVars, stopVars, outside, wkRest, adoptRest, swRest, Alone
<1>1. CASE UNCHANGED <<request, wk>>
  <2> USE <1>1 DEF BootResume
  <2>1. TypeOK'
    BY DEF BootResume
  <2>2. LockInv' /\ SessionInv'
    BY DEF LockInv, SessionInv, Returned
  <2>3. UNCHANGED onDisk /\ NoNewSection
    BY DEF onDisk, NoNewSection, Returned
  <2> QED
    BY <2>1, <2>2, <2>3, DiskUntouched
<1>2. CASE RequestIsActive /\ wk' = WorkerFor(request.id, request.session) /\ UNCHANGED request
  <2> USE <1>2 DEF BootResume, RequestIsActive, WorkerFor
  <2>0. wk' \in WorkerProgress /\ wk'.session \in Sessions /\ wk'.pc = "lease"
    BY DEF WorkerProgress, Requests
  <2>1. TypeOK'
    BY <2>0 DEF TypeOK
  <2>2. LockInv' /\ SessionInv'
    BY <2>0 DEF LockInv, SessionInv, Returned
  <2>3. UNCHANGED onDisk /\ NoNewSection
    BY DEF onDisk, NoNewSection, Returned
  <2> QED
    BY <2>1, <2>2, <2>3, DiskUntouched
<1>3. CASE RequestIsActive /\ request' = WithStatus("manual_recovery_required") /\ UNCHANGED wk
  <2> USE <1>3 DEF BootResume, RequestIsActive
  <2>0. request' \in Requests
    BY StatusType DEF Final
  <2>1. TypeOK'
    BY <2>0 DEF TypeOK
  <2>2. LockInv' /\ SessionInv'
    BY DEF LockInv, SessionInv, Returned
  <2>3. UNCHANGED onDisk /\ NoNewSection
    BY DEF onDisk, NoNewSection, Returned
  <2> QED
    BY <2>1, <2>2, <2>3, DiskUntouched
<1> QED
  BY <1>1, <1>2, <1>3 DEF BootResume, WithStatus

(* A crash, set-mode, or a line that the seat loses. *)
LEMMA ProcessStep ==
  ASSUME Inv, CrashStep \/ (\E m \in Modes : ModeStep(m)) \/ KimiIgnores
  PROVE  Inv'
<1> USE DEF Inv, TypeOK, ControllerTypeOK, SafetyInv, diskVars, processVars, history, cvars,
            seatVars, stopVars, outside, wkRest, adoptRest, swRest, Alone
<1>1. CASE CrashStep
  <2> USE <1>1 DEF CrashStep, Crash, SwitchIdle, WorkerIdle, ServerIdle, AdoptIdle
  <2>0. budget' \in [Kinds -> Nat]
    BY SpendType DEF Kinds
  <2>1. TypeOK'
    BY <2>0 DEF SwitchProgress, WorkerProgress, ServerProgress, AdoptProgress
  <2>2. LockInv' /\ SessionInv'
    BY DEF LockInv, SessionInv, Returned
  <2>3. SwitchInv' /\ FreezeInv'
    BY DEF SwitchInv, FreezeInv, LockInv
  <2>4. AdoptInv'
    BY DEF AdoptInv, SwitchInv, FreezeInv, LockInv, MayAdopt
  <2>5. DiskInv'
    BY DEF AdoptInv, DiskInv, SwitchInv, FreezeInv, LockInv, MayAdopt, SwitchNamesBinding,
       ReceiptNamesBinding
  <2> QED
    BY <2>1, <2>2, <2>3, <2>4, <2>5
<1>2. CASE \E m \in Modes : ModeStep(m)
  <2> USE <1>2 DEF ModeStep, SetMode
  <2>0. budget' \in [Kinds -> Nat]
    BY SpendType DEF Kinds
  <2>1. TypeOK'
    BY <2>0 DEF TypeOK
  <2>2. LockInv' /\ SessionInv'
    BY DEF LockInv, SessionInv, Returned
  <2>3. UNCHANGED onDisk /\ NoNewSection
    BY DEF onDisk, NoNewSection, Returned
  <2> QED
    BY <2>1, <2>2, <2>3, DiskUntouched
<1>3. CASE KimiIgnores
  <2> USE <1>3 DEF KimiIgnores
  <2>1. TypeOK'
    BY DEF TypeOK
  <2>2. LockInv' /\ SessionInv'
    BY DEF LockInv, SessionInv, Returned
  <2>3. UNCHANGED onDisk /\ NoNewSection
    BY DEF onDisk, NoNewSection, Returned
  <2> QED
    BY <2>1, <2>2, <2>3, DiskUntouched
<1> QED
  BY <1>1, <1>2, <1>3 DEF Alone

(* A confirm request comes in or is answered. *)
LEMMA ConfirmationStep ==
  ASSUME Inv, NEW t \in Confirmers, ConfirmStep(t) \/ (ConfirmReply(t) /\ Alone)
  PROVE  Inv'
<1> USE DEF Inv, TypeOK, ControllerTypeOK, SafetyInv, diskVars, processVars, history, cvars,
            seatVars, stopVars, outside, wkRest, adoptRest, swRest, Alone
<1>1. CASE ConfirmStep(t)
  <2> USE <1>1 DEF ConfirmStep, Confirm
  <2>0. budget' \in [Kinds -> Nat]
    BY SpendType DEF Kinds
  <2>1. TypeOK'
    BY <2>0 DEF SwitchProgress, Returned
  <2>2. LockInv' /\ SessionInv'
    BY DEF LockInv, SessionInv, Returned, SwitchProgress
  <2>3. UNCHANGED onDisk /\ NoNewSection
    BY DEF onDisk, NoNewSection, Returned
  <2> QED
    BY <2>1, <2>2, <2>3, DiskUntouched
<1>2. CASE ConfirmReply(t) /\ Alone
  <2> USE <1>2 DEF ConfirmReply, SwitchIdle
  <2>1. TypeOK'
    BY DEF SwitchProgress, Returned
  <2>2. LockInv' /\ SessionInv'
    BY DEF LockInv, SessionInv, Returned
  <2>3. UNCHANGED onDisk /\ NoNewSection
    BY DEF onDisk, NoNewSection, Returned
  <2> QED
    BY <2>1, <2>2, <2>3, DiskUntouched
<1> QED
  BY <1>1, <1>2 DEF Alone

(* The Stop hook is started. *)
LEMMA StopHookStep ==
  ASSUME Inv, NEW h \in Hooks, NEW s \in Sessions, StopHook(h, s)
  PROVE  Inv'
<1> USE DEF Inv, TypeOK, ControllerTypeOK, SafetyInv, diskVars, processVars, history, cvars,
            seatVars, stopVars, outside, wkRest, adoptRest, swRest, Alone
<1>1. CASE StopHook(h, s)
  <2> USE <1>1 DEF StopHook
  <2>0. budget' \in [Kinds -> Nat]
    BY SpendType DEF Kinds
  <2>1. TypeOK'
    BY <2>0 DEF HookProgress
  <2>2. LockInv' /\ SessionInv'
    BY DEF LockInv, SessionInv, Returned, HookProgress
  <2>3. UNCHANGED onDisk /\ NoNewSection
    BY DEF onDisk, NoNewSection, Returned
  <2> QED
    BY <2>1, <2>2, <2>3, DiskUntouched
<1> QED
  BY <1>1 DEF Alone

(* A Stop hook and the HTTP thread that serves it. *)
LEMMA HookStep ==
  ASSUME Inv, NEW h \in Hooks,
         PostSignal(h) \/ HookRefused(h) \/ HookDone(h) \/ HookFails(h) \/ SignalThread(h)
  PROVE  Inv'
<1> USE DEF Inv, TypeOK, ControllerTypeOK, SafetyInv, diskVars, processVars, history, cvars,
            seatVars, stopVars, outside, wkRest, adoptRest, swRest, Alone, HookGoto, Serve, Take,
            Free, Pass
<1>1. CASE PostSignal(h)
  <2> USE <1>1 DEF PostSignal
  <2>1. TypeOK'
    BY DEF HookProgress, ServerProgress
  <2>2. LockInv' /\ SessionInv'
    BY DEF LockInv, SessionInv, Returned, ServerProgress
  <2>3. UNCHANGED onDisk /\ NoNewSection
    BY DEF onDisk, NoNewSection, Returned
  <2> QED
    BY <2>1, <2>2, <2>3, DiskUntouched
<1>2. CASE HookRefused(h)
  <2> USE <1>2 DEF HookRefused, Exit, HookOff
  <2>1. TypeOK'
    BY DEF HookProgress
  <2>2. LockInv' /\ SessionInv'
    BY DEF LockInv, SessionInv, Returned
  <2>3. UNCHANGED onDisk /\ NoNewSection
    BY DEF onDisk, NoNewSection, Returned
  <2> QED
    BY <2>1, <2>2, <2>3, DiskUntouched
<1>3. CASE HookDone(h)
  <2> USE <1>3 DEF HookDone, Exit, HookOff
  <2>1. TypeOK'
    BY DEF HookProgress
  <2>2. LockInv' /\ SessionInv'
    BY DEF LockInv, SessionInv, Returned
  <2>3. UNCHANGED onDisk /\ NoNewSection
    BY DEF onDisk, NoNewSection, Returned
  <2> QED
    BY <2>1, <2>2, <2>3, DiskUntouched
<1>4. CASE HookFails(h)
  <2> USE <1>4 DEF HookFails, Exit, HookOff
  <2>1. TypeOK'
    BY DEF HookProgress
  <2>2. LockInv' /\ SessionInv'
    BY DEF LockInv, SessionInv, Returned
  <2>3. UNCHANGED onDisk /\ NoNewSection
    BY DEF onDisk, NoNewSection, Returned
  <2> QED
    BY <2>1, <2>2, <2>3, DiskUntouched
<1>5. CASE Queued(h)
  <2> USE <1>5 DEF Queued, QueueNew, StatusReady
  <2>0. NextId \in Nat
    BY DEF NextId, Requests
  <2>a. request' \in Requests
    BY <2>0 DEF Requests, Active
  <2>b. srv' \in [Hooks -> ServerProgress]
    BY <2>0 DEF ServerProgress
  <2>c. hook' \in [Hooks -> HookProgress]
    BY <2>0 DEF HookProgress
  <2>1. TypeOK'
    BY <2>a, <2>b, <2>c DEF TypeOK
  <2>2. LockInv' /\ SessionInv'
    BY DEF LockInv, SessionInv, Returned, HookProgress, ServerProgress
  <2>3. UNCHANGED onDisk /\ NoNewSection
    BY DEF onDisk, NoNewSection, Returned
  <2> QED
    BY <2>1, <2>2, <2>3, DiskUntouched
<1>6. CASE Answered(h)
  <2> USE <1>6 DEF Answered, Reply
  <2>0. /\ hook' \in [Hooks -> HookProgress]
       /\ \A g \in Hooks : /\ hook'[g].session = hook[g].session
                           /\ hook'[g].pc # "off" => hook[g].pc # "off"
    BY DEF HookProgress
  <2>a. /\ srv' \in [Hooks -> ServerProgress]
       /\ \A g \in Hooks : /\ srv'[g].session = srv[g].session
                           /\ srv'[g].pc # "idle" => srv[g].pc # "idle"
                           /\ srv'[g].pc = "locked" => srv[g].pc = "locked"
    BY DEF ServerProgress
  <2>1. TypeOK'
    BY <2>0, <2>a DEF TypeOK
  <2>2. LockInv' /\ SessionInv'
    BY <2>0, <2>a DEF LockInv, SessionInv, Returned
  <2>3. UNCHANGED onDisk /\ NoNewSection
    BY DEF onDisk, NoNewSection, Returned
  <2> QED
    BY <2>1, <2>2, <2>3, DiskUntouched
<1>7. CASE HungUp(h)
  <2> USE <1>7 DEF HungUp, ReplyLost, ServerIdle
  <2>1. TypeOK'
    BY DEF ServerProgress
  <2>2. LockInv' /\ SessionInv'
    BY DEF LockInv, SessionInv, Returned
  <2>3. UNCHANGED onDisk /\ NoNewSection
    BY DEF onDisk, NoNewSection, Returned
  <2> QED
    BY <2>1, <2>2, <2>3, DiskUntouched
<1>8. CASE QueueBegin(h) /\ Alone
  <2> USE <1>8 DEF QueueBegin
  <2>1. TypeOK'
    BY DEF ServerProgress
  <2>2. LockInv' /\ SessionInv'
    BY DEF LockInv, SessionInv, Returned, ServerProgress
  <2>3. UNCHANGED onDisk /\ NoNewSection
    BY DEF onDisk, NoNewSection, Returned
  <2> QED
    BY <2>1, <2>2, <2>3, DiskUntouched
<1>9. CASE QueueRefusedEarly(h) /\ Alone
  <2> USE <1>9 DEF QueueRefusedEarly, ServerIdle
  <2>1. TypeOK'
    BY DEF ServerProgress
  <2>2. LockInv' /\ SessionInv'
    BY DEF LockInv, SessionInv, Returned
  <2>3. UNCHANGED onDisk /\ NoNewSection
    BY DEF onDisk, NoNewSection, Returned
  <2> QED
    BY <2>1, <2>2, <2>3, DiskUntouched
<1>10. CASE QueueAgain(h) /\ Alone
  <2> USE <1>10 DEF QueueAgain, RequestIsActive
  <2>0. request.id \in Nat
    BY DEF Requests
  <2>a. srv' \in [Hooks -> ServerProgress]
    BY <2>0 DEF ServerProgress
  <2>1. TypeOK'
    BY <2>a DEF TypeOK
  <2>2. LockInv' /\ SessionInv'
    BY DEF LockInv, SessionInv, Returned, ServerProgress
  <2>3. UNCHANGED onDisk /\ NoNewSection
    BY DEF onDisk, NoNewSection, Returned
  <2> QED
    BY <2>1, <2>2, <2>3, DiskUntouched
<1>11. CASE QueueRefused(h) /\ Alone
  <2> USE <1>11 DEF QueueRefused, ServerIdle
  <2>1. TypeOK'
    BY DEF ServerProgress
  <2>2. LockInv' /\ SessionInv'
    BY DEF LockInv, SessionInv, Returned
  <2>3. UNCHANGED onDisk /\ NoNewSection
    BY DEF onDisk, NoNewSection, Returned
  <2> QED
    BY <2>1, <2>2, <2>3, DiskUntouched
<1>12. CASE StartWorker(h) /\ Alone
  <2> USE <1>12 DEF StartWorker, WorkerFor, ServerIdle
  <2>0. wk' \in WorkerProgress
    BY DEF WorkerProgress, ServerProgress
  <2>a. srv' \in [Hooks -> ServerProgress]
    BY DEF ServerProgress
  <2>1. TypeOK'
    BY <2>0, <2>a DEF TypeOK
  <2>2. LockInv' /\ SessionInv'
    BY DEF LockInv, SessionInv, Returned, ServerProgress
  <2>3. UNCHANGED onDisk /\ NoNewSection
    BY DEF onDisk, NoNewSection, Returned
  <2> QED
    BY <2>1, <2>2, <2>3, DiskUntouched
<1> QED
  BY <1>1, <1>2, <1>3, <1>4, <1>5, <1>6, <1>7, <1>8, <1>9, <1>10, <1>11, <1>12 DEF SignalThread,
     HandleSignal

(* The seat, and the SessionStart hooks. *)
LEMMA SeatStep ==
  ASSUME Inv, NEW s \in Sessions,
         \/ KimiNew(s) \/ UserSwitches(s) \/ MarkDone(s) \/ StopReleased(s)
         \/ FreezeCreate(s) \/ FreezeWrite(s) \/ FreezeFound(s) \/ FreezeConflict(s)
         \/ StartHookFails(s) \/ PostAdoption(s) \/ AdoptionRefused(s)
  PROVE  Inv'
<1> USE DEF Inv, TypeOK, ControllerTypeOK, SafetyInv, diskVars, processVars, history, cvars,
            seatVars, stopVars, outside, wkRest, adoptRest, swRest, Alone, StartGoto
<1>1. CASE KimiNew(s)
  <2> USE <1>1 DEF KimiNew, Appear
  <2>1. TypeOK'
    BY DEF TypeOK
  <2>2. LockInv' /\ SessionInv'
    BY DEF LockInv, SessionInv, Returned
  <2>3. SwitchInv' /\ FreezeInv'
    BY DEF SwitchInv, FreezeInv, LockInv
  <2>4. AdoptInv'
    BY DEF AdoptInv, SwitchInv, FreezeInv, LockInv, MayAdopt
  <2>5. DiskInv'
    BY DEF AdoptInv, DiskInv, SwitchInv, FreezeInv, LockInv, MayAdopt, SwitchNamesBinding,
       ReceiptNamesBinding
  <2> QED
    BY <2>1, <2>2, <2>3, <2>4, <2>5
<1>2. CASE UserSwitches(s)
  <2> USE <1>2 DEF UserSwitches, Appear
  <2>0. budget' \in [Kinds -> Nat]
    BY SpendType DEF Kinds
  <2>1. TypeOK'
    BY <2>0 DEF TypeOK
  <2>2. LockInv' /\ SessionInv'
    BY DEF LockInv, SessionInv, Returned
  <2>3. SwitchInv' /\ FreezeInv'
    BY DEF SwitchInv, FreezeInv, LockInv
  <2>4. AdoptInv'
    BY DEF AdoptInv, SwitchInv, FreezeInv, LockInv, MayAdopt
  <2>5. DiskInv'
    BY DEF AdoptInv, DiskInv, SwitchInv, FreezeInv, LockInv, MayAdopt, SwitchNamesBinding,
       ReceiptNamesBinding
  <2> QED
    BY <2>1, <2>2, <2>3, <2>4, <2>5
<1>3. CASE MarkDone(s)
  <2> USE <1>3 DEF MarkDone, CreateMarker
  <2>1. TypeOK'
    BY DEF TypeOK
  <2>2. LockInv' /\ SessionInv'
    BY DEF LockInv, SessionInv, Returned
  <2>3. UNCHANGED onDisk /\ NoNewSection
    BY DEF onDisk, NoNewSection, Returned
  <2> QED
    BY <2>1, <2>2, <2>3, DiskUntouched
<1>4. CASE StopReleased(s)
  <2> USE <1>4 DEF StopReleased
  <2>0. budget' \in [Kinds -> Nat]
    BY SpendType DEF Kinds
  <2>1. TypeOK'
    BY <2>0 DEF TypeOK
  <2>2. LockInv' /\ SessionInv'
    BY DEF LockInv, SessionInv, Returned
  <2>3. UNCHANGED onDisk /\ NoNewSection
    BY DEF onDisk, NoNewSection, Returned
  <2> QED
    BY <2>1, <2>2, <2>3, DiskUntouched
<1>5. CASE FreezeCreate(s)
  <2> USE <1>5 DEF FreezeCreate
  <2>0. adopt.pc \in {"off", "verify"}
    BY DEF AdoptInv, SessionInv, AdoptProgress
  <2>1. TypeOK'
    BY DEF TypeOK
  <2>2. LockInv' /\ SessionInv'
    BY DEF LockInv, SessionInv, Returned
  <2>3. SwitchInv' /\ FreezeInv'
    BY DEF SwitchInv, FreezeInv, LockInv
  <2>4. AdoptInv'
    BY <2>0 DEF AdoptInv, SwitchInv, FreezeInv, LockInv, MayAdopt
  <2>5. DiskInv'
    BY <2>0 DEF AdoptInv, DiskInv, SwitchInv, FreezeInv, LockInv, MayAdopt, SwitchNamesBinding,
       ReceiptNamesBinding
  <2> QED
    BY <2>1, <2>2, <2>3, <2>4, <2>5
<1>6. CASE FreezeWrite(s)
  <2> USE <1>6 DEF FreezeWrite
  <2>0. pending = Torn
    BY DEF FreezeInv
  <2>a. adopt.pc \in {"off", "verify"}
    BY <2>0 DEF AdoptInv, SessionInv, AdoptProgress
  <2>1. TypeOK'
    BY DEF TypeOK
  <2>2. LockInv' /\ SessionInv'
    BY DEF LockInv, SessionInv, Returned
  <2>3. SwitchInv' /\ FreezeInv'
    BY DEF SwitchInv, FreezeInv, LockInv
  <2>4. AdoptInv'
    BY <2>0, <2>a DEF AdoptInv, SwitchInv, FreezeInv, LockInv, MayAdopt
  <2>5. DiskInv'
    BY <2>0, <2>a DEF AdoptInv, DiskInv, SwitchInv, FreezeInv, LockInv, MayAdopt,
       SwitchNamesBinding, ReceiptNamesBinding
  <2> QED
    BY <2>1, <2>2, <2>3, <2>4, <2>5
<1>7. CASE FreezeFound(s)
  <2> USE <1>7 DEF FreezeFound
  <2>1. TypeOK'
    BY DEF TypeOK
  <2>2. LockInv' /\ SessionInv'
    BY DEF LockInv, SessionInv, Returned
  <2>3. SwitchInv' /\ FreezeInv'
    BY DEF SwitchInv, FreezeInv, LockInv
  <2>4. AdoptInv'
    BY DEF AdoptInv, SwitchInv, FreezeInv, LockInv, MayAdopt
  <2>5. DiskInv'
    BY DEF AdoptInv, DiskInv, SwitchInv, FreezeInv, LockInv, MayAdopt, SwitchNamesBinding,
       ReceiptNamesBinding
  <2> QED
    BY <2>1, <2>2, <2>3, <2>4, <2>5
<1>8. CASE FreezeConflict(s)
  <2> USE <1>8 DEF FreezeConflict
  <2>1. TypeOK'
    BY DEF TypeOK
  <2>2. LockInv' /\ SessionInv'
    BY DEF LockInv, SessionInv, Returned
  <2>3. SwitchInv' /\ FreezeInv'
    BY DEF SwitchInv, FreezeInv, LockInv
  <2>4. AdoptInv'
    BY DEF AdoptInv, SwitchInv, FreezeInv, LockInv, MayAdopt
  <2>5. DiskInv'
    BY DEF AdoptInv, DiskInv, SwitchInv, FreezeInv, LockInv, MayAdopt, SwitchNamesBinding,
       ReceiptNamesBinding
  <2> QED
    BY <2>1, <2>2, <2>3, <2>4, <2>5
<1>9. CASE StartHookFails(s)
  <2> USE <1>9 DEF StartHookFails
  <2>1. TypeOK'
    BY DEF TypeOK
  <2>2. LockInv' /\ SessionInv'
    BY DEF LockInv, SessionInv, Returned
  <2>3. SwitchInv' /\ FreezeInv'
    BY DEF SwitchInv, FreezeInv, LockInv
  <2>4. AdoptInv'
    BY DEF AdoptInv, SwitchInv, FreezeInv, LockInv, MayAdopt
  <2>5. DiskInv'
    BY DEF AdoptInv, DiskInv, SwitchInv, FreezeInv, LockInv, MayAdopt, SwitchNamesBinding,
       ReceiptNamesBinding
  <2> QED
    BY <2>1, <2>2, <2>3, <2>4, <2>5
<1>10. CASE PostAdoption(s)
  <2> USE <1>10 DEF PostAdoption, AdoptBegin, AdoptIdle, Take
  <2>1. TypeOK'
    BY DEF AdoptProgress
  <2>2. LockInv' /\ SessionInv'
    BY DEF LockInv, SessionInv, Returned
  <2>3. SwitchInv' /\ FreezeInv'
    BY DEF SwitchInv, FreezeInv, LockInv
  <2>4. AdoptInv'
    BY DEF AdoptInv, SwitchInv, FreezeInv, LockInv, MayAdopt
  <2>5. DiskInv'
    BY DEF AdoptInv, DiskInv, SwitchInv, FreezeInv, LockInv, MayAdopt, SwitchNamesBinding,
       ReceiptNamesBinding
  <2> QED
    BY <2>1, <2>2, <2>3, <2>4, <2>5
<1>11. CASE AdoptionRefused(s)
  <2> USE <1>11 DEF AdoptionRefused
  <2>1. TypeOK'
    BY DEF TypeOK
  <2>2. LockInv' /\ SessionInv'
    BY DEF LockInv, SessionInv, Returned
  <2>3. SwitchInv' /\ FreezeInv'
    BY DEF SwitchInv, FreezeInv, LockInv
  <2>4. AdoptInv'
    BY DEF AdoptInv, SwitchInv, FreezeInv, LockInv, MayAdopt
  <2>5. DiskInv'
    BY DEF AdoptInv, DiskInv, SwitchInv, FreezeInv, LockInv, MayAdopt, SwitchNamesBinding,
       ReceiptNamesBinding
  <2> QED
    BY <2>1, <2>2, <2>3, <2>4, <2>5
<1> QED
  BY <1>1, <1>2, <1>3, <1>4, <1>5, <1>6, <1>7, <1>8, <1>9, <1>10, <1>11 DEF TypeOK

-----------------------------------------------------------------------------
(* Every step, and a stutter. *)
LEMMA InvStep == Inv /\ [Next]_vars => Inv'
<1> SUFFICES ASSUME Inv, [Next]_vars PROVE Inv'
  OBVIOUS
<1>1. CASE Process
  <2>1. ASSUME NEW t \in Threads, ExecuteSwitch(t) /\ Alone PROVE Inv'
    BY <2>1, SwitchStep
  <2>2. ASSUME NEW t \in Confirmers, ConfirmReply(t) /\ Alone PROVE Inv'
    BY <2>2, ConfirmationStep
  <2>3. ASSUME NEW h \in Hooks, SignalThread(h) PROVE Inv'
    BY <2>3, HookStep
  <2>4. ASSUME Work \/ Adopt \/ BootStart \/ BootResume, Alone PROVE Inv'
    BY <2>4, WorkStep, AdoptStep, BootStartStep, BootResumeStep
  <2> QED
    BY <1>1, <2>1, <2>2, <2>3, <2>4 DEF Process
<1>2. CASE StartHooks
  BY <1>2, SeatStep DEF StartHooks
<1>3. CASE StopHooks
  <2>1. ASSUME NEW h \in Hooks, NEW s \in Sessions, StopHook(h, s) PROVE Inv'
    BY <2>1, StopHookStep
  <2>2. ASSUME NEW s \in Sessions, StopReleased(s) PROVE Inv'
    BY <2>2, SeatStep
  <2>3. ASSUME NEW h \in Hooks, PostSignal(h) \/ HookRefused(h) \/ HookDone(h) PROVE Inv'
    BY <2>3, HookStep
  <2> QED
    BY <1>3, <2>1, <2>2, <2>3 DEF StopHooks
<1>4. CASE People
  <2>1. ASSUME NEW s \in Sessions, UserSwitches(s) \/ MarkDone(s) PROVE Inv'
    BY <2>1, SeatStep
  <2>2. ASSUME NEW t \in Confirmers, ConfirmStep(t) PROVE Inv'
    BY <2>2, ConfirmationStep
  <2>3. ASSUME CrashStep \/ \E m \in Modes : ModeStep(m) PROVE Inv'
    BY <2>3, ProcessStep
  <2> QED
    BY <1>4, <2>1, <2>2, <2>3 DEF People
<1>5. CASE Faults
  <2>1. ASSUME NEW s \in Sessions, StartHookFails(s) PROVE Inv'
    BY <2>1, SeatStep
  <2>2. ASSUME NEW h \in Hooks, HookFails(h) PROVE Inv'
    BY <2>2, HookStep
  <2>3. ASSUME AdoptFails, Alone PROVE Inv'
    BY <2>3, AdoptStep
  <2> QED
    BY <1>5, <2>1, <2>2, <2>3, ProcessStep DEF Faults
<1>6. CASE \E s \in Sessions : KimiNew(s)
  BY <1>6, SeatStep
<1>7. CASE UNCHANGED vars
  <2> USE <1>7 DEF vars, cvars, diskVars, processVars, history, seatVars, stopVars
  <2>1. TypeOK'
    BY DEF Inv, TypeOK, ControllerTypeOK
  <2>2. LockInv' /\ SessionInv'
    BY DEF Inv, SafetyInv, LockInv, SessionInv
  <2>3. UNCHANGED onDisk /\ NoNewSection
    BY DEF onDisk, NoNewSection
  <2> QED
    BY <2>1, <2>2, <2>3, DiskUntouched DEF Inv, SafetyInv
<1> QED
  BY <1>1, <1>2, <1>3, <1>4, <1>5, <1>6, <1>7 DEF Next, Cooperative

(* Every variable of the hand-off keeps its type, whatever threads, hooks, *)
(* people and crashes do.                                                  *)
THEOREM TypeCorrect == Spec => []TypeOK
<1>1. Inv => TypeOK
  BY DEF Inv
<1> QED
  BY InitInv, InvStep, <1>1, PTL DEF Spec

(* The inductive invariant: who is in a section under Controller._lock     *)
(* owns the lock, and what was read before a write still holds at it.      *)
THEOREM Safety == Spec => []SafetyInv
<1>1. Inv => SafetyInv
  BY DEF Inv
<1> QED
  BY InitInv, InvStep, <1>1, PTL DEF Spec

(* adopt() saves the binding before it removes the switch marker: a marker *)
(* names the bound session, or the new one is bound and still frozen.      *)
THEOREM SwitchNamesBindingHolds == Spec => []SwitchNamesBinding
<1>1. SafetyInv => SwitchNamesBinding
  BY DEF SafetyInv, DiskInv
<1> QED
  BY Safety, <1>1, PTL

(* With no marker on disk the completed receipt names the bound session.   *)
THEOREM ReceiptNamesBindingHolds == Spec => []ReceiptNamesBinding
<1>1. SafetyInv => ReceiptNamesBinding
  BY DEF SafetyInv, DiskInv
<1> QED
  BY Safety, <1>1, PTL

(* _execute_switch creates the marker under the lock it checked under: the *)
(* O_EXCL creation finds no file.                                          *)
THEOREM SwitchCreateIsExclusiveHolds == Spec => []SwitchCreateIsExclusive
<1>1. SafetyInv => SwitchCreateIsExclusive
  BY DEF SafetyInv, SwitchInv, SwitchCreateIsExclusive
<1> QED
  BY Safety, <1>1, PTL

-----------------------------------------------------------------------------
(* Who writes the three files that adopt() and _execute_switch share. *)
LEMMA Writers ==
  ASSUME [Next]_vars
  PROVE  /\ \/ UNCHANGED switch
            \/ AdoptUnswitch
            \/ \E t \in Threads : ExecuteSwitchCreate(t) \/ ExecuteSwitchWrite(t) \/ DropSwitch(t)
         /\ UNCHANGED binding \/ AdoptSave
         /\ \/ UNCHANGED pending
            \/ AdoptClear
            \/ \E s \in Sessions : FreezeCreate(s) \/ FreezeWrite(s)
<1> USE DEF vars, cvars, diskVars, swRest, processVars, history, seatVars, stopVars, outside,
            wkRest, adoptRest, Alone
<1>1. CASE Process
  <2>1. ASSUME NEW t \in Threads, ExecuteSwitch(t)
        PROVE  /\ UNCHANGED <<binding, pending>>
               /\ \/ UNCHANGED switch
                  \/ ExecuteSwitchCreate(t) \/ ExecuteSwitchWrite(t) \/ DropSwitch(t)
    BY <2>1 DEF ExecuteSwitch, ExecuteSwitchBegin, ExecuteSwitchRefused, ExecuteSwitchCreate,
                ExecuteSwitchWrite, SendNew, SendFailed, DropSwitch, SendOvertaken, Poll,
                PollCheck, PollTimeout
  <2>2. ASSUME NEW h \in Hooks, SignalThread(h) PROVE UNCHANGED <<binding, pending, switch>>
    BY <2>2 DEF SignalThread, HandleSignal, Queued, Answered, HungUp, QueueNew, Reply, ReplyLost,
                QueueBegin, QueueRefusedEarly, QueueAgain, QueueRefused, StartWorker
  <2>3. ASSUME Work PROVE UNCHANGED <<binding, pending, switch>>
    BY <2>3 DEF Work, WorkerLease, WorkerLeaseTimeout, WorkerClaim, WorkerNotActive,
                WorkerInspect, WorkerMoved, WorkerStayed, WorkerReady, WorkerNotReady, WorkerRun,
                WorkerSwitched, WorkerFinish, WorkerClear
  <2>4. ASSUME Adopt
        PROVE  /\ UNCHANGED switch \/ AdoptUnswitch
               /\ UNCHANGED binding \/ AdoptSave
               /\ UNCHANGED pending \/ AdoptClear
    BY <2>4 DEF Adopt, AdoptVerify, AdoptRejects, AdoptSave, AdoptCallback, AdoptReceipt,
                AdoptUnswitch, AdoptClear
  <2>5. ASSUME BootStart \/ BootResume PROVE UNCHANGED <<binding, pending, switch>>
    BY <2>5 DEF BootStart, BootResume
  <2>6. ASSUME NEW t \in Confirmers, ConfirmReply(t) PROVE UNCHANGED <<binding, pending, switch>>
    BY <2>6 DEF ConfirmReply
  <2> QED
    BY <1>1, <2>1, <2>2, <2>3, <2>4, <2>5, <2>6 DEF Process
<1>2. CASE ~Process /\ ~UNCHANGED vars
  <2>1. StartHooks => /\ UNCHANGED <<binding, switch>>
                      /\ \/ UNCHANGED pending
                         \/ \E s \in Sessions : FreezeCreate(s) \/ FreezeWrite(s)
    BY DEF StartHooks, FreezeCreate, FreezeWrite, FreezeFound, FreezeConflict, PostAdoption,
           AdoptionRefused
  <2>2. StopHooks => UNCHANGED <<binding, pending, switch>>
    BY DEF StopHooks, StopReleased, StopHook, PostSignal, HookRefused, HookDone
  <2>3. People => UNCHANGED <<binding, pending, switch>>
    BY DEF People, UserSwitches, MarkDone, CreateMarker, CrashStep, Crash, ConfirmStep, Confirm,
           ModeStep, SetMode
  <2>4. Faults \/ (\E s \in Sessions : KimiNew(s)) => UNCHANGED <<binding, pending, switch>>
    BY DEF Faults, KimiIgnores, StartHookFails, HookFails, AdoptFails, KimiNew
  <2> QED
    BY <1>2, <2>1, <2>2, <2>3, <2>4 DEF Next, Cooperative
<1> QED
  BY <1>1, <1>2

(* The receipt of an operation is on disk before its marker goes: in       *)
(* adopt(), and where _execute_switch records that /new was not sent.      *)
THEOREM SwitchEndHasReceiptHolds == Spec => SwitchEndHasReceipt
<1>1. ASSUME Inv, [Next]_vars, switch \in Switches, switch' = None
      PROVE  \E r \in receipts : r.op = switch.op
  <2>1. CASE AdoptUnswitch
    BY <1>1, <2>1 DEF AdoptUnswitch, Inv, SafetyInv, AdoptInv
  <2>2. ASSUME NEW t \in Threads, ExecuteSwitchCreate(t) \/ ExecuteSwitchWrite(t) \/ DropSwitch(t)
        PROVE  \E r \in receipts : r.op = switch.op
    <3>1. sw[t].pc = "drop" => \E r \in receipts : r.op = sw[t].op
      BY <1>1 DEF Inv, SafetyInv, SwitchInv
    <3>2. sw[t].pc = "write" => SwitchOf(t) # None
      BY <1>1, OwnSwitchIsSwitch DEF Inv, SafetyInv, Returned
    <3>3. SwitchOf(t).op = sw[t].op
      BY DEF SwitchOf
    <3> QED
      BY <1>1, <2>2, <3>1, <3>2, <3>3 DEF ExecuteSwitchCreate, ExecuteSwitchWrite, DropSwitch
  <2> QED
    BY <1>1, <2>1, <2>2, Writers
<1>2. Inv /\ [Next]_vars =>
        [switch' = None /\ switch \in Switches => (\E r \in receipts : r.op = switch.op)]_vars
  BY <1>1
<1> QED
  BY InitInv, InvStep, <1>2, PTL DEF Spec, SwitchEndHasReceipt

(* adopt() replaces a bound session only while the marker names it as the  *)
(* session to leave; otherwise it raises unrequested_session_change.       *)
THEOREM BindingMovesOnlyUnderSwitchHolds == Spec => BindingMovesOnlyUnderSwitch
<1>1. ASSUME Inv, [Next]_vars, binding # None, binding' # binding
      PROVE  switch \in Switches /\ switch.old = binding
  <2>1. AdoptSave
    BY <1>1, Writers
  <2>2. switch # None /\ switch # Torn
    BY <1>1, <2>1 DEF AdoptSave, Inv, SafetyInv, AdoptInv, MayAdopt
  <2>3. switch \in Switches
    BY <1>1, <2>2 DEF Inv, TypeOK, ControllerTypeOK
  <2> QED
    BY <1>1, <2>1, <2>3 DEF AdoptSave, Inv, SafetyInv, AdoptInv, DiskInv, SwitchNamesBinding
<1>2. Inv /\ [Next]_vars => [binding # None /\ binding' # binding =>
                               switch \in Switches /\ switch.old = binding]_vars
  BY <1>1
<1> QED
  BY InitInv, InvStep, <1>2, PTL DEF Spec, BindingMovesOnlyUnderSwitch

(* Whatever is refused or fails, the identity a SessionStart hook froze    *)
(* stays on disk until that session is bound and the switch has ended.     *)
THEOREM PendingClearedWhenBoundHolds == Spec => PendingClearedWhenBound
<1>1. ASSUME Inv, [Next]_vars, pending # pending', pending \in Sessions
      PROVE  pending' = None /\ binding = pending /\ switch = None
  <2>1. ASSUME NEW s \in Sessions, FreezeCreate(s) \/ FreezeWrite(s) PROVE FALSE
    BY <1>1, <2>1 DEF FreezeCreate, FreezeWrite, Inv, SafetyInv, FreezeInv
  <2>2. AdoptClear
    BY <1>1, <2>1, Writers
  <2> QED
    BY <1>1, <2>2 DEF AdoptClear, Inv, SafetyInv, AdoptInv
<1>2. Inv /\ [Next]_vars => [pending # pending' /\ pending \in Sessions =>
                               pending' = None /\ binding = pending /\ switch = None]_vars
  BY <1>1
<1> QED
  BY InitInv, InvStep, <1>2, PTL DEF Spec, PendingClearedWhenBound

(***************************************************************************)
(* The frozen identity and the marker are used as PrivateFile has it.      *)
(***************************************************************************)
created == [f \in {"pending", "switch"} |->
              IF f = "pending" THEN pending ELSE IF InFlight THEN switch.old ELSE switch]

LEMMA CreatedInit == Init => Created!Init
<1>1. None \notin Switches
  BY NoneAndTornAreNoData
<1> QED
  BY <1>1 DEF Init, ControllerInit, Created!Init, InFlight

LEMMA PendingCreated ==
  ASSUME Inv, UNCHANGED switch,
         AdoptClear \/ \E s \in Sessions : FreezeCreate(s) \/ FreezeWrite(s)
  PROVE  Created!Next
<1>0. \A v : pending' = v => created' = [created EXCEPT !["pending"] = v]
  BY DEF created, InFlight
<1>1. created["pending"] = pending
  BY DEF created
<1>2. CASE AdoptClear
  <2>1. pending \in Sessions /\ pending' = None
    BY <1>2 DEF AdoptClear, Inv, SafetyInv, SessionInv
  <2>2. Created!Remove("pending")
    BY <1>0, <1>1, <2>1 DEF Created!Remove, Created!Becomes, created
  <2> QED
    BY <2>2 DEF Created!Next
<1>3. ASSUME NEW s \in Sessions, FreezeCreate(s) PROVE Created!Next
  <2>1. Created!Create("pending")
    BY <1>0, <1>1, <1>3 DEF FreezeCreate, Created!Create, Created!Becomes, created
  <2> QED
    BY <2>1 DEF Created!Next
<1>4. ASSUME NEW s \in Sessions, FreezeWrite(s) PROVE Created!Next
  <2>1. pending = Torn /\ pending' = s
    BY <1>4 DEF FreezeWrite, Inv, SafetyInv, FreezeInv
  <2>2. Created!Fill("pending", s)
    BY <1>0, <1>1, <2>1 DEF Created!Fill, Created!Becomes, created
  <2> QED
    BY <2>2 DEF Created!Next
<1> QED
  BY <1>2, <1>3, <1>4

LEMMA SwitchCreated ==
  ASSUME Inv, UNCHANGED pending,
         \/ AdoptUnswitch
         \/ \E t \in Threads : ExecuteSwitchCreate(t) \/ ExecuteSwitchWrite(t) \/ DropSwitch(t)
  PROVE  Created!Next \/ UNCHANGED created
<1>0. None \notin Switches /\ Torn \notin Switches
  BY NoneAndTornAreNoData
<1>1. created["switch"] = IF InFlight THEN switch.old ELSE switch
  BY DEF created
<1>2. /\ switch' \in {None, Torn} => created' = [created EXCEPT !["switch"] = switch']
      /\ switch' \in Switches => created' = [created EXCEPT !["switch"] = switch'.old]
  BY <1>0 DEF created, InFlight
<1>3. ASSUME switch \in Switches, switch' = None PROVE Created!Next
  <2>1. created["switch"] \in Sessions
    BY <1>1, <1>3 DEF InFlight, Switches
  <2>2. Created!Remove("switch")
    BY <1>2, <1>3, <2>1 DEF Created!Remove, Created!Becomes, created
  <2> QED
    BY <2>2 DEF Created!Next
<1>4. CASE AdoptUnswitch
  BY <1>3, <1>4 DEF AdoptUnswitch, Inv, SafetyInv, AdoptInv
<1>5. ASSUME NEW t \in Threads, ExecuteSwitchCreate(t) PROVE Created!Next
  <2>1. switch = None /\ switch' = Torn
    BY <1>5 DEF ExecuteSwitchCreate
  <2>2. Created!Create("switch")
    BY <1>0, <1>1, <1>2, <2>1 DEF Created!Create, Created!Becomes, created, InFlight
  <2> QED
    BY <2>2 DEF Created!Next
<1>6. ASSUME NEW t \in Threads, ExecuteSwitchWrite(t) PROVE Created!Next
  <2>1. switch = Torn /\ switch' = SwitchOf(t)
    BY <1>6 DEF ExecuteSwitchWrite, Inv, SafetyInv, SwitchInv
  <2>2. SwitchOf(t) \in Switches /\ SwitchOf(t).old \in Sessions
    BY <1>6, OwnSwitchIsSwitch DEF ExecuteSwitchWrite, Switches, Returned, Inv, SafetyInv
  <2>3. Created!Fill("switch", SwitchOf(t).old)
    BY <1>0, <1>1, <1>2, <2>1, <2>2 DEF Created!Fill, Created!Becomes, created, InFlight
  <2> QED
    BY <2>2, <2>3 DEF Created!Next
<1>7. ASSUME NEW t \in Threads, DropSwitch(t) PROVE Created!Next \/ UNCHANGED created
  <2>1. CASE switch = SwitchOf(t)
    <3>1. switch \in Switches /\ switch' = None
      BY <1>7, <2>1, OwnSwitchIsSwitch DEF DropSwitch, Returned, Inv, SafetyInv
    <3> QED
      BY <1>3, <3>1
  <2>2. CASE switch # SwitchOf(t)
    BY <1>7, <2>2 DEF DropSwitch, created, InFlight
  <2> QED
    BY <2>1, <2>2
<1> QED
  BY <1>4, <1>5, <1>6, <1>7

LEMMA CreatedStep == Inv /\ [Next]_vars => [Created!Next]_created
<1> SUFFICES ASSUME Inv, [Next]_vars PROVE Created!Next \/ UNCHANGED created
  OBVIOUS
<1>1. CASE UNCHANGED <<pending, switch>>
  BY <1>1 DEF created, InFlight
<1>2. CASE pending' # pending
  <2>1. /\ AdoptClear \/ \E s \in Sessions : FreezeCreate(s) \/ FreezeWrite(s)
        /\ UNCHANGED switch
    BY <1>2, Writers DEF AdoptClear, FreezeCreate, FreezeWrite, adoptRest
  <2> QED
    BY <2>1, PendingCreated
<1>3. CASE switch' # switch /\ UNCHANGED pending
  BY <1>3, Writers, SwitchCreated
<1> QED
  BY <1>1, <1>2, <1>3

(* The SessionStart hooks, _execute_switch and adopt() use the frozen      *)
(* identity and the marker as files that O_EXCL creates: what is removed   *)
(* is complete, and what is complete is never overwritten.                 *)
THEOREM CreatedFilesRefine == Spec => RefinesCreatedFiles
BY InitInv, InvStep, CreatedInit, CreatedStep, PTL
   DEF Spec, RefinesCreatedFiles, Created!Spec, created
=============================================================================
