----------------------------- MODULE AgilentProofs -----------------------------
(* Proofs about Agilent, for any number of calls, any length of a write and  *)
(* any time limits: types, the bulk transfer lock, an honest count of bytes, *)
(* and driver and adapter in step as long as nothing fails.                  *)
EXTENDS Agilent, TLAPS

Stages == {"idle", "lock", "send", "receive", "flush", "extra", "abort", "wait", "status"}
Rets == {"ok", "error", "timedout"}
Messages == [op : Ops \union {"none"}, id : Ids]
CallRecords == [op : Ops, id : Ids, usec : Nat, stage : Stages, ret : Rets,
                answer : Messages, aborted : BOOLEAN]
ResultRecords == [op : Ops \union {"none"}, id : Ids, ret : Rets, answer : Messages,
                  count : Nat]

TypeOK ==
  /\ call \in CallRecords
  /\ bulk_transfer_lock \in BOOLEAN
  /\ in_pipe \in Seq(Messages)
  /\ task \in Messages
  /\ done \in [Ids -> Nat]
  /\ interrupts \in Nat /\ write_complete \in BOOLEAN /\ monitored \in BOOLEAN
  /\ result \in ResultRecords
  /\ trouble \in BOOLEAN

(* m_bulk_transfer_lock is held from the second step of a call to its end.   *)
LockOfCall == bulk_transfer_lock <=> call.stage \notin {"idle", "lock"}

(* Which calls come to which stage.                                          *)
StageFits ==
  /\ call.stage \in {"wait", "status"} => call.op = "WRITE"
  /\ call.stage \in {"receive", "flush", "extra"} => call.op # "WRITE"
  /\ call.stage \in {"flush", "extra", "abort"} => call.ret # "ok"
  /\ call.stage \in {"lock", "send", "receive", "wait"} => call.ret = "ok" /\ ~call.aborted

(* The adapter has nothing to do with calls that have not begun.             *)
NothingAhead ==
  /\ task.id <= call.id
  /\ \A i \in Ids : i > call.id => done[i] = 0

(* Nothing has failed yet, not even in the call that runs.                   *)
Clean == ~trouble /\ call.ret = "ok" /\ ~call.aborted

PipesIdle == in_pipe = <<>> /\ task = NoMessage

(* What the pipes hold at each stage of a call when nothing has failed: at    *)
(* most the request, the task, the reply or the interrupt of this very call,  *)
(* and one of them only.                                                     *)
InStep ==
  /\ call.stage \in {"idle", "lock", "send"} => PipesIdle /\ interrupts = 0
  /\ call.stage \in {"lock", "send"} =>
       done[call.id] = 0 /\ (call.op = "WRITE" => ~write_complete)
  /\ call.stage = "receive" =>
       /\ interrupts = 0
       /\ \/ task = NoMessage /\ in_pipe = <<Request>>
          \/ call.op = "READ" /\ task = Request /\ in_pipe = <<>>
  /\ call.stage = "wait" =>
       \/ /\ task = Request /\ in_pipe = <<>>
          /\ done[call.id] < Length /\ interrupts = 0 /\ ~write_complete
       \/ /\ PipesIdle /\ done[call.id] = Length
          /\ \/ interrupts = 1 /\ ~write_complete
             \/ interrupts = 0 /\ write_complete
  /\ call.stage = "status" =>
       PipesIdle /\ done[call.id] = Length /\ interrupts = 0

Sound ==
  /\ TypeOK /\ LockOfCall /\ StageFits /\ NothingAhead
  /\ (At("idle") /\ ~trouble) => Clean

IInv == Sound /\ (Clean => InStep) /\ CleanExchange


-----------------------------------------------------------------------------
(* The invariant taken apart: the types of the fields the steps look at.      *)
LEMMA Fields ==
  ASSUME TypeOK
  PROVE  /\ call.op \in Ops /\ call.id \in Ids /\ call.usec \in Nat /\ call.stage \in Stages
         /\ call.ret \in Rets /\ call.answer \in Messages /\ call.aborted \in BOOLEAN
         /\ task.op \in Ops \union {"none"} /\ task.id \in Ids
         /\ Request \in Messages /\ NoMessage \in Messages /\ Ids \subseteq Nat
  BY AgilentAssumption DEF TypeOK, CallRecords, Messages, Request, NoMessage, Ids

(* What Return leaves behind. *)
LEMMA Returned ==
  ASSUME NEW c \in CallRecords, NEW n \in Nat, Return(c, n), trouble \in BOOLEAN
  PROVE  /\ call' \in CallRecords /\ call'.stage = "idle" /\ call'.op = c.op /\ call'.id = c.id
         /\ call'.ret = c.ret /\ call'.aborted = c.aborted
         /\ bulk_transfer_lock' = FALSE
         /\ result' \in ResultRecords /\ result'.op = c.op /\ result'.id = c.id
         /\ result'.answer = c.answer /\ result'.count = n
         /\ trouble' \in BOOLEAN /\ trouble' = (trouble \/ c.ret # "ok" \/ c.aborted)
<1>1. /\ c.op \in Ops /\ c.id \in Ids /\ c.ret \in Rets /\ c.answer \in Messages
      /\ c.aborted \in BOOLEAN
  BY DEF CallRecords
<1>2. call' = [c EXCEPT !.stage = "idle"] /\ bulk_transfer_lock' = FALSE
  BY DEF Return
<1>3. result' = [op |-> c.op, id |-> c.id, ret |-> c.ret, answer |-> c.answer, count |-> n]
  BY DEF Return
<1>4. trouble' = (trouble \/ c.ret # "ok" \/ c.aborted)
  BY DEF Return
<1>5. call' \in CallRecords /\ call'.stage = "idle" /\ call'.op = c.op /\ call'.id = c.id
      /\ call'.ret = c.ret /\ call'.aborted = c.aborted
  BY <1>1, <1>2 DEF CallRecords, Stages
<1>6. result' \in ResultRecords /\ result'.op = c.op /\ result'.id = c.id
      /\ result'.answer = c.answer /\ result'.count = n
  BY <1>1, <1>3 DEF ResultRecords
<1>7. QED
  BY <1>1, <1>2, <1>4, <1>5, <1>6

(* A step after which something has failed: only Sound is at stake.           *)
LEMMA Spoilt ==
  ASSUME Sound', ~Clean'
  PROVE  IInv'
  BY DEF IInv, Sound, CleanExchange

-----------------------------------------------------------------------------
(* The invariant holds at the beginning. *)
LEMMA InitGood == Init => IInv
<1> SUFFICES ASSUME Init PROVE IInv
  OBVIOUS
<1>1. 0 \in Ids /\ \A i \in Ids : i \in Nat
  BY AgilentAssumption DEF Ids
<1>2. TypeOK
  BY <1>1 DEF Init, TypeOK, CallRecords, ResultRecords, Messages, NoMessage, Stages, Rets,
              Ops, Registers
<1>3. LockOfCall /\ StageFits /\ NothingAhead
  BY <1>1 DEF Init, LockOfCall, StageFits, NothingAhead, NoMessage
<1>4. Clean /\ InStep /\ CleanExchange
  BY DEF Init, Clean, InStep, CleanExchange, PipesIdle, Ops, Registers
<1>5. QED
  BY <1>2, <1>3, <1>4 DEF IInv, Sound

-----------------------------------------------------------------------------
(* Sound, from the parts a step may disturb. *)
LEMMA SoundParts ==
  ASSUME IInv
  PROVE  /\ TypeOK /\ LockOfCall /\ StageFits /\ NothingAhead
         /\ (At("idle") /\ ~trouble) => Clean
         /\ Clean => InStep
         /\ CleanExchange
  BY DEF IInv, Sound

(* A step that changes nothing but the stage, the error or the abort mark of  *)
(* the call, and what lies at the adapter, within its types.                  *)
LEMMA GoesOn ==
  ASSUME IInv,
         call' \in CallRecords, call'.op = call.op, call'.id = call.id,
         call'.stage \notin {"idle", "lock"}, bulk_transfer_lock, StageFits',
         UNCHANGED <<caller, done>>,
         in_pipe' \in Seq(Messages), task' \in Messages, task'.id <= call.id,
         interrupts' \in Nat, write_complete' \in BOOLEAN, monitored' \in BOOLEAN
  PROVE  Sound'
<1>1. TypeOK'
  BY SoundParts DEF TypeOK, caller
<1>2. LockOfCall' /\ NothingAhead'
  BY SoundParts DEF LockOfCall, NothingAhead, caller
<1>3. ~At("idle")'
  BY DEF At
<1>4. QED
  BY <1>1, <1>2, <1>3 DEF Sound

(* A step that ends the call: c is the call as it ends, n its count.          *)
LEMMA Ends ==
  ASSUME IInv, NEW c \in CallRecords, NEW n \in Nat, Return(c, n),
         c.op = call.op, c.id = call.id,
         UNCHANGED done, in_pipe' \in Seq(Messages), task' \in Messages,
         task'.id <= call.id, UNCHANGED events
  PROVE  /\ Sound'
         /\ (c.ret # "ok" \/ c.aborted) => IInv'
<1>1. /\ call' \in CallRecords /\ call'.stage = "idle" /\ call'.op = c.op /\ call'.id = c.id
      /\ call'.ret = c.ret /\ call'.aborted = c.aborted
      /\ bulk_transfer_lock' = FALSE
      /\ result' \in ResultRecords /\ result'.op = c.op /\ result'.id = c.id
      /\ result'.count = n
      /\ trouble' \in BOOLEAN /\ trouble' = (trouble \/ c.ret # "ok" \/ c.aborted)
  BY Returned, SoundParts DEF TypeOK
<1>2. TypeOK'
  BY <1>1, SoundParts DEF TypeOK, events
<1>3. LockOfCall' /\ StageFits' /\ NothingAhead'
  BY <1>1, SoundParts DEF LockOfCall, StageFits, NothingAhead
<1>4. (~trouble)' => Clean'
  BY <1>1 DEF Clean
<1>5. Sound'
  BY <1>2, <1>3, <1>4 DEF Sound
<1>6. (c.ret # "ok" \/ c.aborted) => ~Clean'
  BY <1>1 DEF Clean
<1>7. QED
  BY <1>5, <1>6, Spoilt

-----------------------------------------------------------------------------
(* The beginning of a call, and its lock. *)
LEMMA StepBegin ==
  ASSUME IInv, NEW op \in Ops, NEW usec \in Limits, Begin(op, usec)
  PROVE  IInv'
<1>0. /\ call.id \in Ids /\ call.id < MaxCalls /\ call.stage = "idle"
      /\ call.id + 1 \in Ids /\ usec \in Nat /\ Ids \subseteq Nat /\ NoMessage \in Messages
  BY SoundParts, Fields, AgilentAssumption DEF Begin, At, Ids
<1>1. /\ call' = [op |-> op, id |-> call.id + 1, usec |-> usec, stage |-> "lock",
                  ret |-> "ok", answer |-> NoMessage, aborted |-> FALSE]
      /\ write_complete' = (write_complete /\ op # "WRITE")
      /\ UNCHANGED <<caller, adapter, interrupts, monitored>>
  BY DEF Begin
<1>2. TypeOK'
  <2>1. call' \in CallRecords
    BY <1>0, <1>1 DEF CallRecords, Stages, Rets
  <2>2. write_complete' \in BOOLEAN
    BY <1>1, SoundParts DEF TypeOK
  <2>3. QED
    BY <1>1, <2>1, <2>2, SoundParts DEF TypeOK, caller, adapter
<1>3. LockOfCall' /\ StageFits'
  BY <1>0, <1>1, SoundParts DEF LockOfCall, StageFits, caller, adapter
<1>4. NothingAhead' /\ done'[call'.id] = 0
  <2>1. task.id \in Nat /\ call.id \in Nat /\ \A i \in Ids : i \in Nat
    BY <1>0, SoundParts, Fields
  <2>2. task.id <= call.id /\ \A i \in Ids : i > call.id => done[i] = 0
    BY SoundParts DEF NothingAhead
  <2>3. call'.id = call.id + 1 /\ task' = task /\ done' = done
    BY <1>1 DEF adapter
  <2>4. task'.id <= call'.id /\ done'[call'.id] = 0
    BY <1>0, <2>1, <2>2, <2>3
  <2>5. \A i \in Ids : i > call'.id => done'[i] = 0
    BY <2>1, <2>2, <2>3
  <2>6. QED
    BY <2>4, <2>5 DEF NothingAhead
<1>5. ~At("idle")'
  BY <1>1 DEF At
<1>6. Clean' => InStep'
  <2> SUFFICES ASSUME Clean' PROVE InStep'
    OBVIOUS
  <2>1. Clean /\ InStep
    BY <1>0, <1>1, SoundParts DEF Clean, At, caller
  <2>2. PipesIdle' /\ interrupts' = 0
    BY <1>0, <1>1, <2>1 DEF InStep, PipesIdle, adapter
  <2>3. QED
    BY <1>1, <1>4, <2>2 DEF InStep
<1>7. QED
  BY <1>2, <1>3, <1>4, <1>5, <1>6 DEF IInv, Sound, CleanExchange

(* The lock is taken. *)
LEMMA StepLock == ASSUME IInv, Lock PROVE IInv'
<1>1. /\ call' = [call EXCEPT !.stage = "send"] /\ call.stage = "lock"
      /\ bulk_transfer_lock' = TRUE
      /\ UNCHANGED <<result, trouble, adapter, events>>
  BY DEF Lock, Go, At
<1>2. TypeOK'
  BY <1>1, SoundParts DEF TypeOK, CallRecords, Stages, adapter, events
<1>3. /\ call'.stage = "send" /\ call'.op = call.op /\ call'.id = call.id
      /\ call'.ret = call.ret /\ call'.aborted = call.aborted
  BY <1>1, SoundParts DEF TypeOK, CallRecords
<1>4. LockOfCall' /\ StageFits' /\ NothingAhead' /\ ~At("idle")'
  BY <1>1, <1>3, SoundParts DEF LockOfCall, StageFits, NothingAhead, At, adapter
<1>5. Clean' => InStep'
  BY <1>1, <1>3, SoundParts DEF Clean, InStep, PipesIdle, adapter, events
<1>6. QED
  BY <1>2, <1>4, <1>5 DEF IInv, Sound, CleanExchange

-----------------------------------------------------------------------------
(* What a request leaves when it reaches the adapter. *)
LEMMA Delivered ==
  ASSUME IInv, Deliver
  PROVE  in_pipe' \in Seq(Messages) /\ task' \in Messages /\ task'.id <= call.id
<1>1. /\ Request \in Messages /\ Request.id = call.id /\ call.id \in Nat
      /\ in_pipe \in Seq(Messages) /\ task \in Messages /\ task.id <= call.id
  BY SoundParts, Fields DEF Request, TypeOK, NothingAhead
<1>2. CASE call.op \in Registers
  BY <1>1, <1>2 DEF Deliver
<1>3. CASE call.op \notin Registers
  BY <1>1, <1>3 DEF Deliver
<1>4. QED
  BY <1>2, <1>3

(* The request is sent. *)
LEMMA StepSend == ASSUME IInv, SendBulk PROVE IInv'
<1> DEFINE next == IF call.op = "WRITE" THEN "wait" ELSE "receive"
<1>1. /\ call.stage = "send" /\ Deliver /\ call' = [call EXCEPT !.stage = next]
      /\ UNCHANGED <<caller, events>>
  BY DEF SendBulk, At, Go
<1>2. /\ call \in CallRecords /\ next \in Stages \ {"idle", "lock"}
      /\ bulk_transfer_lock
  BY <1>1, SoundParts DEF TypeOK, Stages, LockOfCall
<1>3. /\ call' \in CallRecords /\ call'.op = call.op /\ call'.id = call.id
      /\ call'.stage = next /\ call'.ret = call.ret /\ call'.aborted = call.aborted
  BY <1>1, <1>2 DEF CallRecords
<1>4. StageFits'
  BY <1>1, <1>3, SoundParts DEF StageFits
<1>5. /\ in_pipe' \in Seq(Messages) /\ task' \in Messages /\ task'.id <= call.id
      /\ UNCHANGED done
  BY <1>1, Delivered DEF Deliver
<1>6. Sound'
  BY <1>1, <1>2, <1>3, <1>4, <1>5, SoundParts, GoesOn DEF TypeOK, events
<1>7. Clean' => InStep'
  <2> SUFFICES ASSUME Clean' PROVE InStep'
    OBVIOUS
  <2>1. PipesIdle /\ interrupts = 0 /\ done[call.id] = 0
        /\ (call.op = "WRITE" => ~write_complete)
    BY <1>1, <1>3, SoundParts DEF Clean, InStep, caller
  <2>2. interrupts' = 0 /\ write_complete' = write_complete /\ done' = done
    BY <1>1, <1>5, <2>1 DEF events
  <2>3. Request' = Request
    BY <1>3 DEF Request
  <2>4. CASE call.op \in Registers
    <3>1. in_pipe' = <<Request>> /\ task' = NoMessage
      BY <1>1, <2>1, <2>4 DEF Deliver, PipesIdle
    <3>2. call'.stage = "receive"
      BY <1>3, <2>4 DEF Registers
    <3>3. QED
      BY <2>2, <2>3, <3>1, <3>2 DEF InStep
  <2>5. CASE call.op \notin Registers
    <3>1. in_pipe' = <<>> /\ task' = Request
      BY <1>1, <2>1, <2>5 DEF Deliver, PipesIdle
    <3>2. call.op \in {"READ", "WRITE"} /\ 0 < Length
      BY <1>2, <2>5, AgilentAssumption DEF CallRecords, Ops
    <3>3. QED
      BY <1>3, <2>1, <2>2, <2>3, <3>1, <3>2 DEF InStep
  <2>6. QED
    BY <2>4, <2>5
<1>8. ~At("idle")'
  BY <1>2, <1>3 DEF At
<1>9. QED
  BY <1>6, <1>7, <1>8 DEF IInv, CleanExchange

(* The request was not sent, or not in time: a write goes on to its abort.    *)
LEMMA Unsent ==
  ASSUME IInv, call.stage = "send", NEW ret \in {"error", "timedout"}, SendFailed(ret),
         in_pipe' \in Seq(Messages), task' \in Messages, task'.id <= call.id,
         UNCHANGED <<done, events>>
  PROVE  IInv'
<1>1. call \in CallRecords /\ bulk_transfer_lock
  BY SoundParts DEF TypeOK, LockOfCall
<1>2. CASE call.op = "WRITE"
  <2>1. call' = [call EXCEPT !.stage = "abort", !.ret = ret] /\ UNCHANGED caller
    BY <1>2 DEF SendFailed
  <2>2. /\ call' \in CallRecords /\ call'.op = call.op /\ call'.id = call.id
        /\ call'.stage = "abort" /\ call'.ret = ret
    BY <1>1, <2>1 DEF CallRecords, Stages, Rets
  <2>3. StageFits' /\ ~Clean'
    BY <2>2 DEF StageFits, Clean
  <2>4. Sound'
    BY <1>1, <2>1, <2>2, <2>3, SoundParts, GoesOn DEF TypeOK, events
  <2>5. QED
    BY <2>3, <2>4, Spoilt
<1>3. CASE call.op # "WRITE"
  <2> DEFINE c == [call EXCEPT !.ret = ret]
  <2>1. c \in CallRecords /\ c.op = call.op /\ c.id = call.id /\ c.ret # "ok"
    BY <1>1 DEF CallRecords, Rets
  <2>2. Return(c, 0)
    BY <1>3 DEF SendFailed
  <2> HIDE DEF c
  <2>3. QED
    BY <1>3, <2>1, <2>2, Ends
<1>4. QED
  BY <1>2, <1>3

(* The adapter as it is, for the steps that leave it alone.                   *)
LEMMA AdapterTypes ==
  ASSUME IInv
  PROVE  in_pipe \in Seq(Messages) /\ task \in Messages /\ task.id <= call.id
  BY SoundParts DEF TypeOK, NothingAhead

(* The request is not sent, by either failure.                                *)
LEMMA StepUnsent == ASSUME IInv, SendTooLate \/ SendFails PROVE IInv'
<1>1. CASE SendTooLate
  BY <1>1, Delivered, Unsent DEF SendTooLate, At, Deliver
<1>2. CASE SendFails
  BY <1>2, AdapterTypes, Unsent DEF SendFails, At, adapter
<1>3. QED
  BY <1>1, <1>2

-----------------------------------------------------------------------------
(* The oldest reply is taken off the pipe. *)
LEMMA Taken ==
  ASSUME IInv, Take
  PROVE  /\ in_pipe' \in Seq(Messages) /\ Head(in_pipe) \in Messages
         /\ task' \in Messages /\ task'.id <= call.id /\ UNCHANGED done
  BY AdapterTypes DEF Take

(* A reply is received: as long as nothing has failed, the right one.         *)
LEMMA StepReceive == ASSUME IInv, Receive PROVE IInv'
<1> DEFINE reply == Head(in_pipe)
           ret == IF call.op \in Registers => reply.op = call.op THEN "ok" ELSE "error"
           c == [call EXCEPT !.answer = reply, !.ret = ret]
<1>1. call.stage = "receive" /\ Take /\ Return(c, 0) /\ UNCHANGED events
  BY DEF Receive, At
<1>2. /\ in_pipe' \in Seq(Messages) /\ reply \in Messages
      /\ task' \in Messages /\ task'.id <= call.id /\ UNCHANGED done
  BY <1>1, Taken
<1>3. call \in CallRecords /\ trouble \in BOOLEAN /\ call.op # "WRITE"
  BY <1>1, SoundParts DEF TypeOK, StageFits
<1>4. ret \in Rets /\ (ret = "ok" \/ ret = "error")
  BY DEF Rets
<1> HIDE DEF ret
<1>5. /\ c \in CallRecords /\ c.op = call.op /\ c.id = call.id /\ c.ret = ret
      /\ c.answer = reply /\ c.aborted = call.aborted
  BY <1>2, <1>3, <1>4 DEF CallRecords
<1> HIDE DEF c
<1>6. Sound' /\ ((c.ret # "ok" \/ c.aborted) => IInv')
  BY <1>1, <1>2, <1>3, <1>5, Ends
<1>7. /\ call'.stage = "idle" /\ result'.op = call.op /\ result'.id = call.id
      /\ result'.answer = reply
      /\ trouble' = (trouble \/ c.ret # "ok" \/ c.aborted)
  BY <1>1, <1>3, <1>5, Returned
<1>8. CASE trouble \/ c.ret # "ok" \/ c.aborted
  BY <1>6, <1>7, <1>8, Spoilt DEF Clean
<1>9. CASE ~trouble /\ c.ret = "ok" /\ ~c.aborted
  <2>1. InStep
    BY <1>1, <1>9, SoundParts DEF Clean, StageFits
  <2>2. interrupts = 0 /\ task = NoMessage /\ in_pipe = <<Request>>
    BY <1>1, <2>1 DEF InStep, Take
  <2>3. PipesIdle' /\ interrupts' = 0 /\ reply = Request
    BY <1>1, <2>2 DEF PipesIdle, Take, events
  <2>4. InStep'
    BY <1>7, <2>3 DEF InStep
  <2>5. CleanExchange'
    BY <1>3, <1>7, <2>3 DEF CleanExchange, PipesIdle, Request
  <2>6. QED
    BY <1>6, <2>4, <2>5 DEF IInv
<1>10. QED
  BY <1>8, <1>9

(* A receive fails: a register call is over, a read aborts or flushes.         *)
LEMMA Unreceived ==
  ASSUME IInv, call.stage = "receive", NEW c \in CallRecords,
         c.op = call.op, c.id = call.id, c.ret \in {"error", "timedout"}, ReceiveFailed(c),
         in_pipe' \in Seq(Messages), task' \in Messages, task'.id <= call.id,
         UNCHANGED <<done, events>>
  PROVE  IInv'
<1>1. call.op # "WRITE" /\ bulk_transfer_lock
  BY SoundParts DEF StageFits, LockOfCall
<1>2. CASE c.op \in Registers
  <2> DEFINE e == [c EXCEPT !.ret = "error"]
  <2>1. e \in CallRecords /\ e.op = call.op /\ e.id = call.id /\ e.ret # "ok"
    BY DEF CallRecords, Rets
  <2>2. Return(e, 0)
    BY <1>2 DEF ReceiveFailed
  <2> HIDE DEF e
  <2>3. QED
    BY <1>1, <2>1, <2>2, Ends
<1>3. CASE c.op \notin Registers
  <2> DEFINE next == IF c.ret = "timedout" THEN "flush" ELSE "abort"
  <2>1. call' = [c EXCEPT !.stage = next] /\ UNCHANGED caller
    BY <1>3 DEF ReceiveFailed
  <2>2. next \in {"flush", "abort"}
    OBVIOUS
  <2> HIDE DEF next
  <2>3. /\ call' \in CallRecords /\ call'.op = call.op /\ call'.id = call.id
        /\ call'.stage = next /\ call'.ret # "ok"
    BY <2>1, <2>2 DEF CallRecords, Stages
  <2>4. StageFits' /\ ~Clean'
    BY <1>1, <2>2, <2>3 DEF StageFits, Clean
  <2>5. Sound'
    BY <1>1, <2>1, <2>2, <2>3, <2>4, SoundParts, GoesOn DEF TypeOK, events
  <2>6. QED
    BY <2>4, <2>5, Spoilt
<1>4. QED
  BY <1>2, <1>3

(* A receive that ends without a reply, by either failure.                    *)
LEMMA StepUnreceived == ASSUME IInv, ReceiveTooLate \/ ReceiveFails PROVE IInv'
<1>0. call \in CallRecords
  BY SoundParts DEF TypeOK
<1>1. CASE ReceiveTooLate
  <2> DEFINE c == [call EXCEPT !.ret = "timedout", !.answer = Head(in_pipe)]
  <2>1. call.stage = "receive" /\ Take /\ ReceiveFailed(c) /\ UNCHANGED events
    BY <1>1 DEF ReceiveTooLate, At
  <2>2. /\ in_pipe' \in Seq(Messages) /\ Head(in_pipe) \in Messages
        /\ task' \in Messages /\ task'.id <= call.id /\ UNCHANGED done
    BY <2>1, Taken
  <2>3. c \in CallRecords /\ c.op = call.op /\ c.id = call.id /\ c.ret = "timedout"
    BY <1>0, <2>2 DEF CallRecords, Rets
  <2> HIDE DEF c
  <2>4. QED
    BY <2>1, <2>2, <2>3, Unreceived
<1>2. CASE ReceiveFails
  <2>1. PICK ret \in {"error", "timedout"} : ReceiveFailed([call EXCEPT !.ret = ret])
    BY <1>2 DEF ReceiveFails
  <2> DEFINE c == [call EXCEPT !.ret = ret]
  <2>2. c \in CallRecords /\ c.op = call.op /\ c.id = call.id /\ c.ret = ret
    BY <1>0 DEF CallRecords, Rets
  <2>3. ReceiveFailed(c) /\ call.stage = "receive" /\ UNCHANGED <<adapter, events>>
    BY <1>2, <2>1 DEF ReceiveFails, At
  <2> HIDE DEF c
  <2>4. QED
    BY <2>2, <2>3, AdapterTypes, Unreceived DEF adapter
<1>3. QED
  BY <1>1, <1>2

-----------------------------------------------------------------------------
(* An abort, whether or not the adapter hears of it. *)
LEMMA TaskAborted ==
  ASSUME IInv, AbortTask
  PROVE  in_pipe' \in Seq(Messages) /\ task' \in Messages /\ task'.id <= call.id /\ UNCHANGED done
<1>1. NoMessage \in Messages /\ NoMessage.id <= call.id
  BY SoundParts, Fields DEF NoMessage
<1>2. QED
  BY <1>1, AdapterTypes DEF AbortTask

(* The steps after a failure: flush, second receive, abort.                   *)
LEMMA StepRecovery == ASSUME IInv, Flush \/ ReceiveExtra \/ Abort PROVE IInv'
<1>0. /\ call \in CallRecords /\ call.stage \in {"flush", "extra", "abort"}
      /\ call.ret # "ok" /\ bulk_transfer_lock
      /\ call.stage \in {"flush", "extra"} => call.op # "WRITE"
  BY SoundParts DEF TypeOK, StageFits, LockOfCall, Flush, ReceiveExtra, Abort, At
<1>1. ASSUME NEW s \in {"extra", "abort"}, call' = [call EXCEPT !.stage = s],
             call.stage # "abort", UNCHANGED <<caller, events>>, in_pipe' \in Seq(Messages),
             task' \in Messages, task'.id <= call.id, UNCHANGED done
      PROVE  IInv'
  <2>1. /\ call' \in CallRecords /\ call'.op = call.op /\ call'.id = call.id
        /\ call'.stage = s /\ call'.ret = call.ret
    BY <1>0, <1>1 DEF CallRecords, Stages
  <2>2. StageFits' /\ ~Clean'
    BY <1>0, <1>1, <2>1 DEF StageFits, Clean
  <2>3. Sound'
    BY <1>0, <1>1, <2>1, <2>2, SoundParts, GoesOn DEF TypeOK, events
  <2>4. QED
    BY <2>2, <2>3, Spoilt
<1>2. CASE Flush
  BY <1>1, <1>2, TaskAborted DEF Flush, Go, At
<1>3. CASE ReceiveExtra
  <2>1. CASE Take /\ Return([call EXCEPT !.answer = Head(in_pipe)], 0)
    <3> DEFINE c == [call EXCEPT !.answer = Head(in_pipe)]
    <3>1. /\ in_pipe' \in Seq(Messages) /\ Head(in_pipe) \in Messages
          /\ task' \in Messages /\ task'.id <= call.id /\ UNCHANGED done
      BY <2>1, Taken
    <3>2. c \in CallRecords /\ c.op = call.op /\ c.id = call.id /\ c.ret = call.ret
      BY <1>0, <3>1 DEF CallRecords
    <3>3. Return(c, 0) /\ UNCHANGED events /\ call.op # "WRITE"
      BY <1>0, <1>3, <2>1 DEF ReceiveExtra, At
    <3> HIDE DEF c
    <3>4. QED
      BY <1>0, <3>1, <3>2, <3>3, Ends
  <2>2. CASE (Take \/ UNCHANGED adapter) /\ Go("abort") /\ UNCHANGED caller
    <3>1. /\ in_pipe' \in Seq(Messages) /\ task' \in Messages /\ task'.id <= call.id
          /\ UNCHANGED done
      BY <2>2, Taken, AdapterTypes DEF adapter
    <3>2. QED
      BY <1>1, <1>3, <2>2, <3>1 DEF ReceiveExtra, Go, At
  <2>3. QED
    BY <1>3, <2>1, <2>2 DEF ReceiveExtra
<1>4. CASE Abort
  <2>1. done \in [Ids -> Nat] /\ call.id \in Ids
    BY SoundParts, Fields DEF TypeOK
  <2>2. 0 <= done[call.id]
    BY <2>1
  <2>3. Return(call, 0) /\ UNCHANGED events /\ AbortTask
    BY <1>4 DEF Abort
  <2>4. QED
    BY <1>0, <2>2, <2>3, TaskAborted, Ends
<1>5. QED
  BY <1>2, <1>3, <1>4

-----------------------------------------------------------------------------
(* generic_write sees the flag, or gives up. *)
LEMMA StepWait == ASSUME IInv, WriteCompletes \/ WaitTimesOut PROVE IInv'
<1>0. /\ call \in CallRecords /\ call.stage = "wait" /\ call.op = "WRITE"
      /\ bulk_transfer_lock /\ call.ret = "ok" /\ ~call.aborted
  BY SoundParts DEF TypeOK, StageFits, LockOfCall, WriteCompletes, WaitTimesOut, At
<1>1. CASE WriteCompletes
  <2>1. /\ call' = [call EXCEPT !.stage = "status"] /\ write_complete
        /\ UNCHANGED <<caller, adapter, events>>
    BY <1>1 DEF WriteCompletes, Go
  <2>2. /\ call' \in CallRecords /\ call'.op = call.op /\ call'.id = call.id
        /\ call'.stage = "status" /\ call'.ret = call.ret /\ call'.aborted = call.aborted
    BY <1>0, <2>1 DEF CallRecords, Stages
  <2>3. StageFits'
    BY <1>0, <2>2 DEF StageFits
  <2>4. Sound'
    BY <1>0, <2>1, <2>2, <2>3, SoundParts, AdapterTypes, GoesOn DEF TypeOK, events, adapter
  <2>5. Clean' => InStep'
    <3> SUFFICES ASSUME Clean' PROVE InStep'
      OBVIOUS
    <3>1. InStep
      BY <2>1, <2>2, SoundParts DEF Clean, caller
    <3>2. PipesIdle /\ done[call.id] = Length /\ interrupts = 0
      BY <1>0, <2>1, <3>1 DEF InStep
    <3>3. QED
      BY <2>1, <2>2, <3>2 DEF InStep, PipesIdle, adapter, events
  <2>6. ~At("idle")'
    BY <2>2 DEF At
  <2>7. QED
    BY <2>4, <2>5, <2>6 DEF IInv, CleanExchange
<1>2. CASE WaitTimesOut
  <2>1. /\ call' = [call EXCEPT !.stage = "status", !.aborted = TRUE] /\ AbortTask
        /\ UNCHANGED <<caller, events>>
    BY <1>2 DEF WaitTimesOut
  <2>2. /\ call' \in CallRecords /\ call'.op = call.op /\ call'.id = call.id
        /\ call'.stage = "status" /\ call'.ret = call.ret /\ call'.aborted
    BY <1>0, <2>1 DEF CallRecords, Stages
  <2>3. StageFits' /\ ~Clean'
    BY <1>0, <2>2 DEF StageFits, Clean
  <2>4. Sound'
    BY <1>0, <2>1, <2>2, <2>3, SoundParts, TaskAborted, GoesOn DEF TypeOK, events
  <2>5. QED
    BY <2>3, <2>4, Spoilt
<1>3. QED
  BY <1>1, <1>2

(* XFER_STATUS: the count is that of the bytes on the bus. *)
LEMMA StepStatus == ASSUME IInv, XferStatus PROVE IInv'
<1>0. /\ call \in CallRecords /\ call.stage = "status" /\ call.op = "WRITE"
      /\ UNCHANGED <<adapter, events>> /\ trouble \in BOOLEAN
      /\ done[call.id] \in Nat
  BY SoundParts, Fields DEF TypeOK, StageFits, XferStatus, At
<1>1. CASE Return(call, done[call.id])
  <2>1. Sound' /\ ((call.ret # "ok" \/ call.aborted) => IInv')
    BY <1>0, <1>1, AdapterTypes, Ends DEF adapter
  <2>2. /\ call'.stage = "idle" /\ result'.op = call.op /\ result'.count = done[call.id]
        /\ trouble' = (trouble \/ call.ret # "ok" \/ call.aborted)
    BY <1>0, <1>1, Returned
  <2>3. CASE trouble'
    BY <2>1, <2>3, Spoilt DEF Clean
  <2>4. CASE ~trouble'
    <3>1. InStep
      BY <2>2, <2>4, SoundParts DEF Clean
    <3>2. PipesIdle' /\ done[call.id] = Length /\ interrupts' = 0
      BY <1>0, <3>1 DEF InStep, PipesIdle, adapter, events
    <3>3. InStep'
      BY <2>2, <3>2 DEF InStep
    <3>4. CleanExchange'
      BY <1>0, <2>2, <3>2 DEF CleanExchange, PipesIdle, Registers
    <3>5. QED
      BY <2>1, <3>3, <3>4 DEF IInv
  <2>5. QED
    BY <2>3, <2>4
<1>2. CASE Return([call EXCEPT !.ret = "error"], 0)
  <2> DEFINE c == [call EXCEPT !.ret = "error"]
  <2>1. c \in CallRecords /\ c.op = call.op /\ c.id = call.id /\ c.ret # "ok"
    BY <1>0 DEF CallRecords, Rets
  <2>2. Return(c, 0) /\ 0 <= done[call.id]
    BY <1>0, <1>2
  <2> HIDE DEF c
  <2>3. QED
    BY <1>0, <2>1, <2>2, AdapterTypes, Ends DEF adapter
<1>3. QED
  BY <1>1, <1>2 DEF XferStatus

-----------------------------------------------------------------------------
(* A step of the interrupt pipe or of the adapter: the call does not move.     *)
LEMMA Beside ==
  ASSUME IInv, UNCHANGED <<call, caller, monitored>>,
         TypeOK', NothingAhead',
         (Clean /\ InStep) => InStep',
         call.stage = "idle" => UNCHANGED adapter \/ ~Clean
  PROVE  IInv'
<1>1. LockOfCall' /\ StageFits' /\ ((At("idle") /\ ~trouble) => Clean)' /\ Clean' = Clean
  BY SoundParts DEF LockOfCall, StageFits, Clean, At, caller
<1>2. CleanExchange'
  BY SoundParts DEF CleanExchange, At, caller, adapter, Clean
<1>3. QED
  BY <1>1, <1>2, SoundParts DEF IInv, Sound

(* An interrupt is delivered, or the pipe stops. *)
LEMMA StepInterrupt == ASSUME IInv, interrupt_complete \/ InterruptStops PROVE IInv'
<1>1. CASE interrupt_complete
  <2>1. /\ interrupts > 0 /\ interrupts' = interrupts - 1 /\ write_complete' = TRUE
        /\ UNCHANGED <<call, caller, adapter, monitored>>
    BY <1>1 DEF interrupt_complete
  <2>2. interrupts \in Nat /\ interrupts' \in Nat
    BY <2>1, SoundParts DEF TypeOK
  <2>3. TypeOK' /\ NothingAhead'
    BY <2>1, <2>2, SoundParts DEF TypeOK, NothingAhead, caller, adapter
  <2>4. (Clean /\ InStep) => InStep'
    <3> SUFFICES ASSUME Clean, InStep PROVE InStep'
      OBVIOUS
    <3>1. call.stage \notin {"idle", "lock", "send", "receive", "status"}
      BY <2>1, <2>2 DEF InStep
    <3>2. call.stage = "wait" =>
            /\ PipesIdle' /\ done'[call'.id] = Length
            /\ interrupts' = 0 /\ write_complete'
      BY <2>1, <2>2 DEF InStep, PipesIdle, adapter
    <3>3. QED
      BY <2>1, <3>1, <3>2 DEF InStep
  <2>5. QED
    BY <2>1, <2>3, <2>4, Beside
<1>2. CASE InterruptStops
  <2>1. monitored' = FALSE /\ UNCHANGED <<call, caller, adapter, interrupts, write_complete>>
    BY <1>2 DEF InterruptStops
  <2>2. IInv' <=> IInv
    BY <2>1, SoundParts
       DEF IInv, Sound, TypeOK, LockOfCall, StageFits, NothingAhead, Clean,
           At, InStep, PipesIdle, Request, CleanExchange, caller, adapter
  <2>3. QED
    BY <2>2
<1>3. QED
  BY <1>1, <1>2

(* A byte of a write goes on the bus, or the reply to a read into the pipe.   *)
LEMMA StepAdapter == ASSUME IInv, AdapterWrites \/ AdapterReads PROVE IInv'
<1>0. /\ task \in Messages /\ task.id \in Ids /\ task.id <= call.id /\ task # NoMessage
      /\ NoMessage \in Messages /\ NoMessage.id <= call.id
      /\ done \in [Ids -> Nat] /\ interrupts \in Nat /\ Ids \subseteq Nat
      /\ UNCHANGED <<call, caller, write_complete, monitored>>
      /\ call.id \in Ids /\ result.id \in Ids
  <2>1. task # NoMessage /\ UNCHANGED <<call, caller, write_complete, monitored>>
    BY DEF AdapterWrites, AdapterReads, NoMessage, events
  <2>2. NoMessage.id <= call.id
    BY SoundParts, Fields DEF NoMessage
  <2>3. task \in Messages /\ done \in [Ids -> Nat] /\ interrupts \in Nat /\ result.id \in Ids
    BY SoundParts DEF TypeOK, ResultRecords
  <2>4. QED
    BY <2>1, <2>2, <2>3, SoundParts, Fields DEF NothingAhead
<1>1. InStep => call.stage \notin {"idle", "lock", "send", "status"}
  BY <1>0 DEF InStep, PipesIdle
<1>2. call.stage = "idle" => UNCHANGED adapter \/ ~Clean
  BY <1>1, SoundParts
<1>3. Request' = Request
  BY <1>0 DEF Request
<1>4. CASE AdapterWrites
  <2> DEFINE i == task.id
  <2>1. /\ task.op = "WRITE" /\ UNCHANGED in_pipe
        /\ done' = [done EXCEPT ![i] = @ + 1]
        /\ IF done'[i] = Length THEN task' = NoMessage /\ interrupts' = interrupts + 1
           ELSE UNCHANGED <<task, interrupts>>
    BY <1>4 DEF AdapterWrites
  <2>2. /\ done' \in [Ids -> Nat] /\ done'[i] = done[i] + 1
        /\ \A j \in Ids : j # i => done'[j] = done[j]
        /\ \A j \in Ids : done[j] <= done'[j]
    <3>1. i \in Ids /\ done[i] \in Nat /\ done[i] + 1 \in Nat
      <4>1. i \in Ids /\ done \in [Ids -> Nat]
        BY <1>0
      <4>2. done[i] \in Nat
        BY <4>1
      <4>3. QED
        BY <4>1, <4>2
    <3>2. /\ done' \in [Ids -> Nat] /\ done'[i] = done[i] + 1
          /\ \A j \in Ids : j # i => done'[j] = done[j]
      BY <1>0, <2>1, <3>1
    <3>3. ASSUME NEW j \in Ids PROVE done[j] <= done'[j]
      <4>1. done[j] \in Nat
        BY <1>0
      <4>2. CASE j = i
        <5>1. done'[j] = done[j] + 1
          BY <3>2, <4>2
        <5>2. QED
          BY <4>1, <5>1
      <4>3. CASE j # i
        BY <3>2, <4>1, <4>3
      <4>4. QED
        BY <4>2, <4>3
    <3>4. QED
      BY <3>2, <3>3
  <2>3. task' \in Messages /\ task'.id <= call.id /\ interrupts' \in Nat
    BY <1>0, <2>1
  <2>4. TypeOK'
    BY <1>0, <2>1, <2>2, <2>3, SoundParts DEF TypeOK, caller
  <2>5. NothingAhead'
    <3>1. \A j \in Ids : j > call.id => j # i /\ done[j] = 0
      <4>1. ASSUME NEW j \in Ids, j > call.id PROVE j # i /\ done[j] = 0
        <5>1. j \in Nat /\ i \in Nat /\ call.id \in Nat /\ i <= call.id
          BY <1>0
        <5>2. QED
          BY <4>1, <5>1, SoundParts DEF NothingAhead
      <4>2. QED
        BY <4>1
    <3>2. QED
      BY <1>0, <2>2, <2>3, <3>1 DEF NothingAhead
  <2>7. (Clean /\ InStep) => InStep'
    <3> SUFFICES ASSUME Clean, InStep PROVE InStep'
      OBVIOUS
    <3>1. call.stage # "receive"
      BY <1>0, <2>1, SoundParts DEF InStep, Request, StageFits
    <3>2. CASE call.stage = "wait"
      <4>1. /\ task = Request /\ in_pipe = <<>> /\ done[call.id] < Length
            /\ interrupts = 0 /\ ~write_complete
        BY <1>0, <3>2 DEF InStep, PipesIdle
      <4>2. i = call.id /\ done[i] \in Nat /\ Length \in Nat
        BY <1>0, <4>1, AgilentAssumption DEF Request
      <4>3. CASE done'[i] = Length
        <5>1. PipesIdle' /\ interrupts' = 1 /\ ~write_complete' /\ done'[call'.id] = Length
          BY <1>0, <2>1, <4>1, <4>2, <4>3 DEF PipesIdle
        <5>2. QED
          BY <1>0, <3>2, <5>1 DEF InStep
      <4>4. CASE done'[i] # Length
        <5>1. /\ task' = Request' /\ in_pipe' = <<>> /\ done'[call'.id] < Length
              /\ interrupts' = 0 /\ ~write_complete'
          BY <1>0, <1>3, <2>1, <2>2, <4>1, <4>2, <4>4
        <5>2. QED
          BY <1>0, <3>2, <5>1 DEF InStep
      <4>5. QED
        BY <4>3, <4>4
    <3>3. CASE call.stage # "wait"
      BY <1>0, <1>1, <3>1, <3>3 DEF InStep
    <3>4. QED
      BY <3>2, <3>3
  <2>8. QED
    BY <1>0, <1>2, <2>4, <2>5, <2>7, Beside
<1>5. CASE AdapterReads
  <2>1. /\ task.op = "READ" /\ in_pipe' = Append(in_pipe, task) /\ task' = NoMessage
        /\ UNCHANGED <<done, events>>
    BY <1>5 DEF AdapterReads
  <2>2. TypeOK'
    BY <1>0, <2>1, SoundParts DEF TypeOK, caller, events
  <2>3. NothingAhead'
    BY <1>0, <2>1, SoundParts DEF NothingAhead, caller
  <2>4. (Clean /\ InStep) => InStep'
    <3> SUFFICES ASSUME Clean, InStep PROVE InStep'
      OBVIOUS
    <3>1. call.stage # "wait"
      BY <1>0, <2>1, SoundParts DEF InStep, PipesIdle, Request, StageFits
    <3>2. call.stage = "receive" => in_pipe' = <<Request>> /\ interrupts' = 0
      <4>1. ASSUME call.stage = "receive"
            PROVE  task = Request /\ in_pipe = <<>> /\ interrupts = 0
        BY <1>0, <4>1 DEF InStep
      <4>2. Append(<<>>, Request) = <<Request>>
        OBVIOUS
      <4>3. QED
        BY <2>1, <4>1, <4>2 DEF events
    <3>3. QED
      BY <1>0, <1>1, <1>3, <2>1, <3>1, <3>2 DEF InStep
  <2>5. QED
    BY <1>0, <1>2, <2>2, <2>3, <2>4, Beside
<1>6. QED
  BY <1>4, <1>5

-----------------------------------------------------------------------------
(* Every step keeps the invariant. *)
LEMMA NextGood == ASSUME IInv, [Next]_vars PROVE IInv'
<1>1. ASSUME NEW op \in Ops, NEW usec \in Limits, Begin(op, usec) PROVE IInv'
  BY <1>1, StepBegin
<1>2. ASSUME Driver PROVE IInv'
  BY <1>2, StepLock, StepSend, StepUnsent, StepReceive, StepUnreceived, StepRecovery,
     StepWait, StepStatus DEF Driver
<1>3. ASSUME interrupt_complete \/ InterruptStops \/ AdapterWrites \/ AdapterReads
      PROVE  IInv'
  BY <1>3, StepInterrupt, StepAdapter
<1>4. ASSUME UNCHANGED vars PROVE IInv'
  BY <1>4, SoundParts
     DEF vars, IInv, Sound, TypeOK, LockOfCall, StageFits, NothingAhead,
         Clean, At, InStep, PipesIdle, Request, CleanExchange
<1>5. QED
  BY <1>1, <1>2, <1>3, <1>4 DEF Next

(* The inductive invariant: types, the lock, and what lies in the pipes.      *)
THEOREM AgilentInvariance == Spec => []IInv
<1>1. IInv /\ [Next]_vars => IInv'
  BY NextGood
<1>2. QED
  BY <1>1, InitGood, PTL DEF Spec

(* Every message has an operation and a call that were begun, and every       *)
(* counter stays a number.                                                    *)
THEOREM AgilentTypeCorrect == Spec => []TypeOK
<1>1. IInv => TypeOK
  BY DEF IInv, Sound
<1>2. QED
  BY <1>1, AgilentInvariance, PTL

(* No way out of a call keeps m_bulk_transfer_lock: between calls it is free, *)
(* so the next call never waits for it (send_bulk_msg and receive_bulk_msg    *)
(* may fail anywhere).                                                        *)
THEOREM BulkLockComesBack == Spec => [](At("idle") => ~bulk_transfer_lock)
<1>1. IInv => (At("idle") => ~bulk_transfer_lock)
  BY DEF IInv, Sound, LockOfCall, At
<1>2. QED
  BY <1>1, AgilentInvariance, PTL

(* As long as no call has failed, each gets the reply to its own request, a   *)
(* write returns when its bytes are on the bus, and nothing is left over,     *)
(* although messages carry no tag and interrupts come at any moment.          *)
THEOREM ExchangeClean == Spec => []CleanExchange
<1>1. IInv => CleanExchange
  BY DEF IInv
<1>2. QED
  BY <1>1, AgilentInvariance, PTL
=============================================================================
