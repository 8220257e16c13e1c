-------------------------------- MODULE Agilent --------------------------------
(***************************************************************************)
(* The driver of the Agilent 82357 (Agilent_82357_AB.m): how a call on the *)
(* link thread exchanges messages with the adapter over three USB pipes.   *)
(*   - bulk out: one request for every register access, read or write;     *)
(*   - bulk in: one reply for every register access and every read;        *)
(*   - interrupt in: "write complete", which interrupt_complete turns into *)
(*     a flag whenever the thread is in its run loop.                      *)
(* Requests and replies carry no tag: what answers what is a matter of     *)
(* order.  Each USB transfer may fail, and may complete after the run loop *)
(* has given up on it: then the message has moved and the call says        *)
(* -ETIMEDOUT.                                                             *)
(*                                                                         *)
(* The adapter itself is external: a register request is answered at once, *)
(* a new read or write takes the place of the one before, an abort that    *)
(* works ends the current one, and an aborted read is replied to.          *)
(***************************************************************************)
EXTENDS Integers, Sequences

CONSTANTS
  MaxCalls, \* bound on the calls of the driver
  Length,   \* the bytes of a write
  Limits    \* the time limits (getUsecTimeout), 0 for none

ASSUME AgilentAssumption ==
  /\ MaxCalls \in Nat
  /\ Length \in Nat \ {0}
  /\ Limits \subseteq Nat

VARIABLES
  call,               \* the call that is running, or the last one
  bulk_transfer_lock, \* m_bulk_transfer_lock is held
  in_pipe,            \* replies the adapter has sent and nobody has received
  task,               \* the read or write the adapter is working on
  done,               \* the bytes of every write that are on the bus
  interrupts,         \* "write complete" messages not yet delivered
  write_complete,     \* AIF_WRITE_COMPLETE in m_private.interrupt_flags
  monitored,          \* a read of the interrupt pipe is pending
  result,             \* what the last call returned
  trouble             \* history: some call has failed or has been aborted

vars == <<call, bulk_transfer_lock, in_pipe, task, done, interrupts,
          write_complete, monitored, result, trouble>>
adapter == <<in_pipe, task, done>>
events == <<interrupts, write_complete, monitored>>
caller == <<bulk_transfer_lock, result, trouble>>

Registers == {"WR_REGS", "RD_REGS"}
Ops == Registers \union {"READ", "WRITE"}
Ids == 0 .. MaxCalls
NoMessage == [op |-> "none", id |-> 0]

Request == [op |-> call.op, id |-> call.id]

(* The call's time limit for USB, in milliseconds: read rounds the board's   *)
(* limit up, generic_write down; the register calls use constants of their   *)
(* own.  WritePipeAsyncTO takes 0 for no limit.                              *)
Msec(op, usec) ==
  CASE op \in Registers -> 1000
    [] op = "READ" -> (usec + 999) \div 1000
    [] op = "WRITE" -> usec \div 1000

(* attach has set the interrupt monitoring up (setup_urbs).                  *)
Init ==
  /\ call = [op |-> "WR_REGS", id |-> 0, usec |-> 0, stage |-> "idle", ret |-> "ok",
             answer |-> NoMessage, aborted |-> FALSE]
  /\ bulk_transfer_lock = FALSE
  /\ in_pipe = <<>> /\ task = NoMessage /\ done = [i \in Ids |-> 0]
  /\ interrupts = 0 /\ write_complete = FALSE /\ monitored = TRUE
  /\ result = [op |-> "none", id |-> 0, ret |-> "ok", answer |-> NoMessage, count |-> 0]
  /\ trouble = FALSE

-----------------------------------------------------------------------------
At(stage) == call.stage = stage
Go(stage) == call' = [call EXCEPT !.stage = stage]

(* A call unlocks m_bulk_transfer_lock on every way out.                     *)
Return(c, count) ==
  /\ call' = [c EXCEPT !.stage = "idle"]
  /\ bulk_transfer_lock' = FALSE
  /\ result' = [op |-> c.op, id |-> c.id, ret |-> c.ret, answer |-> c.answer,
                count |-> count]
  /\ trouble' = (trouble \/ c.ret # "ok" \/ c.aborted)

(* The call begins; generic_write clears the flag of the write before.       *)
BeginKeepsFlag(op, usec) ==  \* mutant: the flag is not cleared
  /\ At("idle") /\ call.id < MaxCalls
  /\ call' = [op |-> op, id |-> call.id + 1, usec |-> usec, stage |-> "lock",
              ret |-> "ok", answer |-> NoMessage, aborted |-> FALSE]
  /\ UNCHANGED <<caller, adapter, events>>

Begin(op, usec) ==
  /\ At("idle") /\ call.id < MaxCalls
  /\ call' = [op |-> op, id |-> call.id + 1, usec |-> usec, stage |-> "lock",
              ret |-> "ok", answer |-> NoMessage, aborted |-> FALSE]
  /\ write_complete' = (write_complete /\ op # "WRITE")
  /\ UNCHANGED <<caller, adapter, interrupts, monitored>>

Lock ==
  /\ At("lock")
  /\ ~bulk_transfer_lock
  /\ bulk_transfer_lock' = TRUE
  /\ Go("send")
  /\ UNCHANGED <<result, trouble, adapter, events>>

(* The request reaches the adapter.                                          *)
Deliver ==
  /\ IF call.op \in Registers
     THEN in_pipe' = Append(in_pipe, Request) /\ UNCHANGED task
     ELSE task' = Request /\ UNCHANGED in_pipe
  /\ UNCHANGED done

(* send_bulk_msg and bulk_complete.  Only generic_write aborts when its      *)
(* request could not be sent.                                                *)
SendBulk ==
  /\ At("send")
  /\ Deliver
  /\ Go(IF call.op = "WRITE" THEN "wait" ELSE "receive")
  /\ UNCHANGED <<caller, events>>

SendFailedKeepsLock(ret) ==  \* mutant: the early return does not unlock
  IF call.op = "WRITE"
  THEN /\ call' = [call EXCEPT !.stage = "abort", !.ret = ret]
       /\ UNCHANGED caller
  ELSE Go("idle") /\ UNCHANGED caller

SendFailed(ret) ==
  IF call.op = "WRITE"
  THEN /\ call' = [call EXCEPT !.stage = "abort", !.ret = ret]
       /\ UNCHANGED caller
  ELSE Return([call EXCEPT !.ret = ret], 0)

SendTooLate == At("send") /\ Deliver /\ SendFailed("timedout") /\ UNCHANGED events

SendFails ==
  /\ At("send")
  /\ \/ SendFailed("error")
     \/ Msec(call.op, call.usec) > 0 /\ SendFailed("timedout")
  /\ UNCHANGED <<adapter, events>>

-----------------------------------------------------------------------------
(* receive_bulk_msg takes the oldest reply.                                  *)
Take == in_pipe # <<>> /\ in_pipe' = Tail(in_pipe) /\ UNCHANGED <<task, done>>

(* The register calls check that the reply is of their kind (its first       *)
(* byte); a read takes what there is for its data.                           *)
Receive ==
  /\ At("receive")
  /\ Take
  /\ LET reply == Head(in_pipe)
         fits == call.op \in Registers => reply.op = call.op
     IN  Return([call EXCEPT !.answer = reply, !.ret = IF fits THEN "ok" ELSE "error"], 0)
  /\ UNCHANGED events

(* What a register call makes of a failed receive is -EIO; a read aborts,    *)
(* and after a time-out it flushes and tries for the rest.                   *)
ReceiveFailed(c) ==
  IF c.op \in Registers THEN Return([c EXCEPT !.ret = "error"], 0)
  ELSE /\ call' = [c EXCEPT !.stage = IF c.ret = "timedout" THEN "flush" ELSE "abort"]
       /\ UNCHANGED caller

ReceiveTooLate ==
  /\ At("receive")
  /\ Take
  /\ ReceiveFailed([call EXCEPT !.ret = "timedout", !.answer = Head(in_pipe)])
  /\ UNCHANGED events

ReceiveFails ==
  /\ At("receive")
  /\ \/ ReceiveFailed([call EXCEPT !.ret = "error"])
     \/ /\ Msec(call.op, call.usec) > 0
        /\ ReceiveFailed([call EXCEPT !.ret = "timedout"])
  /\ UNCHANGED <<adapter, events>>

(* abort: the control request fails, or the adapter gives its task up.       *)
AbortTask ==
  /\ \/ UNCHANGED <<task, in_pipe>>
     \/ /\ task' = NoMessage
        /\ in_pipe' = IF task.op = "READ" THEN Append(in_pipe, task) ELSE in_pipe
  /\ UNCHANGED done

Flush ==
  /\ At("flush")
  /\ AbortTask
  /\ Go("extra")
  /\ UNCHANGED <<caller, events>>

(* The second receive, of 100 ms.  The read says -ETIMEDOUT in any case.     *)
ReceiveExtra ==
  /\ At("extra")
  /\ \/ Take /\ Return([call EXCEPT !.answer = Head(in_pipe)], 0)
     \/ /\ Take \/ UNCHANGED adapter
        /\ Go("abort")
        /\ UNCHANGED caller
  /\ UNCHANGED events

Abort ==
  /\ At("abort")
  /\ AbortTask
  /\ Return(call, 0)
  /\ UNCHANGED events

-----------------------------------------------------------------------------
(* generic_write waits for the flag.  When its wait ends without it, it      *)
(* aborts the write, and asks for the count all the same.                    *)
WriteCompletes ==
  /\ At("wait")
  /\ write_complete
  /\ Go("status")
  /\ UNCHANGED <<caller, adapter, events>>

WaitTimesOut ==
  /\ At("wait")
  /\ ~write_complete
  /\ AbortTask
  /\ call' = [call EXCEPT !.stage = "status", !.aborted = TRUE]
  /\ UNCHANGED <<caller, events>>

(* XFER_STATUS: the bytes of the adapter's last write that are on the bus.   *)
XferStatus ==
  /\ At("status")
  /\ \/ Return(call, done[call.id])
     \/ Return([call EXCEPT !.ret = "error"], 0)
  /\ UNCHANGED <<adapter, events>>

-----------------------------------------------------------------------------
(* The run loop runs between calls and in the waits of bulk transfers, not   *)
(* in the control requests (abort, XFER_STATUS).                             *)
InRunLoop == call.stage \in {"idle", "send", "receive", "extra", "wait"}

interrupt_complete ==
  /\ InRunLoop /\ monitored
  /\ interrupts > 0
  /\ interrupts' = interrupts - 1
  /\ write_complete' = TRUE
  /\ UNCHANGED <<call, caller, adapter, monitored>>

(* With an error of the pipe interrupt_complete does not read again.         *)
InterruptStops ==
  /\ InRunLoop /\ monitored
  /\ monitored' = FALSE
  /\ UNCHANGED <<call, caller, adapter, interrupts, write_complete>>

(* The adapter.                                                              *)
AdapterWrites ==
  /\ task.op = "WRITE"
  /\ done' = [done EXCEPT ![task.id] = @ + 1]
  /\ IF done'[task.id] = Length
     THEN task' = NoMessage /\ interrupts' = interrupts + 1
     ELSE UNCHANGED <<task, interrupts>>
  /\ UNCHANGED <<call, caller, in_pipe, write_complete, monitored>>

AdapterReads ==
  /\ task.op = "READ"
  /\ in_pipe' = Append(in_pipe, task)
  /\ task' = NoMessage
  /\ UNCHANGED <<call, caller, done, events>>

-----------------------------------------------------------------------------
Driver ==
  \/ Lock \/ SendBulk \/ SendTooLate \/ SendFails
  \/ Receive \/ ReceiveTooLate \/ ReceiveFails
  \/ Flush \/ ReceiveExtra \/ Abort
  \/ WriteCompletes \/ WaitTimesOut \/ XferStatus

Next ==
  \/ \E op \in Ops, usec \in Limits : Begin(op, usec)
  \/ Driver
  \/ interrupt_complete \/ InterruptStops
  \/ AdapterWrites \/ AdapterReads

Spec == Init /\ [][Next]_vars

(* A USB transfer with a time limit ends, one way or the other; without one  *)
(* it ends only if the adapter takes or sends the data.                      *)
Limited == call.stage \in {"send", "receive"} => Msec(call.op, call.usec) > 0
DriverGoesOn == Driver /\ Limited

FairSpec == Spec /\ WF_vars(DriverGoesOn)

-----------------------------------------------------------------------------
(* As long as no call has failed, driver and adapter stay in step: between   *)
(* calls no reply is left in the pipe and the adapter has nothing to do, the *)
(* last call got the reply to its own request, and a write returns only when *)
(* all its bytes are on the bus, although interrupts come in at any moment.  *)
CleanExchange ==
  (~trouble /\ At("idle")) =>
    /\ in_pipe = <<>> /\ task = NoMessage
    /\ result.op \in Registers \union {"READ"} =>
         result.answer = [op |-> result.op, id |-> result.id]
    /\ result.op = "WRITE" => result.count = Length

(* A call whose time limit is a millisecond or more returns: no failure of a *)
(* transfer leaves m_bulk_transfer_lock held, which the next call would wait *)
(* for, and none of the waits needs the adapter.                             *)
CallEnds == (~At("idle") /\ call.usec >= 1000) ~> At("idle")

=============================================================================
