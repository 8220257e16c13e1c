-------------------------------- MODULE BusIO --------------------------------
(***************************************************************************)
(* The bus operations of one board (gpib_sys.m) as the ioctls of           *)
(* gpib_link.m run them on the link thread: transfers in pieces of the     *)
(* board's buffer, the controller state (system controller, controller in  *)
(* charge, ATN), the watchdog timer with its TIMO bit, serial and parallel *)
(* polls, and the wait for a service request.                              *)
(*                                                                         *)
(* One ioctl runs at a time.  It is cut into steps where the link thread   *)
(* enters its run loop, inside the driver's calls: only there can the      *)
(* watchdog fire.  Each call of the driver may fail, because every one of  *)
(* them is a USB transfer.  Payload bytes are abstracted to their number.  *)
(***************************************************************************)
EXTENDS Integers

CONSTANTS
  BufferLength,  \* the board's buffer (0x4000 bytes)
  RemainModulus, \* 2^16: read_ioctl counts in a UInt16, "remain"
  Counts         \* the transfer counts callers ask for

ASSUME BusAssumption ==
  /\ BufferLength \in Nat \ {0}
  /\ RemainModulus \in Nat \ {0}
  /\ Counts \subseteq Nat

VARIABLES
  is_master,      \* _master: system controller
  is_cic,         \* m_is_cic: controller in charge
  atn,            \* the interface drives ATN (controller active)
  usec_timeout,   \* _usecTimeout, 0 for none
  timer,          \* m_timer: "none", "running" or "expired" (fired, not removed)
  timo,           \* TIMO_NUM in m_private_board.status
  serial_poll,    \* SPE was sent and SPD was not
  srq,            \* a device requests service
  req,            \* the ioctl that is running
  result          \* what the last ioctl returned

vars == <<is_master, is_cic, atn, usec_timeout, timer, timo, serial_poll, srq,
          req, result>>
control == <<is_master, is_cic>>
clock == <<timer, timo>>
rest == <<usec_timeout, serial_poll, srq>>

Cmds == {"none", "IBRD", "IBWRT", "IBCMD", "IBRPP", "IBRSP", "IBWAIT", "other"}
Stages == {"idle", "loop", "driver", "setup", "talk", "cleanup", "waiting"}

(* requested: the caller's count; remain, bytes_written, nbytes, end: as in  *)
(* the handlers; moved: the bytes that really crossed the bus.               *)
Idle == [cmd |-> "none", stage |-> "idle", requested |-> 0, remain |-> 0,
         bytes_written |-> 0, nbytes |-> 0, moved |-> 0, end |-> FALSE,
         ret |-> "ok"]
NoResult == [cmd |-> "none", ret |-> "ok", completed |-> 0, moved |-> 0]

(* init_gpib_board: system controller, no time-out running.                  *)
Init ==
  /\ is_master = TRUE /\ is_cic = FALSE /\ atn = FALSE
  /\ usec_timeout \in {0, 1}
  /\ timer = "none" /\ timo = FALSE
  /\ serial_poll = FALSE /\ srq = FALSE
  /\ req = Idle /\ result = NoResult

-----------------------------------------------------------------------------
(* The watchdog.                                                             *)

(* osStartTimer: a timer that still runs is kept, with its old time limit    *)
(* and TIMO as it is ("gpib: bug! timer already running?").                  *)
osStartTimer ==
  IF timer = "running" THEN UNCHANGED clock
  ELSE /\ timo' = FALSE
       /\ timer' = IF usec_timeout > 0 THEN "running" ELSE
                   IF timer = "expired" THEN "expired" ELSE "none"

osRemoveTimer == timer' = "none" /\ UNCHANGED timo

(* watchdog_timeout, from the run loop: inside a driver call or between two  *)
(* ioctls.                                                                   *)
watchdog_timeout ==
  /\ timer = "running"
  /\ timer' = "expired"
  /\ timo' = TRUE
  /\ UNCHANGED <<control, atn, rest, req, result>>

-----------------------------------------------------------------------------
(* The end of an ioctl: completed is requested_transfer_count - remain.      *)
Answer(r, ret) ==
  /\ req' = Idle
  /\ result' = [cmd |-> r.cmd, ret |-> ret, completed |-> r.requested - r.remain,
                moved |-> r.moved]

Continue(r) == req' = r /\ UNCHANGED result

Start(cmd, stage, n, remain) ==
  /\ req.stage = "idle"
  /\ Continue([Idle EXCEPT !.cmd = cmd, !.stage = stage, !.requested = n,
                           !.remain = remain])
  /\ UNCHANGED <<control, atn, clock, rest>>

ChunkOfBuffer == BufferLength  \* mutant: the last piece is not shortened

Chunk == IF BufferLength < req.remain THEN BufferLength ELSE req.remain

(* ibgts, when the board is system controller: not in charge, or a driver    *)
(* error, is a failure.                                                      *)
StandbyFails == is_master /\ UNCHANGED atn
StandbyWorks == /\ is_master => is_cic
                /\ atn' = IF is_master THEN FALSE ELSE atn

(* ibcac: not in charge is a failure; with ATN seen on there is nothing to   *)
(* do, otherwise the driver takes control and may fail (it may fail with ATN *)
(* on too, when the status could not be read).                               *)
ActiveFails == UNCHANGED atn
ActiveWorks == is_cic /\ atn' = TRUE

-----------------------------------------------------------------------------
(* write_ioctl.  bytes_written is set by the driver, not by ibwrt: when      *)
(* ibgts fails the count of the piece before is taken off once more.         *)

WriteStart(n) == Start("IBWRT", "loop", n, n)

EndOfWrite(r) == Answer(r, IF r.remain = 0 THEN "ok" ELSE r.ret)

WriteStandbyFails ==
  /\ req.cmd = "IBWRT" /\ req.stage = "loop" /\ req.remain > 0
  /\ StandbyFails
  /\ EndOfWrite([req EXCEPT !.remain = @ - req.bytes_written, !.ret = "error"])
  /\ UNCHANGED <<control, clock, rest>>

WriteBegins ==
  /\ req.cmd = "IBWRT" /\ req.stage = "loop" /\ req.remain > 0
  /\ StandbyWorks
  /\ osStartTimer
  /\ Continue([req EXCEPT !.stage = "driver"])
  /\ UNCHANGED <<control, rest>>


(* The driver's write: the bus carries m bytes and the driver reports k of    *)
(* them: none when an error hides them, and fewer also when the write-        *)
(* complete interrupt of an earlier write makes generic_write ask for the     *)
(* count before the last bytes have gone.                                    *)
WriteAccumulates ==  \* mutant: the driver adds its count to bytes_written
  /\ req.cmd = "IBWRT" /\ req.stage = "driver"
  /\ \E m \in 0 .. Chunk, fails \in BOOLEAN :
       LET k == IF fails THEN 0 ELSE m
           ret == IF timo THEN "timedout" ELSE IF fails THEN "error" ELSE "ok"
           r == [req EXCEPT !.stage = "loop", !.remain = @ - k, !.bytes_written = @ + k,
                            !.moved = @ + m, !.ret = ret]
       IN  IF ret # "ok" \/ k = 0 THEN EndOfWrite(r) ELSE Continue(r)
  /\ osRemoveTimer
  /\ UNCHANGED <<control, atn, rest>>

WriteDriver ==
  /\ req.cmd = "IBWRT" /\ req.stage = "driver"
  /\ \E m \in 0 .. Chunk, fails \in BOOLEAN : \E k \in 0 .. m :
       LET ret == IF timo THEN "timedout" ELSE IF fails THEN "error" ELSE "ok"
           r == [req EXCEPT !.stage = "loop", !.remain = @ - k, !.bytes_written = k,
                            !.moved = @ + m, !.ret = ret]
       IN  /\ fails => k = 0
           /\ IF ret # "ok" \/ k = 0 THEN EndOfWrite(r) ELSE Continue(r)
  /\ osRemoveTimer
  /\ UNCHANGED <<control, atn, rest>>

WriteEnds ==
  /\ req.cmd = "IBWRT" /\ req.stage = "loop" /\ req.remain = 0
  /\ EndOfWrite(req)
  /\ UNCHANGED <<control, atn, clock, rest>>

-----------------------------------------------------------------------------
(* read_ioctl and ibrd.  remain is a UInt16; completed is an int.            *)
ReadStart(n) == Start("IBRD", "loop", n, n % RemainModulus)

EndOfRead(r) == Answer(r, IF r.remain = 0 \/ r.end THEN "ok" ELSE r.ret)

ReadMore == req.remain > 0 /\ ~req.end

ReadStandbyFails ==
  /\ req.cmd = "IBRD" /\ req.stage = "loop" /\ ReadMore
  /\ StandbyFails
  /\ EndOfRead([req EXCEPT !.ret = "error"])
  /\ UNCHANGED <<control, clock, rest>>

ReadBegins ==
  /\ req.cmd = "IBRD" /\ req.stage = "loop" /\ ReadMore
  /\ StandbyWorks
  /\ osStartTimer
  /\ Continue([req EXCEPT !.stage = "driver", !.nbytes = 0])
  /\ UNCHANGED <<control, rest>>

(* The driver's read delivers m bytes, also when it fails (a timed out read  *)
(* keeps what had arrived).  ibrd goes on until the piece is full, read_ioctl*)
(* until the request is.                                                     *)
ReadDropsPiece ==  \* mutant: the bytes of a piece that ends in error are not counted
  /\ req.cmd = "IBRD" /\ req.stage = "driver"
  /\ \E m \in 0 .. Chunk - req.nbytes, e \in BOOLEAN, ret \in {"ok", "error"} :
       LET got == req.nbytes + m
           r == [req EXCEPT !.nbytes = got, !.moved = @ + m, !.end = e, !.ret = ret]
           out == [r EXCEPT !.stage = "loop", !.remain = @ - got]
       IN  IF ret = "ok" /\ got > 0 /\ got < Chunk /\ ~e
           THEN Continue(r) /\ UNCHANGED clock
           ELSE /\ IF got = 0 \/ ret = "error" THEN EndOfRead(r) ELSE Continue(out)
                /\ osRemoveTimer
  /\ UNCHANGED <<control, atn, rest>>

ReadDriver ==
  /\ req.cmd = "IBRD" /\ req.stage = "driver"
  /\ \E m \in 0 .. Chunk - req.nbytes, e \in BOOLEAN, ret \in {"ok", "error"} :
       LET got == req.nbytes + m
           r == [req EXCEPT !.nbytes = got, !.moved = @ + m, !.end = e, !.ret = ret]
           out == [r EXCEPT !.stage = "loop", !.remain = @ - got]
       IN  IF ret = "ok" /\ got > 0 /\ got < Chunk /\ ~e
           THEN Continue(r) /\ UNCHANGED clock
           ELSE /\ IF got = 0 \/ ret = "error" THEN EndOfRead(out) ELSE Continue(out)
                /\ osRemoveTimer
  /\ UNCHANGED <<control, atn, rest>>

ReadEnds ==
  /\ req.cmd = "IBRD" /\ req.stage = "loop" /\ ~ReadMore
  /\ EndOfRead(req)
  /\ UNCHANGED <<control, atn, clock, rest>>

-----------------------------------------------------------------------------
(* command_ioctl and ibcmd: the driver is called at least once.              *)
CommandStart(n) == Start("IBCMD", "loop", n, n)

CommandNotInCharge ==
  /\ req.cmd = "IBCMD" /\ req.stage = "loop" /\ ~is_cic
  /\ Answer(req, "error")
  /\ UNCHANGED <<control, atn, clock, rest>>

CommandBegins ==
  /\ req.cmd = "IBCMD" /\ req.stage = "loop" /\ is_cic
  /\ ActiveWorks
  /\ osStartTimer
  /\ Continue([req EXCEPT !.stage = "driver"])
  /\ UNCHANGED <<control, rest>>

(* ibcac fails between the timer's start and its removal; the watchdog may   *)
(* have fired meanwhile.                                                     *)
CommandActiveFails ==
  /\ req.cmd = "IBCMD" /\ req.stage = "loop" /\ is_cic
  /\ ActiveFails
  /\ timer' = "none"
  /\ timo' \in {FALSE, usec_timeout > 0 \/ timer = "running"}
  /\ Answer(req, IF timo' THEN "timedout" ELSE "error")
  /\ UNCHANGED <<control, rest>>

CommandCountsAll ==  \* mutant: a piece counts in full although it failed
  /\ req.cmd = "IBCMD" /\ req.stage = "driver"
  /\ \E m \in 0 .. Chunk, fails \in BOOLEAN :
       LET ret == IF timo THEN "timedout" ELSE IF fails THEN "error" ELSE "ok"
           r == [req EXCEPT !.stage = "loop", !.remain = @ - Chunk, !.moved = @ + m,
                            !.ret = ret]
       IN  IF ret # "ok" \/ m = 0 \/ r.remain = 0 THEN Answer(r, ret) ELSE Continue(r)
  /\ osRemoveTimer
  /\ UNCHANGED <<control, atn, rest>>

CommandDriver ==
  /\ req.cmd = "IBCMD" /\ req.stage = "driver"
  /\ \E m \in 0 .. Chunk, fails \in BOOLEAN : \E k \in 0 .. m :
       LET ret == IF timo THEN "timedout" ELSE IF fails THEN "error" ELSE "ok"
           r == [req EXCEPT !.stage = "loop", !.remain = @ - k, !.moved = @ + m,
                            !.ret = ret]
       IN  /\ fails => k = 0
           /\ IF ret # "ok" \/ k = 0 \/ r.remain = 0 THEN Answer(r, ret) ELSE Continue(r)
  /\ osRemoveTimer
  /\ UNCHANGED <<control, atn, rest>>

-----------------------------------------------------------------------------
(* parallel_poll_ioctl (ibrpp): a failing ibcac returns with the timer on.   *)
RppStart ==
  /\ req.stage = "idle"
  /\ osStartTimer
  /\ \/ /\ ActiveFails
        /\ Answer([Idle EXCEPT !.cmd = "IBRPP"], "error")
     \/ /\ ActiveWorks
        /\ Continue([Idle EXCEPT !.cmd = "IBRPP", !.stage = "driver"])
  /\ UNCHANGED <<control, rest>>

RppDriver ==
  /\ req.cmd = "IBRPP" /\ req.stage = "driver"
  /\ \E ret \in {"ok", "error"} : Answer(req, ret)
  /\ osRemoveTimer
  /\ UNCHANGED <<control, atn, rest>>

-----------------------------------------------------------------------------
(* serial_poll_ioctl without a stored byte: dvrsp and serial_poll_single.    *)
(* A command that reports an error may still have reached the devices.  The  *)
(* results of ibcac and ibgts are ignored; the driver's command drives ATN   *)
(* itself.                                                                   *)
SpollAnswer(ret) == Answer(req, IF timo THEN "timedout" ELSE ret)

SpollStart ==
  /\ req.stage = "idle"
  /\ IF is_cic
     THEN /\ Continue([Idle EXCEPT !.cmd = "IBRSP", !.stage = "setup"])
          /\ osStartTimer
          /\ ActiveFails \/ ActiveWorks
     ELSE /\ Answer([Idle EXCEPT !.cmd = "IBRSP"], "error")
          /\ UNCHANGED <<clock, atn>>
  /\ UNCHANGED <<control, rest>>

(* setup_serial_poll: UNL, MLA, SPE.  On failure the poll ends here.         *)
setup_serial_poll ==
  /\ req.stage = "setup"
  /\ \/ serial_poll' = TRUE /\ Continue([req EXCEPT !.stage = "talk"])
     \/ serial_poll' \in {serial_poll, TRUE} /\ SpollAnswer("error")
  /\ osRemoveTimer
  /\ UNCHANGED <<control, atn, usec_timeout, srq>>

(* read_serial_poll_byte: MTA, standby, one byte.  Its timer starts and is   *)
(* removed on every way out; TIMO stays as the watchdog left it.             *)
read_serial_poll_byte ==
  /\ req.stage = "talk"
  /\ \E ret \in {"ok", "error"} : Continue([req EXCEPT !.stage = "cleanup", !.ret = ret])
  /\ timo' \in {FALSE, usec_timeout > 0}
  /\ timer' = "none"
  /\ atn' \in BOOLEAN
  /\ UNCHANGED <<control, rest>>

(* cleanup_serial_poll: SPD, UNT.                                            *)
CleanupSkipped ==  \* mutant: SPD is not sent
  /\ req.stage = "cleanup"
  /\ timo' \in {FALSE, usec_timeout > 0}
  /\ timer' = "none"
  /\ UNCHANGED <<control, atn, rest>>
  /\ Answer(req, req.ret)

cleanup_serial_poll ==
  /\ req.stage = "cleanup"
  /\ timo' \in {FALSE, usec_timeout > 0}
  /\ timer' = "none"
  /\ atn' \in {atn, TRUE}
  /\ \/ serial_poll' = FALSE /\ Answer(req, IF timo' THEN "timedout" ELSE req.ret)
     \/ /\ serial_poll' \in BOOLEAN
        /\ Answer(req, IF timo' THEN "timedout" ELSE "error")
  /\ UNCHANGED <<control, usec_timeout, srq>>

-----------------------------------------------------------------------------
(* ibwait with the mask TIMO | SRQI.  It has a timer of its own; each round  *)
(* runs the run loop and then wait_satisfied.  When that timer has fired the *)
(* ioctl fails, and my_wait drops the status of a failed ioctl.              *)
WaitStart == Start("IBWAIT", "waiting", 0, 0)

WaitRound ==
  /\ req.stage = "waiting"
  /\ \E fired \in {FALSE, usec_timeout > 0} :
       IF ~srq /\ ~fired THEN UNCHANGED <<req, result>>
       ELSE Answer(req, IF fired THEN "error" ELSE "ok")
  /\ UNCHANGED <<control, atn, clock, rest>>

ServiceRequest ==
  /\ srq' = ~srq
  /\ UNCHANGED <<control, atn, clock, usec_timeout, serial_poll, req, result>>

-----------------------------------------------------------------------------
(* The ioctls that only change the controller state.  A register write that  *)
(* fails leaves the hardware as it was, but not the software's flags.  What  *)
(* these ioctls return is not told apart.                                    *)
Other == Answer([Idle EXCEPT !.cmd = "other"], "ok")

(* interface_clear_ioctl (ibsic): IFC makes the interface active controller. *)
ibsic ==
  /\ req.stage = "idle" /\ Other
  /\ is_cic' = (is_cic \/ is_master)
  /\ atn' \in IF is_master THEN {atn, TRUE} ELSE {atn}
  /\ UNCHANGED <<is_master, clock, rest>>

ReleaseKeepsCharge(request_control) ==  \* mutant: m_is_cic is not cleared
  /\ req.stage = "idle" /\ Other
  /\ is_master' = request_control
  /\ atn' \in IF request_control THEN {atn} ELSE {atn, FALSE}
  /\ UNCHANGED <<is_cic, clock, rest>>

(* request_system_control_ioctl (ibrsc).                                     *)
ibrsc(request_control) ==
  /\ req.stage = "idle" /\ Other
  /\ is_master' = request_control
  /\ is_cic' = (is_cic /\ request_control)
  /\ atn' \in IF request_control THEN {atn} ELSE {atn, FALSE}
  /\ UNCHANGED <<clock, rest>>

(* take_control_ioctl (ibcac).                                               *)
take_control_ioctl ==
  /\ req.stage = "idle" /\ Other
  /\ ActiveFails \/ ActiveWorks
  /\ UNCHANGED <<control, clock, rest>>

(* IBGTS goes to the driver without ibgts's test for being in charge.        *)
go_to_standby ==
  /\ req.stage = "idle" /\ Other
  /\ atn' \in {atn, FALSE}
  /\ UNCHANGED <<control, clock, rest>>

timeout_ioctl(usec) ==
  /\ req.stage = "idle" /\ Other
  /\ usec_timeout' = usec
  /\ UNCHANGED <<control, atn, clock, serial_poll, srq>>

-----------------------------------------------------------------------------
Request ==
  \/ \E n \in Counts : WriteStart(n) \/ ReadStart(n) \/ CommandStart(n)
  \/ RppStart \/ SpollStart \/ WaitStart
  \/ ibsic \/ take_control_ioctl \/ go_to_standby
  \/ \E b \in BOOLEAN : ibrsc(b)
  \/ \E usec \in {0, 1} : timeout_ioctl(usec)

Work ==
  \/ WriteStandbyFails \/ WriteBegins \/ WriteDriver \/ WriteEnds
  \/ ReadStandbyFails \/ ReadBegins \/ ReadDriver \/ ReadEnds
  \/ CommandNotInCharge \/ CommandBegins \/ CommandActiveFails \/ CommandDriver
  \/ RppDriver
  \/ setup_serial_poll \/ read_serial_poll_byte \/ cleanup_serial_poll
  \/ WaitRound

Next == Request \/ Work \/ watchdog_timeout \/ ServiceRequest

Spec == Init /\ [][Next]_vars
(* The link thread goes on with an ioctl it has begun (its steps are driver  *)
(* calls with USB time-outs of their own); a read that keeps succeeding with *)
(* no byte does not do so for ever, and a wait's timer fires if it is set.   *)
ReadProgress == ReadDriver /\ (req'.stage # "driver" \/ req'.moved > req.moved)
WaitLimit == WaitRound /\ req'.stage = "idle"

FairSpec ==
  /\ Spec
  /\ WF_vars(Work) /\ SF_vars(ReadProgress)
  /\ WF_vars(WaitLimit)

-----------------------------------------------------------------------------
(* Type correctness.  As long as a transfer goes on, none of its counters is  *)
(* negative; remain can become so in the step that ends a write whose ibgts   *)
(* failed, and then completed exceeds what was asked for.                    *)
TypeOK ==
  /\ is_master \in BOOLEAN /\ is_cic \in BOOLEAN /\ atn \in BOOLEAN
  /\ usec_timeout \in {0, 1}
  /\ timer \in {"none", "running", "expired"} /\ timo \in BOOLEAN
  /\ serial_poll \in BOOLEAN /\ srq \in BOOLEAN
  /\ req \in [cmd : Cmds, stage : Stages, requested : Nat, remain : Nat,
              bytes_written : Nat, nbytes : Nat, moved : Nat, end : BOOLEAN,
              ret : {"ok", "error", "timedout"}]
  /\ result \in [cmd : Cmds, ret : {"ok", "error", "timedout"}, completed : Nat,
                 moved : Nat]

(* While the driver moves data (ibrd, ibwrt), a controller in charge does    *)
(* not drive ATN: otherwise the devices would take the data for commands.    *)
(* ibrd and ibwrt go to standby only when the board is system controller, so *)
(* this rests on every controller in charge being one, whatever ibsic, ibrsc *)
(* and failed register writes came before.                                   *)
DataInStandby ==
  (req.stage = "driver" /\ req.cmd \in {"IBRD", "IBWRT"} /\ is_cic) => ~atn

(* read_ioctl reports exactly the bytes the bus delivered, on every way out  *)
(* of its two nested loops: an error, a time-out, an early END, a short      *)
(* piece.                                                                    *)
ReadCountReal == result.cmd = "IBRD" => result.completed = result.moved

(* command_ioctl never reports command bytes the bus has not carried (its    *)
(* callers take a full count for "the devices are addressed").               *)
CommandCountReal == result.cmd = "IBCMD" => result.completed <= result.moved

(* When ibgts fails, write_ioctl takes the count of the piece before off once *)
(* more, and can even report success for it.  What it reports too much is     *)
(* one piece at most, and never more than it has sent.                       *)
WriteCountOver ==
  result.cmd = "IBWRT" =>
    /\ result.completed - result.moved <= BufferLength
    /\ result.completed - result.moved <= result.moved

(* A serial poll that succeeds leaves no device in serial poll mode (dvrsp:  *)
(* "SPD and UNT are sent at the completion of the poll"), although polls     *)
(* that failed before it may have: the next read would get status bytes.     *)
PollLeavesNoTrace ==
  (req.stage = "idle" /\ result.cmd = "IBRSP" /\ result.ret = "ok") => ~serial_poll


==============================================================================
