----------------------------- MODULE BoardProofs -----------------------------
(***************************************************************************)
(* Proofs about the two parts of a board.  BusIO, for any buffer, any        *)
(* modulus and any transfer counts: types, data only in standby, the counts  *)
(* of commands and reads, and what a serial poll leaves behind.  Then          *)
(* StatusQueue, for any size of it: no byte twice, none lost unrefused, and  *)
(* the array with its dropped_byte flag implements a store of status bytes.   *)
(***************************************************************************)
EXTENDS BusIO, StatusQueue, FiniteSetTheorems, TLAPS

Rets == {"ok", "error", "timedout"}
Requests == [cmd : Cmds, stage : Stages, requested : Nat, remain : Nat,
             bytes_written : Nat, nbytes : Nat, moved : Nat, end : BOOLEAN,
             ret : Rets]
Results == [cmd : Cmds, ret : Rets, completed : Nat, moved : Nat]

(* What is left never exceeds what was asked for, a piece never its size,    *)
(* and neither a command nor a write that goes on counts a byte the bus has  *)
(* not carried; the last piece of a write is one that was sent.              *)
PieceOf(r) == IF BufferLength < r.remain THEN BufferLength ELSE r.remain

Good(r) ==
  /\ r \in Requests
  /\ r.remain <= r.requested
  /\ (r.cmd = "IBRD" /\ r.stage = "driver") => r.nbytes <= PieceOf(r)
  /\ r.cmd \in {"IBCMD", "IBWRT"} => r.requested - r.remain <= r.moved
  /\ r.cmd = "IBWRT" => r.bytes_written <= r.moved /\ r.bytes_written <= BufferLength

(* What is answered to a write: the piece before may have been counted twice.*)
Honest(cmd, completed, moved) ==
  /\ cmd = "IBCMD" => completed <= moved
  /\ cmd = "IBWRT" => completed - moved <= BufferLength /\ completed - moved <= moved

(* A controller in charge is the system controller: ibsic and ibrsc change   *)
(* the two together.                                                         *)
ChargeOfMaster == is_cic => is_master

CountsReal == CommandCountReal /\ WriteCountOver

IInv == TypeOK /\ Good(req) /\ CountsReal /\ ChargeOfMaster /\ DataInStandby

-----------------------------------------------------------------------------
(* The remainder is at most the number, and is the number below the modulus. *)
LEMMA Remainder ==
  ASSUME NEW n \in Nat, NEW m \in Nat \ {0}
  PROVE  n % m \in Nat /\ n % m <= n /\ (n < m => n % m = n)
<1>1. n % m \in 0 .. m - 1
  OBVIOUS
<1>2. n < m => n % m = n
  OBVIOUS
<1>3. QED
  BY <1>1, <1>2

(* A piece is a number, and no more than what is left.                       *)
LEMMA PieceBound ==
  ASSUME NEW r \in Requests
  PROVE  PieceOf(r) \in Nat /\ PieceOf(r) <= r.remain
  BY BusAssumption DEF PieceOf, Requests

(* A chunk of the buffer is a number of bytes, and at most what is left.     *)
LEMMA ChunkBound ==
  ASSUME req \in Requests
  PROVE  Chunk \in Nat /\ Chunk = PieceOf(req) /\ \A m \in 0 .. Chunk : m <= req.remain
<1>1. Chunk = PieceOf(req)
  BY DEF Chunk, PieceOf
<1>2. PieceOf(req) \in Nat /\ PieceOf(req) <= req.remain /\ req.remain \in Nat
  BY PieceBound DEF Requests
<1>3. QED
  BY <1>1, <1>2

(* What Answer leaves: nothing runs, and the result is typed and honest.     *)
LEMMA AnswerGood ==
  ASSUME NEW r, NEW ret \in Rets,
         r.cmd \in Cmds, r.moved \in Nat, r.requested - r.remain \in Nat,
         Honest(r.cmd, r.requested - r.remain, r.moved),
         Answer(r, ret)
  PROVE  /\ Good(req') /\ req'.stage = "idle" /\ req' \in Requests
         /\ result' \in Results
         /\ CountsReal'
<1>1. Idle \in Requests /\ Idle.stage = "idle" /\ Idle.cmd = "none"
      /\ Idle.remain = 0 /\ Idle.requested = 0
  BY DEF Idle, Requests, Cmds, Stages, Rets
<1>2. Good(Idle)
  BY <1>1 DEF Good
<1>3. req' = Idle /\ result' \in Results
  BY DEF Answer, Results
<1>4. /\ result'.cmd = r.cmd /\ result'.moved = r.moved
      /\ result'.completed = r.requested - r.remain
  BY DEF Answer
<1>5. CountsReal'
  BY <1>4 DEF CountsReal, CommandCountReal, WriteCountOver, Honest
<1>6. QED
  BY <1>1, <1>2, <1>3, <1>5

(* A good request can be answered as it stands.                              *)
LEMMA GoodIsHonest ==
  ASSUME NEW r, Good(r)
  PROVE  /\ r.cmd \in Cmds /\ r.moved \in Nat /\ r.requested - r.remain \in Nat
         /\ Honest(r.cmd, r.requested - r.remain, r.moved)
  BY BusAssumption DEF Good, Requests, Honest

(* A request that has only begun. *)
LEMMA NewGood ==
  ASSUME NEW c \in Cmds
  PROVE  Good([Idle EXCEPT !.cmd = c]) /\ [Idle EXCEPT !.cmd = c].stage = "idle"
<1> DEFINE r == [Idle EXCEPT !.cmd = c]
<1>1. /\ r \in Requests /\ r.cmd = c /\ r.stage = "idle"
      /\ r.moved = 0 /\ r.requested = 0 /\ r.remain = 0 /\ r.bytes_written = 0
  BY DEF Idle, Requests, Stages, Rets
<1> HIDE DEF r
<1>2. Good(r)
  BY <1>1, BusAssumption DEF Good
<1>3. QED
  BY <1>1, <1>2 DEF r

(* The rest of the state.                                                    *)
ScalarsOK ==
  /\ is_master \in BOOLEAN /\ is_cic \in BOOLEAN /\ atn \in BOOLEAN
  /\ usec_timeout \in {0, 1}
  /\ timer \in {"none", "running", "expired"} /\ timo \in BOOLEAN
  /\ serial_poll \in BOOLEAN /\ srq \in BOOLEAN

(* The type invariant in parts: the request and its result apart.            *)
LEMMA TypeParts ==
  /\ TypeOK <=> ScalarsOK /\ req \in Requests /\ result \in Results
  /\ (TypeOK <=> ScalarsOK /\ req \in Requests /\ result \in Results)'
  BY DEF TypeOK, ScalarsOK, Requests, Results, Rets

(* A step that ends an ioctl, or leaves it outside the driver, moves no data.*)
LEMMA OutsideDriver ==
  ASSUME ScalarsOK', ChargeOfMaster', Good(req'), req'.stage # "driver",
         result' \in Results, CountsReal'
  PROVE  IInv'
  BY TypeParts DEF IInv, Good, DataInStandby

(* A step that goes on and answers nothing.                                  *)
LEMMA GoesOn ==
  ASSUME IInv, ScalarsOK', ChargeOfMaster', Good(req'), UNCHANGED result,
         DataInStandby'
  PROVE  IInv'
  BY TypeParts DEF IInv, Good, CountsReal, CommandCountReal, WriteCountOver

(* A request after a piece: k bytes counted, m moved.                        *)
LEMMA PieceGood ==
  ASSUME Good(req), NEW r \in Requests, r.stage # "driver",
         r.cmd = req.cmd, r.requested = req.requested,
         NEW k \in Nat, NEW m \in Nat, k <= m,
         r.remain = req.remain - k, r.moved = req.moved + m,
         r.cmd = "IBWRT" => r.bytes_written <= r.moved /\ r.bytes_written <= BufferLength
  PROVE  Good(r)
<1>1. /\ req.remain \in Nat /\ req.requested \in Nat /\ req.moved \in Nat
      /\ req.remain <= req.requested
      /\ req.cmd \in {"IBCMD", "IBWRT"} => req.requested - req.remain <= req.moved
  BY DEF Good, Requests
<1>2. r.remain <= r.requested
  BY <1>1
<1>3. r.cmd \in {"IBCMD", "IBWRT"} => r.requested - r.remain <= r.moved
  BY <1>1
<1>4. QED
  BY <1>2, <1>3 DEF Good

(* What the invariant says of the current state, in pieces.                  *)
LEMMA Parts ==
  ASSUME IInv
  PROVE  /\ ScalarsOK /\ ChargeOfMaster /\ Good(req) /\ req \in Requests
         /\ result \in Results
  BY TypeParts DEF IInv, Good

(* The two ways a step leaves an ioctl: answered, or running elsewhere than  *)
(* in the driver.                                                            *)
LEMMA EndsWith ==
  ASSUME NEW r, Good(r), NEW ret \in Rets, Answer(r, ret), ScalarsOK', ChargeOfMaster'
  PROVE  IInv'
<1>1. /\ r.cmd \in Cmds /\ r.moved \in Nat /\ r.requested - r.remain \in Nat
      /\ Honest(r.cmd, r.requested - r.remain, r.moved)
  BY GoodIsHonest
<1>2. Good(req') /\ req'.stage = "idle" /\ result' \in Results /\ CountsReal'
  BY <1>1, AnswerGood
<1>3. QED
  BY <1>2, OutsideDriver

(* A step that goes on with a good request keeps the invariant.              *)
LEMMA ContinuesAs ==
  ASSUME IInv, NEW r, Good(r), r.stage # "driver", Continue(r),
         ScalarsOK', ChargeOfMaster'
  PROVE  IInv'
<1>1. req' = r /\ UNCHANGED result
  BY DEF Continue
<1>2. DataInStandby'
  BY <1>1 DEF DataInStandby
<1>3. QED
  BY <1>1, <1>2, GoesOn

(* A timer that starts and ends within a step: TIMO afterwards.              *)
LEMMA OwnTimer ==
  ASSUME timo' \in {FALSE, usec_timeout > 0}
  PROVE  timo' \in BOOLEAN
<1> DEFINE limited == usec_timeout > 0
<1>1. limited \in BOOLEAN
  OBVIOUS
<1>2. timo' \in {FALSE, limited}
  OBVIOUS
<1> HIDE DEF limited
<1>3. QED
  BY <1>1, <1>2

(* The watchdog is started and removed within the types of its variables.    *)
LEMMA ClockTypes ==
  ASSUME ScalarsOK, osStartTimer \/ osRemoveTimer
  PROVE  timer' \in {"none", "running", "expired"} /\ timo' \in BOOLEAN
  BY DEF ScalarsOK, osStartTimer, osRemoveTimer, clock

-----------------------------------------------------------------------------
(* Starting a transfer, a command or a wait. *)
LEMMA StepStart ==
  ASSUME IInv, NEW c \in Cmds, NEW s \in Stages, s # "driver",
         NEW n \in Nat, NEW m \in Nat, m <= n, c \in {"IBCMD", "IBWRT"} => m = n,
         Start(c, s, n, m)
  PROVE  IInv'
<1> DEFINE r == [Idle EXCEPT !.cmd = c, !.stage = s, !.requested = n, !.remain = m]
<1>1. /\ r \in Requests /\ r.cmd = c /\ r.stage = s
      /\ r.requested = n /\ r.remain = m /\ r.moved = 0 /\ r.bytes_written = 0
  BY DEF Idle, Requests, Rets
<1> HIDE DEF r
<1>2. Good(r) /\ r.stage # "driver"
  BY <1>1, BusAssumption DEF Good
<1>3. req' = r /\ UNCHANGED <<control, atn, clock, rest, result>>
  BY DEF Start, Continue, r
<1>4. ScalarsOK' /\ ChargeOfMaster' /\ DataInStandby'
  BY <1>2, <1>3, Parts DEF ScalarsOK, ChargeOfMaster, DataInStandby, control, clock, rest
<1>5. QED
  BY <1>2, <1>3, <1>4, GoesOn

-----------------------------------------------------------------------------
(* write_ioctl: only standby leads into the driver. *)
LEMMA StepWrite ==
  ASSUME IInv, WriteStandbyFails \/ WriteBegins \/ WriteDriver \/ WriteEnds
  PROVE  IInv'
<1>0. /\ ScalarsOK /\ ChargeOfMaster /\ Good(req) /\ req \in Requests
      /\ result \in Results
  BY Parts
<1>1. CASE WriteStandbyFails
  <2> DEFINE r == [req EXCEPT !.remain = @ - req.bytes_written, !.ret = "error"]
  <2>1. /\ r.cmd = "IBWRT" /\ r.moved \in Nat /\ r.ret = "error"
        /\ r.requested - r.remain \in Nat
        /\ Honest(r.cmd, r.requested - r.remain, r.moved)
    <3>1. /\ r.cmd = "IBWRT" /\ r.moved = req.moved /\ r.ret = "error"
          /\ r.requested = req.requested /\ r.remain = req.remain - req.bytes_written
      BY <1>0, <1>1 DEF WriteStandbyFails, Requests
    <3>2. /\ req.moved \in Nat /\ req.requested \in Nat /\ req.remain \in Nat
          /\ req.bytes_written \in Nat /\ req.remain <= req.requested
          /\ req.requested - req.remain <= req.moved
          /\ req.bytes_written <= req.moved /\ req.bytes_written <= BufferLength
      BY <1>0, <1>1 DEF WriteStandbyFails, Good, Requests
    <3> HIDE DEF r
    <3>3. QED
      BY <3>1, <3>2, BusAssumption DEF Honest
  <2>2. \E ret \in Rets : Answer(r, ret)
    BY <1>1, <2>1 DEF WriteStandbyFails, EndOfWrite, Rets
  <2>3. ScalarsOK' /\ ChargeOfMaster'
    BY <1>0, <1>1 DEF WriteStandbyFails, StandbyFails, ScalarsOK, ChargeOfMaster,
                      control, clock, rest
  <2> HIDE DEF r
  <2>4. Good(req') /\ req'.stage = "idle" /\ result' \in Results /\ CountsReal'
    BY <2>1, <2>2, AnswerGood DEF Cmds
  <2>5. QED
    BY <2>3, <2>4, OutsideDriver
<1>2. CASE WriteBegins
  <2>1. req' = [req EXCEPT !.stage = "driver"] /\ UNCHANGED result
    BY <1>2 DEF WriteBegins, Continue
  <2>2. Good(req')
    BY <1>0, <1>2, <2>1 DEF WriteBegins, Good, Requests, Stages
  <2>3. ScalarsOK' /\ ChargeOfMaster' /\ DataInStandby'
    BY <1>0, <1>2, ClockTypes DEF WriteBegins, StandbyWorks, ScalarsOK, ChargeOfMaster,
                                 DataInStandby, control, rest
  <2>4. QED
    BY <2>1, <2>2, <2>3, GoesOn
<1>3. CASE WriteDriver
  <2>0. PICK m \in 0 .. Chunk, fails \in BOOLEAN : \E k \in 0 .. m :
          LET ret == IF timo THEN "timedout" ELSE IF fails THEN "error" ELSE "ok"
              r == [req EXCEPT !.stage = "loop", !.remain = @ - k,
                               !.bytes_written = k, !.moved = @ + m, !.ret = ret]
          IN  /\ fails => k = 0
              /\ IF ret # "ok" \/ k = 0 THEN EndOfWrite(r) ELSE Continue(r)
    BY <1>3 DEF WriteDriver
  <2>1. PICK k \in 0 .. m :
          LET ret == IF timo THEN "timedout" ELSE IF fails THEN "error" ELSE "ok"
              r == [req EXCEPT !.stage = "loop", !.remain = @ - k,
                               !.bytes_written = k, !.moved = @ + m, !.ret = ret]
          IN  /\ fails => k = 0
              /\ IF ret # "ok" \/ k = 0 THEN EndOfWrite(r) ELSE Continue(r)
    BY <2>0
  <2> DEFINE ret == IF timo THEN "timedout" ELSE IF fails THEN "error" ELSE "ok"
             r == [req EXCEPT !.stage = "loop", !.remain = @ - k,
                              !.bytes_written = k, !.moved = @ + m, !.ret = ret]
  <2>2. m \in Nat /\ m <= req.remain /\ m <= BufferLength
    BY <1>0, <2>0, ChunkBound, BusAssumption DEF PieceOf, Requests
  <2>3. k \in Nat /\ k <= req.remain /\ ret \in Rets
    BY <1>0, <2>1, <2>2 DEF Rets, Requests
  <2> HIDE DEF ret
  <2>4. Good(r) /\ r.stage = "loop" /\ r.cmd = "IBWRT" /\ r.ret = ret
    <3>1. req.remain - k \in Nat /\ req.moved + m \in Nat /\ k <= m
      BY <1>0, <2>2, <2>1, <2>3 DEF Requests
    <3>2. /\ r \in Requests /\ r.stage = "loop" /\ r.cmd = req.cmd /\ r.ret = ret
          /\ r.requested = req.requested /\ r.remain = req.remain - k
          /\ r.moved = req.moved + m /\ r.bytes_written = k
      BY <1>0, <2>3, <3>1 DEF Requests, Stages
    <3> HIDE DEF r
    <3>3. r.bytes_written <= r.moved /\ r.bytes_written <= BufferLength
      BY <1>0, <2>2, <2>3, <3>1, <3>2, BusAssumption DEF Requests
    <3>4. Good(r)
      BY <1>0, <2>2, <2>3, <3>1, <3>2, <3>3, PieceGood
    <3>5. QED
      BY <1>3, <3>2, <3>4 DEF WriteDriver
  <2> HIDE DEF r
  <2>5. EndOfWrite(r) \/ Continue(r)
    BY <2>1 DEF r, ret
  <2>6. ScalarsOK' /\ ChargeOfMaster'
    BY <1>0, <1>3, ClockTypes DEF WriteDriver, ScalarsOK, ChargeOfMaster, control, rest
  <2>7. CASE EndOfWrite(r)
    <3>1. \E e \in Rets : Answer(r, e)
      BY <2>3, <2>4, <2>7 DEF EndOfWrite, Rets
    <3>2. QED
      BY <2>4, <2>6, <3>1, EndsWith
  <2>8. CASE Continue(r)
    BY <2>4, <2>6, <2>8, ContinuesAs
  <2>9. QED
    BY <2>5, <2>7, <2>8
<1>4. CASE WriteEnds
  <2>1. Answer(req, "ok") /\ UNCHANGED <<control, atn, clock, rest>>
    BY <1>4 DEF WriteEnds, EndOfWrite
  <2>2. ScalarsOK' /\ ChargeOfMaster'
    BY <1>0, <2>1 DEF ScalarsOK, ChargeOfMaster, control, clock, rest
  <2>3. QED
    BY <1>0, <2>1, <2>2, EndsWith DEF Rets
<1>5. QED
  BY <1>1, <1>2, <1>3, <1>4

-----------------------------------------------------------------------------
(* read_ioctl. *)
LEMMA StepRead ==
  ASSUME IInv, ReadStandbyFails \/ ReadBegins \/ ReadDriver \/ ReadEnds
  PROVE  IInv'
<1>0. /\ ScalarsOK /\ ChargeOfMaster /\ Good(req) /\ req \in Requests
      /\ result \in Results
  BY Parts
<1>1. CASE ReadStandbyFails
  <2> DEFINE r == [req EXCEPT !.ret = "error"]
  <2>1. /\ r \in Requests /\ r.cmd = req.cmd /\ r.requested = req.requested
        /\ r.remain = req.remain - 0 /\ r.moved = req.moved + 0
        /\ r.stage = req.stage /\ r.ret = "error"
    BY <1>0 DEF Requests, Rets
  <2>2. EndOfRead(r)
    BY <1>1 DEF ReadStandbyFails
  <2> HIDE DEF r
  <2>3. Good(r)
    BY <1>0, <1>1, <2>1, PieceGood DEF ReadStandbyFails
  <2>4. ScalarsOK' /\ ChargeOfMaster'
    BY <1>0, <1>1 DEF ReadStandbyFails, StandbyFails, ScalarsOK, ChargeOfMaster,
                      control, clock, rest
  <2>5. \E ret \in Rets : Answer(r, ret)
    BY <2>1, <2>2 DEF EndOfRead, Rets
  <2>6. QED
    BY <2>3, <2>4, <2>5, EndsWith
<1>2. CASE ReadBegins
  <2>1. req' = [req EXCEPT !.stage = "driver", !.nbytes = 0] /\ UNCHANGED result
    BY <1>2 DEF ReadBegins, Continue
  <2>2. /\ req' \in Requests /\ req'.requested = req.requested
        /\ req'.remain = req.remain /\ req'.cmd = "IBRD" /\ req'.nbytes = 0
    BY <1>0, <1>2, <2>1 DEF ReadBegins, Requests, Stages
  <2>3. Good(req')
    BY <1>0, <2>2, PieceBound DEF Good
  <2>4. ScalarsOK' /\ ChargeOfMaster' /\ DataInStandby'
    BY <1>0, <1>2, ClockTypes DEF ReadBegins, StandbyWorks, ScalarsOK, ChargeOfMaster,
                                 DataInStandby, control, rest
  <2>5. QED
    BY <2>1, <2>3, <2>4, GoesOn
<1>3. CASE ReadDriver
  <2>1. PICK m \in 0 .. Chunk - req.nbytes, e \in BOOLEAN, ret \in {"ok", "error"} :
          LET got == req.nbytes + m
              r == [req EXCEPT !.nbytes = got, !.moved = @ + m, !.end = e, !.ret = ret]
              out == [r EXCEPT !.stage = "loop", !.remain = @ - got]
          IN  IF ret = "ok" /\ got > 0 /\ got < Chunk /\ ~e
              THEN Continue(r) /\ UNCHANGED clock
              ELSE /\ IF got = 0 \/ ret = "error" THEN EndOfRead(out) ELSE Continue(out)
                   /\ osRemoveTimer
    BY <1>3 DEF ReadDriver
  <2> DEFINE got == req.nbytes + m
             r == [req EXCEPT !.nbytes = got, !.moved = @ + m, !.end = e, !.ret = ret]
             out == [r EXCEPT !.stage = "loop", !.remain = @ - got]
  <2>2. /\ req.cmd = "IBRD" /\ req.stage = "driver"
        /\ UNCHANGED <<control, atn, rest>>
    BY <1>3 DEF ReadDriver
  <2>3. /\ req.nbytes \in Nat /\ m \in Nat /\ got \in Nat /\ got <= PieceOf(req)
        /\ got <= req.remain /\ req.remain \in Nat /\ ret \in Rets
        /\ req.remain - got \in Nat /\ req.moved \in Nat /\ req.moved + m \in Nat
    <3>1. Chunk \in Nat /\ Chunk = PieceOf(req) /\ Chunk <= req.remain
      BY <1>0, ChunkBound
    <3>2. req.nbytes \in Nat /\ req.remain \in Nat /\ req.moved \in Nat
      BY <1>0 DEF Requests
    <3>3. ret \in Rets
      BY DEF Rets
    <3>4. m \in Int /\ 0 <= m /\ m <= Chunk - req.nbytes
      BY <3>1, <3>2
    <3>5. QED
      BY <3>1, <3>2, <3>3, <3>4
  <2> HIDE DEF got
  <2>4. /\ r \in Requests /\ r.cmd = req.cmd /\ r.requested = req.requested
        /\ r.remain = req.remain /\ r.stage = "driver" /\ r.nbytes = got
    BY <1>0, <2>2, <2>3 DEF Requests
  <2>5. /\ out \in Requests /\ out.cmd = req.cmd /\ out.requested = req.requested
        /\ out.remain = req.remain - got /\ out.stage = "loop" /\ out.ret = ret
    BY <1>0, <2>2, <2>3 DEF Requests, Stages
  <2>6. \/ Continue(r) /\ UNCHANGED clock
        \/ (EndOfRead(out) \/ Continue(out)) /\ osRemoveTimer
    BY <2>1 DEF got
  <2> HIDE DEF r, out
  <2>7. ScalarsOK' /\ ChargeOfMaster'
    BY <1>0, <2>2, <2>6, ClockTypes DEF ScalarsOK, ChargeOfMaster, control, rest, clock
  <2>8. CASE Continue(r)
    <3>1. req' = r /\ UNCHANGED result
      BY <2>8 DEF Continue
    <3>2. Good(r)
      BY <1>0, <2>2, <2>3, <2>4 DEF Good, PieceOf
    <3>3. DataInStandby'
      BY <2>2, <2>4, <3>1 DEF IInv, DataInStandby, control
    <3>4. QED
      BY <2>7, <3>1, <3>2, <3>3, GoesOn
  <2>9. Good(out)
    <3>1. out.remain <= out.requested
      BY <1>0, <2>3, <2>5 DEF Good, Requests
    <3>2. QED
      BY <2>2, <2>5, <3>1 DEF Good
  <2>10. CASE EndOfRead(out)
    <3>1. \E x \in Rets : Answer(out, x)
      BY <2>3, <2>5, <2>10 DEF EndOfRead, Rets
    <3>2. QED
      BY <2>7, <2>9, <3>1, EndsWith
  <2>11. CASE Continue(out)
    BY <2>5, <2>7, <2>9, <2>11, ContinuesAs
  <2>12. QED
    BY <2>6, <2>8, <2>10, <2>11
<1>4. CASE ReadEnds
  <2>1. EndOfRead(req) /\ UNCHANGED <<control, atn, clock, rest>>
    BY <1>4 DEF ReadEnds
  <2>2. ScalarsOK' /\ ChargeOfMaster'
    BY <1>0, <2>1 DEF ScalarsOK, ChargeOfMaster, control, clock, rest
  <2>3. \E ret \in Rets : Answer(req, ret)
    BY <1>0, <2>1 DEF EndOfRead, Requests, Rets
  <2>4. QED
    BY <1>0, <2>2, <2>3, EndsWith
<1>5. QED
  BY <1>1, <1>2, <1>3, <1>4

-----------------------------------------------------------------------------
(* command_ioctl. *)
LEMMA StepCommand ==
  ASSUME IInv,
         CommandNotInCharge \/ CommandBegins \/ CommandActiveFails \/ CommandDriver
  PROVE  IInv'
<1>0. /\ ScalarsOK /\ ChargeOfMaster /\ Good(req) /\ req \in Requests
      /\ result \in Results
  BY Parts
<1>1. CASE CommandNotInCharge
  <2>1. ScalarsOK' /\ ChargeOfMaster'
    BY <1>0, <1>1 DEF CommandNotInCharge, ScalarsOK, ChargeOfMaster, control, clock, rest
  <2>2. Answer(req, "error") /\ "error" \in Rets
    BY <1>1 DEF CommandNotInCharge, Rets
  <2>3. QED
    BY <1>0, <2>1, <2>2, EndsWith
<1>2. CASE CommandBegins
  <2>1. req' = [req EXCEPT !.stage = "driver"] /\ UNCHANGED result
    BY <1>2 DEF CommandBegins, Continue
  <2>2. Good(req') /\ req'.cmd = "IBCMD"
    BY <1>0, <1>2, <2>1 DEF CommandBegins, Good, Requests, Stages
  <2>3. ScalarsOK' /\ ChargeOfMaster'
    BY <1>0, <1>2, ClockTypes DEF CommandBegins, ActiveWorks, ScalarsOK,
                                 ChargeOfMaster, control, rest
  <2>4. DataInStandby'
    BY <2>2 DEF DataInStandby
  <2>5. QED
    BY <2>1, <2>2, <2>3, <2>4, GoesOn
<1>3. CASE CommandActiveFails
  <2>1. ScalarsOK' /\ ChargeOfMaster'
    BY <1>0, <1>3 DEF CommandActiveFails, ActiveFails, ScalarsOK, ChargeOfMaster,
                      control, rest
  <2>2. \E ret \in Rets : Answer(req, ret)
    BY <1>3 DEF CommandActiveFails, Rets
  <2>3. QED
    BY <1>0, <2>1, <2>2, EndsWith
<1>4. CASE CommandDriver
  <2>0. PICK m \in 0 .. Chunk, fails \in BOOLEAN : \E k \in 0 .. m :
          LET ret == IF timo THEN "timedout" ELSE IF fails THEN "error" ELSE "ok"
              r == [req EXCEPT !.stage = "loop", !.remain = @ - k, !.moved = @ + m,
                               !.ret = ret]
          IN  /\ fails => k = 0
              /\ IF ret # "ok" \/ k = 0 \/ r.remain = 0
                 THEN Answer(r, ret) ELSE Continue(r)
    BY <1>4 DEF CommandDriver
  <2>1. PICK k \in 0 .. m :
          LET ret == IF timo THEN "timedout" ELSE IF fails THEN "error" ELSE "ok"
              r == [req EXCEPT !.stage = "loop", !.remain = @ - k, !.moved = @ + m,
                               !.ret = ret]
          IN  /\ fails => k = 0
              /\ IF ret # "ok" \/ k = 0 \/ r.remain = 0
                 THEN Answer(r, ret) ELSE Continue(r)
    BY <2>0
  <2> DEFINE ret == IF timo THEN "timedout" ELSE IF fails THEN "error" ELSE "ok"
             r == [req EXCEPT !.stage = "loop", !.remain = @ - k, !.moved = @ + m,
                              !.ret = ret]
  <2>2. m \in Nat /\ m <= req.remain
    BY <1>0, <2>0, ChunkBound
  <2>3. k \in Nat /\ k <= req.remain /\ ret \in Rets /\ k <= m
    BY <1>0, <2>1, <2>2 DEF Rets, Requests
  <2> HIDE DEF ret
  <2>4. req.remain - k \in Nat /\ req.moved + m \in Nat
    BY <1>0, <2>2, <2>3 DEF Requests
  <2>5. /\ r \in Requests /\ r.stage = "loop" /\ r.cmd = req.cmd
        /\ r.requested = req.requested /\ r.remain = req.remain - k
        /\ r.moved = req.moved + m
    BY <1>0, <2>3, <2>4 DEF Requests, Stages
  <2>6. Answer(r, ret) \/ Continue(r)
    BY <2>1 DEF ret
  <2> HIDE DEF r
  <2>7. Good(r)
    BY <1>0, <1>4, <2>2, <2>3, <2>5, PieceGood DEF CommandDriver
  <2>8. ScalarsOK' /\ ChargeOfMaster'
    BY <1>0, <1>4, ClockTypes DEF CommandDriver, ScalarsOK, ChargeOfMaster, control, rest
  <2>9. QED
    BY <2>3, <2>5, <2>6, <2>7, <2>8, EndsWith, ContinuesAs
<1>5. QED
  BY <1>1, <1>2, <1>3, <1>4

-----------------------------------------------------------------------------
(* The polls. *)
LEMMA StepPoll ==
  ASSUME IInv, \/ RppStart \/ RppDriver \/ SpollStart
               \/ setup_serial_poll \/ read_serial_poll_byte \/ cleanup_serial_poll
  PROVE  IInv'
<1>0. /\ ScalarsOK /\ ChargeOfMaster /\ Good(req) /\ req \in Requests
      /\ result \in Results
  BY Parts
<1>1. CASE RppStart
  <2> DEFINE n == [Idle EXCEPT !.cmd = "IBRPP"]
             d == [Idle EXCEPT !.cmd = "IBRPP", !.stage = "driver"]
  <2>1. ScalarsOK' /\ ChargeOfMaster'
    BY <1>0, <1>1, ClockTypes DEF RppStart, ActiveFails, ActiveWorks, ScalarsOK,
                                 ChargeOfMaster, control, rest
  <2>2. Good(n)
    BY NewGood DEF Cmds
  <2>3. /\ d \in Requests /\ d.cmd = "IBRPP" /\ d.remain = 0 /\ d.requested = 0
    BY DEF Idle, Requests, Cmds, Stages, Rets
  <2>4. Answer(n, "error") \/ Continue(d)
    BY <1>1 DEF RppStart
  <2> HIDE DEF n, d
  <2>5. Good(d)
    BY <2>3 DEF Good
  <2>6. CASE Continue(d)
    <3>1. req' = d /\ UNCHANGED result
      BY <2>6 DEF Continue
    <3>2. DataInStandby'
      BY <2>3, <3>1 DEF DataInStandby
    <3>3. QED
      BY <2>1, <2>5, <3>1, <3>2, GoesOn
  <2>7. "error" \in Rets
    BY DEF Rets
  <2>8. QED
    BY <2>1, <2>2, <2>4, <2>6, <2>7, EndsWith
<1>2. CASE RppDriver
  <2>1. ScalarsOK' /\ ChargeOfMaster'
    BY <1>0, <1>2, ClockTypes DEF RppDriver, ScalarsOK, ChargeOfMaster, control, rest
  <2>2. \E ret \in Rets : Answer(req, ret)
    BY <1>2 DEF RppDriver, Rets
  <2>3. QED
    BY <1>0, <2>1, <2>2, EndsWith
<1>3. CASE SpollStart
  <2> DEFINE n == [Idle EXCEPT !.cmd = "IBRSP"]
             d == [Idle EXCEPT !.cmd = "IBRSP", !.stage = "setup"]
  <2>1. ScalarsOK' /\ ChargeOfMaster'
    BY <1>0, <1>3, ClockTypes DEF SpollStart, ActiveFails, ActiveWorks, ScalarsOK,
                                 ChargeOfMaster, control, rest, clock
  <2>2. Good(n)
    BY NewGood DEF Cmds
  <2>3. /\ d \in Requests /\ d.cmd = "IBRSP" /\ d.remain = 0 /\ d.requested = 0
        /\ d.stage = "setup"
    BY DEF Idle, Requests, Cmds, Stages, Rets
  <2>4. Answer(n, "error") \/ Continue(d)
    BY <1>3 DEF SpollStart
  <2> HIDE DEF n, d
  <2>5. Good(d)
    BY <2>3 DEF Good
  <2>6. "error" \in Rets
    BY DEF Rets
  <2>7. QED
    BY <2>1, <2>2, <2>3, <2>4, <2>5, <2>6, EndsWith, ContinuesAs
<1>4. CASE setup_serial_poll
  <2> DEFINE r == [req EXCEPT !.stage = "talk"]
  <2>1. ScalarsOK' /\ ChargeOfMaster'
    BY <1>0, <1>4, ClockTypes DEF setup_serial_poll, ScalarsOK, ChargeOfMaster, control
  <2>2. /\ r \in Requests /\ r.cmd = req.cmd /\ r.requested = req.requested
        /\ r.remain = req.remain - 0 /\ r.moved = req.moved + 0 /\ r.stage = "talk"
        /\ r.bytes_written = req.bytes_written /\ r.moved = req.moved
    BY <1>0 DEF Requests, Stages
  <2>3. Continue(r) \/ SpollAnswer("error")
    BY <1>4 DEF setup_serial_poll
  <2> HIDE DEF r
  <2>4. Good(r)
    BY <1>0, <2>2, PieceGood DEF Good
  <2>5. SpollAnswer("error") => \E ret \in Rets : Answer(req, ret)
    BY DEF SpollAnswer, Rets
  <2>6. QED
    BY <1>0, <2>1, <2>2, <2>3, <2>4, <2>5, EndsWith, ContinuesAs
<1>5. CASE read_serial_poll_byte
  <2>1. PICK ret \in {"ok", "error"} : Continue([req EXCEPT !.stage = "cleanup", !.ret = ret])
    BY <1>5 DEF read_serial_poll_byte
  <2> DEFINE r == [req EXCEPT !.stage = "cleanup", !.ret = ret]
  <2>2. ScalarsOK' /\ ChargeOfMaster'
    <3>1. timo' \in BOOLEAN
      BY <1>5, OwnTimer DEF read_serial_poll_byte
    <3>2. /\ timer' = "none" /\ atn' \in BOOLEAN
          /\ UNCHANGED <<control, rest>>
      BY <1>5 DEF read_serial_poll_byte
    <3>3. QED
      BY <1>0, <3>1, <3>2 DEF ScalarsOK, ChargeOfMaster, control, rest
  <2>3. r \in Requests /\ r.stage = "cleanup"
    <3>1. ret \in Rets
      BY DEF Rets
    <3>2. QED
      BY <1>0, <3>1 DEF Requests, Stages
  <2>4. Good(r)
    <3>1. /\ r.cmd = req.cmd /\ r.requested = req.requested
          /\ r.remain = req.remain /\ r.moved = req.moved
          /\ r.bytes_written = req.bytes_written
      BY <1>0 DEF Requests
    <3> HIDE DEF r
    <3>2. QED
      BY <1>0, <2>3, <3>1 DEF Good
  <2> HIDE DEF r
  <2>5. Continue(r)
    BY <2>1 DEF r
  <2>6. QED
    BY <2>2, <2>3, <2>4, <2>5, ContinuesAs
<1>6. CASE cleanup_serial_poll
  <2>1. ScalarsOK' /\ ChargeOfMaster'
    <3>1. timo' \in BOOLEAN
      BY <1>6, OwnTimer DEF cleanup_serial_poll
    <3>2. /\ timer' = "none" /\ atn' \in {atn, TRUE} /\ serial_poll' \in BOOLEAN
          /\ UNCHANGED <<control, usec_timeout, srq>>
      BY <1>6 DEF cleanup_serial_poll
    <3>3. QED
      BY <1>0, <3>1, <3>2 DEF ScalarsOK, ChargeOfMaster, control
  <2>2. req.ret \in Rets
    BY <1>0 DEF Requests
  <2> DEFINE good == IF timo' THEN "timedout" ELSE req.ret
             bad == IF timo' THEN "timedout" ELSE "error"
  <2>3. good \in Rets /\ bad \in Rets
    BY <2>2 DEF Rets
  <2>4. Answer(req, good) \/ Answer(req, bad)
    BY <1>6 DEF cleanup_serial_poll
  <2> HIDE DEF good, bad
  <2>5. QED
    BY <1>0, <2>1, <2>3, <2>4, EndsWith
<1>7. QED
  BY <1>1, <1>2, <1>3, <1>4, <1>5, <1>6

-----------------------------------------------------------------------------
(* The wait, and the ioctls that change the controller state. *)
LEMMA StepOther ==
  ASSUME IInv, \/ WaitRound \/ ibsic \/ take_control_ioctl \/ go_to_standby
               \/ \E b \in BOOLEAN : ibrsc(b)
               \/ \E usec \in {0, 1} : timeout_ioctl(usec)
  PROVE  IInv'
<1>0. /\ ScalarsOK /\ ChargeOfMaster /\ Good(req) /\ req \in Requests
      /\ result \in Results
  BY Parts
<1>1. ASSUME Other, ScalarsOK', ChargeOfMaster' PROVE IInv'
  <2> DEFINE n == [Idle EXCEPT !.cmd = "other"]
  <2>1. Answer(n, "ok") /\ "ok" \in Rets
    BY <1>1 DEF Other, Rets
  <2>2. Good(n)
    BY NewGood DEF Cmds
  <2> HIDE DEF n
  <2>3. QED
    BY <1>1, <2>1, <2>2, EndsWith
<1>2. CASE WaitRound
  <2>1. ScalarsOK' /\ ChargeOfMaster'
    BY <1>0, <1>2 DEF WaitRound, ScalarsOK, ChargeOfMaster, control, clock, rest
  <2>2. CASE UNCHANGED <<req, result>>
    <3>1. Good(req') /\ DataInStandby'
      BY <1>0, <1>2, <2>2 DEF WaitRound, DataInStandby
    <3>2. QED
      BY <2>1, <2>2, <3>1, GoesOn
  <2>3. CASE Answer(req, "error") \/ Answer(req, "ok")
    BY <1>0, <2>1, <2>3, EndsWith DEF Rets
  <2>4. QED
    BY <1>2, <2>2, <2>3 DEF WaitRound
<1>3. CASE ibsic
  <2>1. ScalarsOK' /\ ChargeOfMaster'
    BY <1>0, <1>3 DEF ibsic, ScalarsOK, ChargeOfMaster, clock, rest
  <2>2. QED
    BY <1>1, <1>3, <2>1 DEF ibsic
<1>4. CASE take_control_ioctl
  <2>1. ScalarsOK' /\ ChargeOfMaster'
    BY <1>0, <1>4 DEF take_control_ioctl, ActiveFails, ActiveWorks, ScalarsOK,
                      ChargeOfMaster, control, clock, rest
  <2>2. QED
    BY <1>1, <1>4, <2>1 DEF take_control_ioctl
<1>5. CASE go_to_standby
  <2>1. ScalarsOK' /\ ChargeOfMaster'
    BY <1>0, <1>5 DEF go_to_standby, ScalarsOK, ChargeOfMaster, control, clock, rest
  <2>2. QED
    BY <1>1, <1>5, <2>1 DEF go_to_standby
<1>6. ASSUME NEW b \in BOOLEAN, ibrsc(b) PROVE IInv'
  <2>1. ScalarsOK' /\ ChargeOfMaster'
    BY <1>0, <1>6 DEF ibrsc, ScalarsOK, ChargeOfMaster, clock, rest
  <2>2. QED
    BY <1>1, <1>6, <2>1 DEF ibrsc
<1>7. ASSUME NEW usec \in {0, 1}, timeout_ioctl(usec) PROVE IInv'
  <2>1. ScalarsOK' /\ ChargeOfMaster'
    BY <1>0, <1>7 DEF timeout_ioctl, ScalarsOK, ChargeOfMaster, control, clock
  <2>2. QED
    BY <1>1, <1>7, <2>1 DEF timeout_ioctl
<1>8. QED
  BY <1>2, <1>3, <1>4, <1>5, <1>6, <1>7

(* The watchdog and the devices come in between and touch neither. *)
LEMMA StepEvent ==
  ASSUME IInv, watchdog_timeout \/ ServiceRequest
  PROVE  IInv'
<1>0. /\ ScalarsOK /\ ChargeOfMaster /\ Good(req) /\ DataInStandby
  BY Parts DEF IInv
<1>1. /\ UNCHANGED <<control, atn, req, result>>
  BY DEF watchdog_timeout, ServiceRequest
<1>2. ScalarsOK'
  BY <1>0 DEF watchdog_timeout, ServiceRequest, ScalarsOK, control, rest, clock
<1>3. ChargeOfMaster' /\ Good(req') /\ DataInStandby'
  BY <1>0, <1>1 DEF ChargeOfMaster, DataInStandby, control
<1>4. QED
  BY <1>1, <1>2, <1>3, GoesOn

-----------------------------------------------------------------------------
(* The initial state is good. *)
LEMMA InitGood == Init => IInv
<1> SUFFICES ASSUME Init PROVE IInv
  OBVIOUS
<1>1. Idle \in Requests /\ NoResult \in Results
  BY DEF Idle, NoResult, Requests, Results, Cmds, Stages, Rets
<1>2. ScalarsOK
  BY DEF Init, ScalarsOK
<1>3. TypeOK
  BY <1>1, <1>2, TypeParts DEF Init
<1>4. Good(req)
  BY <1>1 DEF Init, Good, Idle
<1>5. CountsReal /\ ChargeOfMaster /\ DataInStandby
  BY BusAssumption DEF Init, Idle, NoResult, CountsReal, CommandCountReal, WriteCountOver,
         ChargeOfMaster, DataInStandby
<1>6. QED
  BY <1>3, <1>4, <1>5 DEF IInv

(* Every step of an ioctl, and every event in between, keeps it good.        *)
LEMMA NextGood == IInv /\ [Next]_vars => IInv'
<1> SUFFICES ASSUME IInv, [Next]_vars PROVE IInv'
  OBVIOUS
<1>1. ASSUME NEW n \in Counts, WriteStart(n) \/ ReadStart(n) \/ CommandStart(n)
      PROVE  IInv'
  <2>1. n \in Nat /\ RemainModulus \in Nat \ {0}
    BY BusAssumption
  <2>2. n % RemainModulus \in Nat /\ n % RemainModulus <= n
    BY <2>1, Remainder
  <2>3. {"IBWRT", "IBRD", "IBCMD"} \subseteq Cmds /\ "loop" \in Stages
    BY DEF Cmds, Stages
  <2>4. CASE WriteStart(n)
    BY <2>1, <2>3, <2>4, StepStart DEF WriteStart
  <2>5. CASE ReadStart(n)
    BY <2>1, <2>2, <2>3, <2>5, StepStart DEF ReadStart
  <2>6. CASE CommandStart(n)
    BY <2>1, <2>3, <2>6, StepStart DEF CommandStart
  <2>7. QED
    BY <1>1, <2>4, <2>5, <2>6
<1>2. CASE WaitStart
  BY <1>2, StepStart DEF WaitStart, Cmds, Stages
<1>3. CASE RppStart \/ SpollStart
  BY <1>3, StepPoll
<1>4. CASE \/ ibsic \/ take_control_ioctl \/ go_to_standby
           \/ \E b \in BOOLEAN : ibrsc(b)
           \/ \E usec \in {0, 1} : timeout_ioctl(usec)
  BY <1>4, StepOther
<1>5. CASE Request
  BY <1>1, <1>2, <1>3, <1>4, <1>5 DEF Request
<1>6. CASE Work
  BY <1>6, StepWrite, StepRead, StepCommand, StepPoll, StepOther DEF Work
<1>7. CASE UNCHANGED vars
  <2>1. Good(req') /\ ScalarsOK' /\ ChargeOfMaster' /\ DataInStandby' /\ UNCHANGED result
    BY <1>7, Parts DEF vars, ScalarsOK, ChargeOfMaster, DataInStandby, IInv
  <2>2. QED
    BY <2>1, GoesOn
<1>8. QED
  BY <1>5, <1>6, <1>7, StepEvent DEF Next

(* The inductive invariant holds in every reachable state.                   *)
THEOREM BusInvariance == Spec => []IInv
BY InitGood, NextGood, PTL DEF Spec

(* The bus operations are well typed: for any buffer and any counts no       *)
(* counter of a transfer that goes on is negative (a stale bytes_written     *)
(* can make remain so only in the step that ends the write).                 *)
THEOREM BusTypeCorrect == Spec => []TypeOK
<1>1. IInv => TypeOK
  BY DEF IInv
<1>2. QED
  BY <1>1, BusInvariance, PTL

(* Data never move while a controller in charge drives ATN (ibrd, ibwrt and  *)
(* ibgts), whatever ibsic, ibrsc and failing register writes came before.    *)
THEOREM StandbyForData == Spec => []DataInStandby
<1>1. IInv => DataInStandby
  BY DEF IInv
<1>2. QED
  BY <1>1, BusInvariance, PTL

(* command_ioctl never reports more bytes than the bus has carried.          *)
THEOREM CommandCounts == Spec => []CommandCountReal
<1>1. IInv => CommandCountReal
  BY DEF IInv, CountsReal
<1>2. QED
  BY <1>1, BusInvariance, PTL

(* write_ioctl may count its last piece twice, when ibgts fails after it;    *)
(* what it reports too much is never more than that piece, nor than what it  *)
(* has sent.                                                                 *)
THEOREM WriteCounts == Spec => []WriteCountOver
<1>1. IInv => WriteCountOver
  BY DEF IInv, CountsReal
<1>2. QED
  BY <1>1, BusInvariance, PTL

-----------------------------------------------------------------------------
(* The count of a read.  "remain" is 16 bits wide: the count is right as     *)
(* long as no caller asks for more than that holds.                          *)
NarrowCounts == \A n \in Counts : n < RemainModulus

(* What a read in progress has taken off its count, and not yet taken off in *)
(* the piece it is at, is what has moved.                                    *)
ReadCounted(r) ==
  r.cmd = "IBRD" =>
    /\ r.stage \in {"loop", "driver"}
    /\ r.moved = r.requested - r.remain + (IF r.stage = "driver" THEN r.nbytes ELSE 0)

RInv == IInv /\ ReadCounted(req) /\ ReadCountReal

(* The answer to a read that is not in the driver is right.                  *)
LEMMA ReadAnswer ==
  ASSUME NEW r, NEW ret, ReadCounted(r), r.stage # "driver",
         r.requested - r.remain \in Nat, Answer(r, ret)
  PROVE  ReadCounted(req') /\ ReadCountReal'
<1>1. req' = Idle /\ Idle.cmd = "none"
  BY DEF Answer, Idle
<1>2. /\ result'.cmd = r.cmd /\ result'.moved = r.moved
      /\ result'.completed = r.requested - r.remain
  BY DEF Answer
<1>3. r.cmd = "IBRD" => r.moved = r.requested - r.remain
  BY DEF ReadCounted
<1>4. QED
  BY <1>1, <1>2, <1>3 DEF ReadCounted, ReadCountReal

(* The steps of read_ioctl. *)
LEMMA StepReadCount ==
  ASSUME RInv, ReadStandbyFails \/ ReadBegins \/ ReadDriver \/ ReadEnds
  PROVE  ReadCounted(req') /\ ReadCountReal'
<1>0. /\ Good(req) /\ req \in Requests /\ ReadCounted(req) /\ ReadCountReal
      /\ req.requested - req.remain \in Nat /\ req.cmd = "IBRD"
      /\ req.requested \in Nat /\ req.remain \in Nat /\ req.moved \in Nat
      /\ req.nbytes \in Nat
  <2>1. Good(req) /\ req \in Requests /\ ReadCounted(req) /\ ReadCountReal
    BY Parts DEF RInv
  <2>2. req.cmd = "IBRD"
    BY DEF ReadStandbyFails, ReadBegins, ReadDriver, ReadEnds
  <2>3. /\ req.requested \in Nat /\ req.remain \in Nat /\ req.moved \in Nat
        /\ req.nbytes \in Nat
    BY <2>1 DEF Requests
  <2>4. req.remain <= req.requested
    BY <2>1 DEF Good
  <2>5. QED
    BY <2>1, <2>2, <2>3, <2>4
<1>1. CASE ReadStandbyFails
  <2> DEFINE r == [req EXCEPT !.ret = "error"]
  <2>1. /\ r.cmd = req.cmd /\ r.requested = req.requested /\ r.remain = req.remain
        /\ r.moved = req.moved /\ r.stage = "loop"
    BY <1>0, <1>1 DEF Requests, ReadStandbyFails
  <2>2. EndOfRead(r)
    BY <1>1 DEF ReadStandbyFails
  <2> HIDE DEF r
  <2>3. ReadCounted(r)
    BY <1>0, <1>1, <2>1 DEF ReadCounted, ReadStandbyFails
  <2>4. QED
    BY <1>0, <2>1, <2>2, <2>3, ReadAnswer DEF EndOfRead
<1>2. CASE ReadBegins
  <2>1. req' = [req EXCEPT !.stage = "driver", !.nbytes = 0] /\ UNCHANGED result
    BY <1>2 DEF ReadBegins, Continue
  <2>2. /\ req'.requested = req.requested /\ req'.remain = req.remain
        /\ req'.moved = req.moved /\ req'.nbytes = 0 /\ req'.stage = "driver"
    BY <1>0, <2>1 DEF Requests
  <2>3. req.stage = "loop"
    BY <1>2 DEF ReadBegins
  <2>4. ReadCounted(req')
    BY <1>0, <2>2, <2>3 DEF ReadCounted
  <2>5. QED
    BY <1>0, <2>1, <2>4 DEF ReadCountReal
<1>3. CASE ReadDriver
  <2>1. PICK m \in 0 .. Chunk - req.nbytes, e \in BOOLEAN, ret \in {"ok", "error"} :
          LET got == req.nbytes + m
              r == [req EXCEPT !.nbytes = got, !.moved = @ + m, !.end = e, !.ret = ret]
              out == [r EXCEPT !.stage = "loop", !.remain = @ - got]
          IN  IF ret = "ok" /\ got > 0 /\ got < Chunk /\ ~e
              THEN Continue(r) /\ UNCHANGED clock
              ELSE /\ IF got = 0 \/ ret = "error" THEN EndOfRead(out) ELSE Continue(out)
                   /\ osRemoveTimer
    BY <1>3 DEF ReadDriver
  <2> DEFINE got == req.nbytes + m
             r == [req EXCEPT !.nbytes = got, !.moved = @ + m, !.end = e, !.ret = ret]
             out == [r EXCEPT !.stage = "loop", !.remain = @ - got]
  <2>2. req.stage = "driver" /\ req.moved = req.requested - req.remain + req.nbytes
    BY <1>0, <1>3 DEF ReadDriver, ReadCounted
  <2>3. m \in Nat /\ got <= req.remain
    <3>1. Chunk \in Nat /\ Chunk <= req.remain
      BY <1>0, ChunkBound
    <3>2. m \in Int /\ 0 <= m /\ m <= Chunk - req.nbytes
      BY <1>0, <3>1
    <3>3. QED
      BY <1>0, <3>1, <3>2
  <2>4. /\ r.cmd = "IBRD" /\ r.requested = req.requested /\ r.remain = req.remain
        /\ r.stage = "driver" /\ r.nbytes = got /\ r.moved = req.moved + m
    BY <1>0, <2>2 DEF Requests
  <2>5. /\ out.cmd = "IBRD" /\ out.requested = req.requested
        /\ out.remain = req.remain - got /\ out.stage = "loop"
        /\ out.moved = req.moved + m
    BY <1>0, <2>2 DEF Requests
  <2>6. Continue(r) \/ EndOfRead(out) \/ Continue(out)
    BY <2>1
  <2> HIDE DEF r, out
  <2>7. ReadCounted(r) /\ ReadCounted(out) /\ out.requested - out.remain \in Nat
    BY <1>0, <2>2, <2>3, <2>4, <2>5 DEF ReadCounted
  <2>8. CASE EndOfRead(out)
    BY <2>5, <2>7, <2>8, ReadAnswer DEF EndOfRead
  <2>9. CASE Continue(r) \/ Continue(out)
    BY <1>0, <2>7, <2>9 DEF Continue, ReadCountReal
  <2>10. QED
    BY <2>6, <2>8, <2>9
<1>4. CASE ReadEnds
  <2>1. EndOfRead(req) /\ req.stage = "loop"
    BY <1>4 DEF ReadEnds
  <2>2. QED
    BY <1>0, <2>1, ReadAnswer DEF EndOfRead
<1>5. QED
  BY <1>1, <1>2, <1>3, <1>4

(* A step that answers or continues a request which is not a read.           *)
LEMMA OtherRequest ==
  ASSUME RInv, NEW r, NEW ret, r.cmd # "IBRD", Answer(r, ret) \/ Continue(r)
  PROVE  ReadCounted(req') /\ ReadCountReal'
<1>1. Idle.cmd = "none"
  BY DEF Idle
<1>2. CASE Answer(r, ret)
  BY <1>1, <1>2 DEF Answer, ReadCounted, ReadCountReal
<1>3. CASE Continue(r)
  BY <1>3 DEF Continue, RInv, ReadCounted, ReadCountReal
<1>4. QED
  BY <1>2, <1>3

(* Writes, commands and their steps leave the count of a read alone.         *)
LEMMA OtherTransfers ==
  ASSUME RInv,
         \/ WriteStandbyFails \/ WriteBegins \/ WriteDriver \/ WriteEnds
         \/ CommandNotInCharge \/ CommandBegins \/ CommandActiveFails \/ CommandDriver
  PROVE  ReadCounted(req') /\ ReadCountReal'
<1>0. req \in Requests /\ req.cmd \in {"IBWRT", "IBCMD"}
  BY Parts DEF RInv, WriteStandbyFails, WriteBegins, WriteDriver, WriteEnds,
         CommandNotInCharge, CommandBegins, CommandActiveFails, CommandDriver
<1>1. CASE WriteStandbyFails
  <2> DEFINE r == [req EXCEPT !.remain = @ - req.bytes_written, !.ret = "error"]
  <2>1. r.cmd # "IBRD"
    BY <1>0 DEF Requests
  <2>2. EndOfWrite(r)
    BY <1>1 DEF WriteStandbyFails
  <2> HIDE DEF r
  <2>3. QED
    BY <2>1, <2>2, OtherRequest DEF EndOfWrite
<1>2. CASE WriteBegins \/ CommandBegins
  <2> DEFINE r == [req EXCEPT !.stage = "driver"]
  <2>1. r.cmd # "IBRD"
    BY <1>0 DEF Requests
  <2>2. Continue(r)
    BY <1>2 DEF WriteBegins, CommandBegins
  <2> HIDE DEF r
  <2>3. QED
    BY <2>1, <2>2, OtherRequest
<1>3. CASE WriteDriver
  <2>0. PICK m \in 0 .. Chunk, fails \in BOOLEAN : \E k \in 0 .. m :
          LET ret == IF timo THEN "timedout" ELSE IF fails THEN "error" ELSE "ok"
              r == [req EXCEPT !.stage = "loop", !.remain = @ - k,
                               !.bytes_written = k, !.moved = @ + m, !.ret = ret]
          IN  /\ fails => k = 0
              /\ IF ret # "ok" \/ k = 0 THEN EndOfWrite(r) ELSE Continue(r)
    BY <1>3 DEF WriteDriver
  <2>1. PICK k \in 0 .. m :
          LET ret == IF timo THEN "timedout" ELSE IF fails THEN "error" ELSE "ok"
              r == [req EXCEPT !.stage = "loop", !.remain = @ - k,
                               !.bytes_written = k, !.moved = @ + m, !.ret = ret]
          IN  /\ fails => k = 0
              /\ IF ret # "ok" \/ k = 0 THEN EndOfWrite(r) ELSE Continue(r)
    BY <2>0
  <2> DEFINE ret == IF timo THEN "timedout" ELSE IF fails THEN "error" ELSE "ok"
             r == [req EXCEPT !.stage = "loop", !.remain = @ - k,
                              !.bytes_written = k, !.moved = @ + m, !.ret = ret]
  <2>2. EndOfWrite(r) \/ Continue(r)
    BY <2>1
  <2> HIDE DEF ret
  <2>3. r.cmd # "IBRD"
    BY <1>0 DEF Requests
  <2> HIDE DEF r
  <2>4. QED
    BY <2>2, <2>3, OtherRequest DEF EndOfWrite
<1>4. CASE CommandDriver
  <2>0. PICK m \in 0 .. Chunk, fails \in BOOLEAN : \E k \in 0 .. m :
          LET ret == IF timo THEN "timedout" ELSE IF fails THEN "error" ELSE "ok"
              r == [req EXCEPT !.stage = "loop", !.remain = @ - k, !.moved = @ + m,
                               !.ret = ret]
          IN  /\ fails => k = 0
              /\ IF ret # "ok" \/ k = 0 \/ r.remain = 0
                 THEN Answer(r, ret) ELSE Continue(r)
    BY <1>4 DEF CommandDriver
  <2>1. PICK k \in 0 .. m :
          LET ret == IF timo THEN "timedout" ELSE IF fails THEN "error" ELSE "ok"
              r == [req EXCEPT !.stage = "loop", !.remain = @ - k, !.moved = @ + m,
                               !.ret = ret]
          IN  /\ fails => k = 0
              /\ IF ret # "ok" \/ k = 0 \/ r.remain = 0
                 THEN Answer(r, ret) ELSE Continue(r)
    BY <2>0
  <2> DEFINE ret == IF timo THEN "timedout" ELSE IF fails THEN "error" ELSE "ok"
             r == [req EXCEPT !.stage = "loop", !.remain = @ - k, !.moved = @ + m,
                              !.ret = ret]
  <2>2. Answer(r, ret) \/ Continue(r)
    BY <2>1
  <2> HIDE DEF ret
  <2>3. r.cmd # "IBRD"
    BY <1>0 DEF Requests
  <2> HIDE DEF r
  <2>4. QED
    BY <2>2, <2>3, OtherRequest
<1>5. CASE WriteEnds
  BY <1>0, <1>5, OtherRequest DEF WriteEnds, EndOfWrite
<1>6. CASE CommandNotInCharge
  BY <1>0, <1>6, OtherRequest DEF CommandNotInCharge
<1>7. CASE CommandActiveFails
  BY <1>0, <1>7, OtherRequest DEF CommandActiveFails
<1>8. QED
  BY <1>1, <1>2, <1>3, <1>4, <1>5, <1>6, <1>7

(* So do the polls, the wait and the ioctls of the controller state.         *)
LEMMA OtherIoctls ==
  ASSUME RInv,
         \/ RppStart \/ RppDriver \/ SpollStart \/ WaitStart \/ WaitRound
         \/ setup_serial_poll \/ read_serial_poll_byte \/ cleanup_serial_poll
         \/ Other
  PROVE  ReadCounted(req') /\ ReadCountReal'
<1>0. /\ req \in Requests /\ ReadCounted(req) /\ ReadCountReal
      /\ req.stage \in {"setup", "talk", "cleanup", "waiting"} => req.cmd # "IBRD"
  BY Parts DEF RInv, ReadCounted
<1>1. CASE RppStart
  <2>1. /\ [Idle EXCEPT !.cmd = "IBRPP"].cmd # "IBRD"
        /\ [Idle EXCEPT !.cmd = "IBRPP", !.stage = "driver"].cmd # "IBRD"
    BY DEF Idle
  <2>2. \/ Answer([Idle EXCEPT !.cmd = "IBRPP"], "error")
        \/ Continue([Idle EXCEPT !.cmd = "IBRPP", !.stage = "driver"])
    BY <1>1 DEF RppStart
  <2>3. QED
    BY <2>1, <2>2, OtherRequest
<1>2. CASE SpollStart
  <2>1. /\ [Idle EXCEPT !.cmd = "IBRSP"].cmd # "IBRD"
        /\ [Idle EXCEPT !.cmd = "IBRSP", !.stage = "setup"].cmd # "IBRD"
    BY DEF Idle
  <2>2. \/ Answer([Idle EXCEPT !.cmd = "IBRSP"], "error")
        \/ Continue([Idle EXCEPT !.cmd = "IBRSP", !.stage = "setup"])
    BY <1>2 DEF SpollStart
  <2>3. QED
    BY <2>1, <2>2, OtherRequest
<1>3. CASE WaitStart
  <2> DEFINE r == [Idle EXCEPT !.cmd = "IBWAIT", !.stage = "waiting", !.requested = 0,
                               !.remain = 0]
  <2>1. r.cmd # "IBRD"
    BY DEF Idle
  <2>2. Continue(r)
    BY <1>3 DEF WaitStart, Start
  <2> HIDE DEF r
  <2>3. QED
    BY <2>1, <2>2, OtherRequest
<1>4. CASE RppDriver
  BY <1>4, OtherRequest DEF RppDriver
<1>5. CASE WaitRound
  <2>1. req.cmd # "IBRD"
    BY <1>0, <1>5 DEF WaitRound
  <2>2. UNCHANGED <<req, result>> \/ \E ret : Answer(req, ret)
    BY <1>5 DEF WaitRound
  <2>3. QED
    BY <1>0, <2>1, <2>2, OtherRequest DEF ReadCountReal
<1>6. CASE setup_serial_poll
  <2> DEFINE r == [req EXCEPT !.stage = "talk"]
  <2>1. req.cmd # "IBRD" /\ r.cmd # "IBRD"
    BY <1>0, <1>6 DEF setup_serial_poll, Requests
  <2>2. Continue(r) \/ SpollAnswer("error")
    BY <1>6 DEF setup_serial_poll
  <2> HIDE DEF r
  <2>3. QED
    BY <2>1, <2>2, OtherRequest DEF SpollAnswer
<1>7. CASE read_serial_poll_byte
  <2>1. PICK ret \in {"ok", "error"} : Continue([req EXCEPT !.stage = "cleanup", !.ret = ret])
    BY <1>7 DEF read_serial_poll_byte
  <2> DEFINE r == [req EXCEPT !.stage = "cleanup", !.ret = ret]
  <2>2. r.cmd # "IBRD"
    BY <1>0, <1>7 DEF read_serial_poll_byte, Requests
  <2>3. QED
    BY <2>1, <2>2, OtherRequest
<1>8. CASE cleanup_serial_poll
  <2>1. req.cmd # "IBRD"
    BY <1>0, <1>8 DEF cleanup_serial_poll
  <2>2. \E ret : Answer(req, ret)
    BY <1>8 DEF cleanup_serial_poll
  <2>3. QED
    BY <2>1, <2>2, OtherRequest
<1>9. CASE Other
  <2>1. [Idle EXCEPT !.cmd = "other"].cmd # "IBRD"
    BY DEF Idle
  <2>2. QED
    BY <1>9, <2>1, OtherRequest DEF Other
<1>10. QED
  BY <1>1, <1>2, <1>3, <1>4, <1>5, <1>6, <1>7, <1>8, <1>9

(* Starting a transfer: what is left is all of it, if it fits.               *)
LEMMA StartCounted ==
  ASSUME RInv, NEW c, NEW s, s # "driver", NEW n \in Nat, Start(c, s, n, n),
         c = "IBRD" => s = "loop"
  PROVE  ReadCounted(req') /\ ReadCountReal'
<1> DEFINE r == [Idle EXCEPT !.cmd = c, !.stage = s, !.requested = n, !.remain = n]
<1>1. r.cmd = c /\ r.stage = s /\ r.requested = n /\ r.remain = n /\ r.moved = 0
  BY DEF Idle
<1>2. req' = r /\ UNCHANGED result
  BY DEF Start, Continue
<1> HIDE DEF r
<1>3. ReadCounted(r)
  BY <1>1 DEF ReadCounted
<1>4. QED
  BY <1>2, <1>3 DEF RInv, ReadCountReal

(* Every step of the driver keeps the count of a read exact.                 *)
LEMMA NextCounted ==
  ASSUME NarrowCounts, RInv, [Next]_vars
  PROVE  RInv'
<1>1. IInv'
  BY NextGood DEF RInv
<1>2. ASSUME NEW n \in Counts, WriteStart(n) \/ ReadStart(n) \/ CommandStart(n)
      PROVE  ReadCounted(req') /\ ReadCountReal'
  <2>1. n \in Nat /\ RemainModulus \in Nat \ {0} /\ n < RemainModulus
    BY BusAssumption DEF NarrowCounts
  <2>2. n % RemainModulus = n
    BY <2>1, Remainder
  <2>3. \E c : Start(c, "loop", n, n)
    BY <1>2, <2>2 DEF WriteStart, ReadStart, CommandStart
  <2>4. QED
    BY <2>1, <2>3, StartCounted
<1>3. ASSUME Request PROVE ReadCounted(req') /\ ReadCountReal'
  BY <1>2, <1>3, OtherIoctls
     DEF Request, ibsic, take_control_ioctl, go_to_standby, ibrsc, timeout_ioctl
<1>4. ASSUME Work PROVE ReadCounted(req') /\ ReadCountReal'
  BY <1>4, OtherTransfers, OtherIoctls, StepReadCount DEF Work
<1>5. ASSUME watchdog_timeout \/ ServiceRequest \/ UNCHANGED vars
      PROVE  ReadCounted(req') /\ ReadCountReal'
  <2>1. UNCHANGED <<req, result>>
    BY <1>5 DEF watchdog_timeout, ServiceRequest, vars
  <2>2. QED
    BY <2>1 DEF RInv, ReadCountReal
<1>6. ReadCounted(req') /\ ReadCountReal'
  BY <1>3, <1>4, <1>5 DEF Next
<1>7. QED
  BY <1>1, <1>6 DEF RInv

(* read_ioctl reports exactly the bytes the bus delivered, for any buffer    *)
(* and any requests that fit in its 16-bit "remain".                         *)
THEOREM ReadCounts == ASSUME NarrowCounts PROVE Spec => []ReadCountReal
<1>1. Init => RInv
  BY InitGood DEF RInv, Init, Idle, NoResult, ReadCounted, ReadCountReal
<1>2. RInv /\ [Next]_vars => RInv'
  BY NextCounted
<1>3. RInv => ReadCountReal
  BY DEF RInv
<1>4. QED
  BY <1>1, <1>2, <1>3, PTL DEF Spec

-----------------------------------------------------------------------------
(* What a serial poll leaves.  Only a wait is ever "waiting", so its answer  *)
(* is not taken for that of a poll.                                          *)
WaitIsNoPoll == req.stage = "waiting" => req.cmd # "IBRSP"

PInv == IInv /\ WaitIsNoPoll /\ PollLeavesNoTrace

(* An answer that is not that of a successful poll, or that finds serial     *)
(* poll mode off.                                                            *)
LEMMA PollAnswer ==
  ASSUME NEW r, NEW ret, Answer(r, ret),
         r.cmd # "IBRSP" \/ ret # "ok" \/ ~serial_poll'
  PROVE  WaitIsNoPoll' /\ PollLeavesNoTrace'
<1>1. Idle.stage = "idle"
  BY DEF Idle
<1>2. req' = Idle /\ result'.cmd = r.cmd /\ result'.ret = ret
  BY DEF Answer
<1>3. QED
  BY <1>1, <1>2 DEF WaitIsNoPoll, PollLeavesNoTrace

(* A request that goes on has nothing to show yet.                           *)
LEMMA PollGoesOn ==
  ASSUME NEW r, Continue(r), r.stage # "idle", r.stage = "waiting" => r.cmd # "IBRSP"
  PROVE  WaitIsNoPoll' /\ PollLeavesNoTrace'
  BY DEF Continue, WaitIsNoPoll, PollLeavesNoTrace

(* A step of an ioctl that is no poll: it answers as itself or goes on.      *)
LEMMA NoPoll ==
  ASSUME NEW r, NEW ret, r.cmd # "IBRSP", Answer(r, ret) \/ (Continue(r) /\ r.stage # "idle")
  PROVE  WaitIsNoPoll' /\ PollLeavesNoTrace'
  BY PollAnswer, PollGoesOn

(* The steps of the transfers. *)
LEMMA PollTransfers ==
  ASSUME PInv,
         \/ WriteStandbyFails \/ WriteBegins \/ WriteDriver \/ WriteEnds
         \/ ReadStandbyFails \/ ReadBegins \/ ReadDriver \/ ReadEnds
         \/ CommandNotInCharge \/ CommandBegins \/ CommandActiveFails \/ CommandDriver
  PROVE  WaitIsNoPoll' /\ PollLeavesNoTrace'
<1>0. req \in Requests /\ req.cmd \in {"IBWRT", "IBCMD", "IBRD"}
  BY Parts DEF PInv, WriteStandbyFails, WriteBegins, WriteDriver, WriteEnds,
         ReadStandbyFails, ReadBegins, ReadDriver, ReadEnds,
         CommandNotInCharge, CommandBegins, CommandActiveFails, CommandDriver
<1>1. CASE WriteStandbyFails
  <2> DEFINE r == [req EXCEPT !.remain = @ - req.bytes_written, !.ret = "error"]
  <2>1. r.cmd # "IBRSP"
    BY <1>0 DEF Requests
  <2>2. EndOfWrite(r)
    BY <1>1 DEF WriteStandbyFails
  <2> HIDE DEF r
  <2>3. \E ret : Answer(r, ret)
    BY <2>2 DEF EndOfWrite
  <2>4. QED
    BY <2>1, <2>3, PollAnswer
<1>2. CASE WriteBegins \/ CommandBegins
  <2> DEFINE r == [req EXCEPT !.stage = "driver"]
  <2>1. r.cmd # "IBRSP" /\ r.stage # "idle"
    BY <1>0 DEF Requests
  <2>2. Continue(r)
    BY <1>2 DEF WriteBegins, CommandBegins
  <2> HIDE DEF r
  <2>3. QED
    BY <2>1, <2>2, NoPoll
<1>3. CASE WriteDriver
  <2>0. PICK m \in 0 .. Chunk, fails \in BOOLEAN : \E k \in 0 .. m :
          LET ret == IF timo THEN "timedout" ELSE IF fails THEN "error" ELSE "ok"
              r == [req EXCEPT !.stage = "loop", !.remain = @ - k,
                               !.bytes_written = k, !.moved = @ + m, !.ret = ret]
          IN  /\ fails => k = 0
              /\ IF ret # "ok" \/ k = 0 THEN EndOfWrite(r) ELSE Continue(r)
    BY <1>3 DEF WriteDriver
  <2>1. PICK k \in 0 .. m :
          LET ret == IF timo THEN "timedout" ELSE IF fails THEN "error" ELSE "ok"
              r == [req EXCEPT !.stage = "loop", !.remain = @ - k,
                               !.bytes_written = k, !.moved = @ + m, !.ret = ret]
          IN  /\ fails => k = 0
              /\ IF ret # "ok" \/ k = 0 THEN EndOfWrite(r) ELSE Continue(r)
    BY <2>0
  <2> DEFINE ret == IF timo THEN "timedout" ELSE IF fails THEN "error" ELSE "ok"
             r == [req EXCEPT !.stage = "loop", !.remain = @ - k,
                              !.bytes_written = k, !.moved = @ + m, !.ret = ret]
  <2>2. EndOfWrite(r) \/ Continue(r)
    BY <2>1
  <2> HIDE DEF ret
  <2>3. r.cmd # "IBRSP" /\ r.stage # "idle"
    BY <1>0 DEF Requests
  <2> HIDE DEF r
  <2>4. QED
    BY <2>2, <2>3, NoPoll DEF EndOfWrite
<1>4. CASE CommandDriver
  <2>0. PICK m \in 0 .. Chunk, fails \in BOOLEAN : \E k \in 0 .. m :
          LET ret == IF timo THEN "timedout" ELSE IF fails THEN "error" ELSE "ok"
              r == [req EXCEPT !.stage = "loop", !.remain = @ - k, !.moved = @ + m,
                               !.ret = ret]
          IN  /\ fails => k = 0
              /\ IF ret # "ok" \/ k = 0 \/ r.remain = 0
                 THEN Answer(r, ret) ELSE Continue(r)
    BY <1>4 DEF CommandDriver
  <2>1. PICK k \in 0 .. m :
          LET ret == IF timo THEN "timedout" ELSE IF fails THEN "error" ELSE "ok"
              r == [req EXCEPT !.stage = "loop", !.remain = @ - k, !.moved = @ + m,
                               !.ret = ret]
          IN  /\ fails => k = 0
              /\ IF ret # "ok" \/ k = 0 \/ r.remain = 0
                 THEN Answer(r, ret) ELSE Continue(r)
    BY <2>0
  <2> DEFINE ret == IF timo THEN "timedout" ELSE IF fails THEN "error" ELSE "ok"
             r == [req EXCEPT !.stage = "loop", !.remain = @ - k, !.moved = @ + m,
                              !.ret = ret]
  <2>2. Answer(r, ret) \/ Continue(r)
    BY <2>1
  <2> HIDE DEF ret
  <2>3. r.cmd # "IBRSP" /\ r.stage # "idle"
    BY <1>0 DEF Requests
  <2> HIDE DEF r
  <2>4. QED
    BY <2>2, <2>3, NoPoll
<1>5. CASE ReadStandbyFails
  <2> DEFINE r == [req EXCEPT !.ret = "error"]
  <2>1. r.cmd # "IBRSP"
    BY <1>0 DEF Requests
  <2>2. EndOfRead(r)
    BY <1>5 DEF ReadStandbyFails
  <2> HIDE DEF r
  <2>3. \E ret : Answer(r, ret)
    BY <2>2 DEF EndOfRead
  <2>4. QED
    BY <2>1, <2>3, PollAnswer
<1>6. CASE ReadBegins
  <2> DEFINE r == [req EXCEPT !.stage = "driver", !.nbytes = 0]
  <2>1. r.cmd # "IBRSP" /\ r.stage # "idle"
    BY <1>0 DEF Requests
  <2>2. Continue(r)
    BY <1>6 DEF ReadBegins
  <2> HIDE DEF r
  <2>3. QED
    BY <2>1, <2>2, NoPoll
<1>7. CASE ReadDriver
  <2>1. PICK m \in 0 .. Chunk - req.nbytes, e \in BOOLEAN, ret \in {"ok", "error"} :
          LET got == req.nbytes + m
              r == [req EXCEPT !.nbytes = got, !.moved = @ + m, !.end = e, !.ret = ret]
              out == [r EXCEPT !.stage = "loop", !.remain = @ - got]
          IN  IF ret = "ok" /\ got > 0 /\ got < Chunk /\ ~e
              THEN Continue(r) /\ UNCHANGED clock
              ELSE /\ IF got = 0 \/ ret = "error" THEN EndOfRead(out) ELSE Continue(out)
                   /\ osRemoveTimer
    BY <1>7 DEF ReadDriver
  <2> DEFINE got == req.nbytes + m
             r == [req EXCEPT !.nbytes = got, !.moved = @ + m, !.end = e, !.ret = ret]
             out == [r EXCEPT !.stage = "loop", !.remain = @ - got]
  <2>2. Continue(r) \/ EndOfRead(out) \/ Continue(out)
    BY <2>1
  <2> HIDE DEF got
  <2>3. /\ r.cmd # "IBRSP" /\ r.stage # "idle"
        /\ out.cmd # "IBRSP" /\ out.stage # "idle"
    BY <1>0, <1>7 DEF Requests, ReadDriver
  <2> HIDE DEF r, out
  <2>4. QED
    BY <2>2, <2>3, NoPoll DEF EndOfRead
<1>8. CASE WriteEnds
  BY <1>0, <1>8, NoPoll DEF WriteEnds, EndOfWrite
<1>9. CASE ReadEnds
  BY <1>0, <1>9, NoPoll DEF ReadEnds, EndOfRead
<1>10. CASE CommandNotInCharge
  BY <1>0, <1>10, NoPoll DEF CommandNotInCharge
<1>11. CASE CommandActiveFails
  BY <1>0, <1>11, NoPoll DEF CommandActiveFails
<1>12. QED
  BY <1>1, <1>2, <1>3, <1>4, <1>5, <1>6, <1>7, <1>8, <1>9, <1>10, <1>11

(* The serial poll itself: after SPE it is answered as a success only when   *)
(* cleanup_serial_poll has sent SPD.                                         *)
LEMMA PollSteps ==
  ASSUME PInv,
         SpollStart \/ setup_serial_poll \/ read_serial_poll_byte \/ cleanup_serial_poll
  PROVE  WaitIsNoPoll' /\ PollLeavesNoTrace'
<1>0. req \in Requests
  BY Parts DEF PInv
<1>1. CASE SpollStart
  <2>1. [Idle EXCEPT !.cmd = "IBRSP", !.stage = "setup"].stage = "setup"
    BY DEF Idle
  <2>2. \/ Answer([Idle EXCEPT !.cmd = "IBRSP"], "error")
        \/ Continue([Idle EXCEPT !.cmd = "IBRSP", !.stage = "setup"])
    BY <1>1 DEF SpollStart
  <2>3. QED
    BY <2>1, <2>2, PollAnswer, PollGoesOn
<1>2. CASE setup_serial_poll
  <2>1. [req EXCEPT !.stage = "talk"].stage = "talk"
    BY <1>0 DEF Requests
  <2>2. Continue([req EXCEPT !.stage = "talk"]) \/ SpollAnswer("error")
    BY <1>2 DEF setup_serial_poll
  <2>3. CASE SpollAnswer("error")
    BY <2>3, PollAnswer DEF SpollAnswer
  <2>4. QED
    BY <2>1, <2>2, <2>3, PollGoesOn
<1>3. CASE read_serial_poll_byte
  <2>1. PICK ret \in {"ok", "error"} : Continue([req EXCEPT !.stage = "cleanup", !.ret = ret])
    BY <1>3 DEF read_serial_poll_byte
  <2>2. [req EXCEPT !.stage = "cleanup", !.ret = ret].stage = "cleanup"
    BY <1>0 DEF Requests
  <2>3. QED
    BY <2>1, <2>2, PollGoesOn
<1>4. CASE cleanup_serial_poll
  <2>1. \/ serial_poll' = FALSE /\ \E ret : Answer(req, ret)
        \/ \E ret : Answer(req, ret) /\ ret # "ok"
    <3>1. CASE serial_poll' = FALSE /\ Answer(req, IF timo' THEN "timedout" ELSE req.ret)
      BY <3>1
    <3>2. CASE Answer(req, IF timo' THEN "timedout" ELSE "error")
      <4>1. (IF timo' THEN "timedout" ELSE "error") # "ok"
        OBVIOUS
      <4>2. QED
        BY <3>2, <4>1
    <3>3. QED
      BY <1>4, <3>1, <3>2 DEF cleanup_serial_poll
  <2>2. QED
    BY <2>1, PollAnswer
<1>5. QED
  BY <1>1, <1>2, <1>3, <1>4

(* The other ioctls answer as themselves. *)
LEMMA PollOthers ==
  ASSUME PInv,
         \/ \E c, n, m : c # "IBRSP" /\ Start(c, "loop", n, m)
         \/ RppStart \/ RppDriver \/ WaitStart \/ WaitRound \/ Other
  PROVE  WaitIsNoPoll' /\ PollLeavesNoTrace'
<1>1. ASSUME NEW c, NEW s, NEW n, NEW m, c # "IBRSP", s # "idle", Start(c, s, n, m)
      PROVE  WaitIsNoPoll' /\ PollLeavesNoTrace'
  <2> DEFINE r == [Idle EXCEPT !.cmd = c, !.stage = s, !.requested = n, !.remain = m]
  <2>1. r.cmd = c /\ r.stage = s
    BY DEF Idle
  <2>2. Continue(r)
    BY <1>1 DEF Start
  <2> HIDE DEF r
  <2>3. QED
    BY <1>1, <2>1, <2>2, NoPoll
<1>2. CASE RppStart
  <2>1. /\ [Idle EXCEPT !.cmd = "IBRPP"].cmd = "IBRPP"
        /\ [Idle EXCEPT !.cmd = "IBRPP", !.stage = "driver"].cmd = "IBRPP"
        /\ [Idle EXCEPT !.cmd = "IBRPP", !.stage = "driver"].stage = "driver"
    BY DEF Idle
  <2>2. \/ Answer([Idle EXCEPT !.cmd = "IBRPP"], "error")
        \/ Continue([Idle EXCEPT !.cmd = "IBRPP", !.stage = "driver"])
    BY <1>2 DEF RppStart
  <2>3. QED
    BY <2>1, <2>2, PollAnswer, PollGoesOn
<1>3. CASE RppDriver
  BY <1>3, NoPoll DEF RppDriver
<1>4. CASE WaitStart
  BY <1>4, <1>1 DEF WaitStart
<1>5. CASE WaitRound
  <2>1. \/ UNCHANGED <<req, result, serial_poll>>
        \/ \E ret : Answer(req, ret)
    BY <1>5 DEF WaitRound, rest
  <2>2. req.cmd # "IBRSP"
    BY <1>5 DEF WaitRound, PInv, WaitIsNoPoll
  <2>3. QED
    BY <2>1, <2>2, PollAnswer DEF PInv, WaitIsNoPoll, PollLeavesNoTrace
<1>6. CASE Other
  <2>1. [Idle EXCEPT !.cmd = "other"].cmd = "other"
    BY DEF Idle
  <2>2. QED
    BY <1>6, <2>1, PollAnswer DEF Other
<1>7. QED
  BY <1>1, <1>2, <1>3, <1>4, <1>5, <1>6

(* Every step keeps what a successful poll promises. *)
LEMMA NextPolled ==
  ASSUME PInv, [Next]_vars
  PROVE  PInv'
<1>1. IInv'
  BY NextGood DEF PInv
<1>2. ASSUME Request PROVE WaitIsNoPoll' /\ PollLeavesNoTrace'
  <2>1. ASSUME NEW n \in Counts, WriteStart(n) \/ ReadStart(n) \/ CommandStart(n)
        PROVE  \E c, k, m : c # "IBRSP" /\ Start(c, "loop", k, m)
    BY <2>1 DEF WriteStart, ReadStart, CommandStart
  <2>2. QED
    BY <1>2, <2>1, PollOthers, PollSteps
       DEF Request, ibsic, take_control_ioctl, go_to_standby, ibrsc, timeout_ioctl
<1>3. ASSUME Work PROVE WaitIsNoPoll' /\ PollLeavesNoTrace'
  BY <1>3, PollTransfers, PollSteps, PollOthers DEF Work
<1>4. ASSUME watchdog_timeout \/ ServiceRequest \/ UNCHANGED vars
      PROVE  WaitIsNoPoll' /\ PollLeavesNoTrace'
  <2>1. UNCHANGED <<req, result, serial_poll>>
    BY <1>4 DEF watchdog_timeout, ServiceRequest, vars, rest
  <2>2. QED
    BY <2>1 DEF PInv, WaitIsNoPoll, PollLeavesNoTrace
<1>5. WaitIsNoPoll' /\ PollLeavesNoTrace'
  BY <1>2, <1>3, <1>4 DEF Next
<1>6. QED
  BY <1>1, <1>5 DEF PInv

(* A serial poll that succeeds leaves no device in serial poll mode, also    *)
(* when polls before it failed after SPE, and whenever the watchdog fires.   *)
THEOREM PollCleansUp == Spec => []PollLeavesNoTrace
<1>1. Init => PInv
  BY InitGood DEF PInv, Init, Idle, NoResult, WaitIsNoPoll, PollLeavesNoTrace
<1>2. PInv /\ [Next]_vars => PInv'
  BY NextPolled
<1>3. PInv => PollLeavesNoTrace
  BY DEF PInv
<1>4. QED
  BY <1>1, <1>2, <1>3, PTL DEF Spec

-----------------------------------------------------------------------------
(* push_status_byte: the new byte joins the others, which stay where they     *)
(* are.                                                                      *)
LEMMA RangeAppend ==
  ASSUME NEW S, NEW x, x \in S, NEW s, s \in Seq(S)
  PROVE  /\ Append(s, x) \in Seq(S)
         /\ Len(Append(s, x)) = Len(s) + 1
         /\ Range(Append(s, x)) = Range(s) \union {x}
         /\ (x \notin Range(s) /\ IsInjective(s)) => IsInjective(Append(s, x))
<1>1. /\ Append(s, x) \in Seq(S) /\ Len(Append(s, x)) = Len(s) + 1
      /\ DOMAIN s = 1 .. Len(s) /\ DOMAIN Append(s, x) = 1 .. Len(s) + 1
      /\ Append(s, x)[Len(s) + 1] = x
      /\ \A k \in 1 .. Len(s) : Append(s, x)[k] = s[k]
  OBVIOUS
<1>2. Len(s) \in Nat
  OBVIOUS
<1>3. 1 .. Len(s) + 1 = (1 .. Len(s)) \union {Len(s) + 1}
  BY <1>2
<1>4. Range(Append(s, x)) = Range(s) \union {x}
  <2> DEFINE a == Append(s, x)
  <2>1. /\ DOMAIN a = (1 .. Len(s)) \union {Len(s) + 1} /\ DOMAIN s = 1 .. Len(s)
        /\ a[Len(s) + 1] = x /\ \A k \in 1 .. Len(s) : a[k] = s[k]
    BY <1>1, <1>3
  <2> HIDE DEF a
  <2>2. Range(a) = Range(s) \union {x}
    BY <2>1 DEF Range
  <2>3. QED
    BY <2>2 DEF a
<1>5. ASSUME x \notin Range(s), IsInjective(s)
      PROVE  IsInjective(Append(s, x))
  <2> DEFINE a == Append(s, x)
  <2>1. /\ DOMAIN a = (1 .. Len(s)) \union {Len(s) + 1} /\ DOMAIN s = 1 .. Len(s)
        /\ a[Len(s) + 1] = x /\ \A k \in 1 .. Len(s) : a[k] = s[k]
    BY <1>1, <1>3
  <2> HIDE DEF a
  <2>2. \A k \in 1 .. Len(s) : a[k] # x
    BY <2>1, <1>5 DEF Range
  <2>3. IsInjective(a)
    BY <2>1, <2>2, <1>5 DEF IsInjective
  <2>4. QED
    BY <2>3 DEF a
<1>6. QED
  BY <1>1, <1>4, <1>5

(* pop_status_byte: the last byte goes, the others stay.                     *)
LEMMA RangeFront ==
  ASSUME NEW S, NEW s \in Seq(S), Len(s) > 0
  PROVE  /\ Front(s) \in Seq(S)
         /\ Len(Front(s)) = Len(s) - 1
         /\ Last(s) \in S
         /\ Last(s) \in Range(s)
         /\ IsInjective(s) => /\ Range(Front(s)) = Range(s) \ {Last(s)}
                              /\ IsInjective(Front(s))
<1> DEFINE f == SubSeq(s, 1, Len(s) - 1)
           n == Len(s)
<1>0. n \in Nat \ {0} /\ DOMAIN s = 1 .. n
  OBVIOUS
<1>1. /\ f \in Seq(S) /\ Len(f) = n - 1 /\ n \in Nat \ {0}
      /\ DOMAIN s = 1 .. n /\ DOMAIN f = 1 .. n - 1
      /\ \A k \in 1 .. n - 1 : f[k] = s[k]
  <2>1. f \in Seq(S) /\ Len(f) = n - 1 /\ \A k \in 1 .. n - 1 : f[k] = s[k]
    BY <1>0
  <2>2. DOMAIN f = 1 .. n - 1
    BY <2>1
  <2>3. QED
    BY <1>0, <2>1, <2>2
<1>2. s[n] \in S
  BY <1>1
<1>3. Front(s) = f /\ Last(s) = s[n]
  BY DEF Front, Last
<1> HIDE DEF f, n
<1>4. 1 .. n = (1 .. n - 1) \union {n} /\ n \notin 1 .. n - 1
  BY <1>1
<1>5. s[n] \in Range(s)
  BY <1>1 DEF Range
<1>6. ASSUME IsInjective(s)
      PROVE  Range(f) = Range(s) \ {s[n]} /\ IsInjective(f)
  <2>1. \A k \in 1 .. n - 1 : s[k] # s[n]
    BY <1>1, <1>4, <1>6 DEF IsInjective
  <2>2. Range(f) = Range(s) \ {s[n]}
    BY <1>1, <1>4, <2>1 DEF Range
  <2>3. IsInjective(f)
    BY <1>1, <1>4, <1>6 DEF IsInjective
  <2>4. QED
    BY <2>2, <2>3
<1>7. QED
  BY <1>1, <1>2, <1>3, <1>5, <1>6 DEF n

(* Distinct bytes in an array are as many as the array is long.               *)
LEMMA InjectiveRange ==
  ASSUME NEW S, NEW s \in Seq(S), IsInjective(s)
  PROVE  IsFiniteSet(Range(s)) /\ Cardinality(Range(s)) = Len(s)
<1>1. Len(s) \in Nat /\ DOMAIN s = 1 .. Len(s)
  OBVIOUS
<1>2. IsFiniteSet(1 .. Len(s)) /\ Cardinality(1 .. Len(s)) = Len(s)
  BY <1>1, FS_Interval
<1> DEFINE g == [k \in 1 .. Len(s) |-> s[k]]
<1>3. g \in Bijection(1 .. Len(s), Range(s))
  BY <1>1 DEF Bijection, Injection, Surjection, IsInjective, Range
<1>4. ExistsBijection(1 .. Len(s), Range(s))
  BY <1>3 DEF ExistsBijection
<1>5. QED
  BY <1>2, <1>4, FS_Bijection

(* A sequence of earlier polls is one of the polls so far.                    *)
LEMMA MorePolls ==
  ASSUME NEW n \in Nat, NEW m, m = n + 1, NEW s \in Seq(1 .. n)
  PROVE  /\ s \in Seq(1 .. m)
         /\ m \in 1 .. m /\ m \notin 1 .. n /\ 1 .. m = (1 .. n) \union {m}
<1>1. m \in 1 .. m /\ m \notin 1 .. n /\ 1 .. m = (1 .. n) \union {m}
  OBVIOUS
<1>2. \A S, T : S \subseteq T => Seq(S) \subseteq Seq(T)
  OBVIOUS
<1>3. QED
  BY <1>1, <1>2

-----------------------------------------------------------------------------
QueueInv == QueueTypeOK /\ EachByteOnce

(* Before the first poll nothing is stored.                                   *)
LEMMA InitInv == init_gpib_status_queue => QueueInv
<1>1. ASSUME NEW S PROVE <<>> \in Seq(S) /\ Len(<<>>) = 0 /\ DOMAIN <<>> = {}
  OBVIOUS
<1>2. Range(<<>>) = {} /\ IsInjective(<<>>)
  BY <1>1 DEF Range, IsInjective
<1>3. MaxStatusBytes >= 0 /\ 1 .. 0 = {}
  BY QueueAssumption
<1>4. <<>> \in Seq(1 .. 0)
  OBVIOUS
<1>5. init_gpib_status_queue => QueueTypeOK
  <2> SUFFICES ASSUME init_gpib_status_queue PROVE QueueTypeOK
    OBVIOUS
  <2>1. status_bytes = <<>> /\ delivered = <<>> /\ polls = 0 /\ refused = {}
        /\ failed = {} /\ reports = 0 /\ dropped_byte = FALSE
    BY DEF init_gpib_status_queue
  <2>2. status_bytes \in Seq(1 .. polls) /\ delivered \in Seq(1 .. polls)
        /\ Len(status_bytes) <= MaxStatusBytes
    BY <1>1, <1>3, <1>4, <2>1
  <2>3. QED
    BY <2>1, <2>2 DEF QueueTypeOK
<1>6. init_gpib_status_queue => EachByteOnce
  BY <1>2, <1>3 DEF init_gpib_status_queue, EachByteOnce, Stored, Handed
<1>7. QED
  BY <1>5, <1>6 DEF QueueInv

(* A step that stores a new poll byte in one of the three places keeps the    *)
(* places apart.                                                             *)
LEMMA PushInv == QueueInv /\ push_status_byte => QueueInv'
<1> SUFFICES ASSUME QueueInv, push_status_byte PROVE QueueInv'
  OBVIOUS
<1> USE DEF num_status_bytes
<1>0. /\ polls \in Nat /\ polls' = polls + 1 /\ Len(status_bytes) \in Nat
      /\ status_bytes \in Seq(1 .. polls) /\ delivered \in Seq(1 .. polls)
  BY DEF QueueInv, QueueTypeOK, push_status_byte
<1>1. /\ polls \in Nat /\ polls' = polls + 1 /\ Len(status_bytes) \in Nat
      /\ status_bytes \in Seq(1 .. polls') /\ delivered \in Seq(1 .. polls')
      /\ polls' \in 1 .. polls' /\ polls' \notin 1 .. polls
      /\ 1 .. polls' = (1 .. polls) \union {polls'}
  BY <1>0, MorePolls
<1>2. Range(status_bytes) \subseteq 1 .. polls /\ Range(delivered) \subseteq 1 .. polls
      /\ refused \subseteq 1 .. polls /\ failed \subseteq 1 .. polls
  BY DEF QueueInv, QueueTypeOK, Range
<1>3. CASE PushStores
  <2>1. /\ Append(status_bytes, polls') \in Seq(1 .. polls')
        /\ Len(Append(status_bytes, polls')) = Len(status_bytes) + 1
        /\ Range(Append(status_bytes, polls')) = Range(status_bytes) \union {polls'}
        /\ IsInjective(Append(status_bytes, polls'))
    BY <1>1, <1>2, RangeAppend DEF QueueInv, EachByteOnce
  <2>2. QueueTypeOK'
    <3>1. /\ status_bytes' = Append(status_bytes, polls')
          /\ Len(status_bytes) < MaxStatusBytes /\ MaxStatusBytes \in Nat
          /\ UNCHANGED <<dropped_byte, refused, delivered, failed, reports>>
      BY <1>3, QueueAssumption DEF push_status_byte, PushStores
    <3>0. dropped_byte' \in BOOLEAN /\ reports' \in Nat /\ polls' \in Nat
      BY <1>1, <3>1 DEF QueueInv, QueueTypeOK
    <3>2. status_bytes' \in Seq(1 .. polls') /\ delivered' \in Seq(1 .. polls')
          /\ Len(status_bytes') <= MaxStatusBytes
      BY <1>1, <2>1, <3>1
    <3>3. refused' \subseteq 1 .. polls' /\ failed' \subseteq 1 .. polls'
      BY <1>1, <1>2, <3>1
    <3>4. QED
      BY <3>0, <3>2, <3>3 DEF QueueTypeOK
  <2>3. EachByteOnce'
    BY <1>1, <1>2, <1>3, <2>1
       DEF QueueInv, EachByteOnce, Stored, Handed, push_status_byte, PushStores
  <2>4. QED
    BY <2>2, <2>3 DEF QueueInv
<1>4. CASE PushOnFull
  <2>1. QueueTypeOK'
    <3>1. /\ UNCHANGED <<status_bytes, delivered, failed, reports>>
          /\ refused' = refused \union {polls'}
      BY <1>4 DEF push_status_byte, PushOnFull
    <3>2. dropped_byte' \in BOOLEAN
      BY <1>4 DEF PushOnFull
    <3>3. status_bytes' \in Seq(1 .. polls') /\ delivered' \in Seq(1 .. polls')
          /\ Len(status_bytes') <= MaxStatusBytes /\ reports' \in Nat /\ polls' \in Nat
      BY <1>1, <3>1 DEF QueueInv, QueueTypeOK
    <3>4. refused' \subseteq 1 .. polls' /\ failed' \subseteq 1 .. polls'
      BY <1>1, <1>2, <3>1
    <3>5. QED
      BY <3>2, <3>3, <3>4 DEF QueueTypeOK
  <2>2. EachByteOnce'
    BY <1>1, <1>2, <1>4
       DEF QueueInv, EachByteOnce, Stored, Handed, push_status_byte, PushOnFull
  <2>3. QED
    BY <2>1, <2>2 DEF QueueInv
<1>5. QED
  BY <1>3, <1>4 DEF push_status_byte

(* A byte that is handed out leaves the store; a loss mark moves no byte.     *)
LEMMA PopInv == QueueInv /\ pop_status_byte => QueueInv'
<1> SUFFICES ASSUME QueueInv, pop_status_byte PROVE QueueInv'
  OBVIOUS
<1> USE DEF num_status_bytes
<1>1. CASE dropped_byte
  <2>1. /\ UNCHANGED <<status_bytes, delivered, polls, refused, failed>>
        /\ dropped_byte' = FALSE /\ reports' = reports + 1
    BY <1>1 DEF pop_status_byte
  <2>2. QueueTypeOK'
    <3>1. /\ status_bytes \in Seq(1 .. polls) /\ delivered \in Seq(1 .. polls)
          /\ Len(status_bytes) <= MaxStatusBytes
      BY DEF QueueInv, QueueTypeOK
    <3>2. /\ status_bytes' \in Seq(1 .. polls') /\ delivered' \in Seq(1 .. polls')
          /\ Len(status_bytes') <= MaxStatusBytes
      BY <2>1, <3>1
    <3>3. refused' \subseteq 1 .. polls' /\ failed' \subseteq 1 .. polls' /\ polls' \in Nat /\ reports' \in Nat
      <4>1. refused \subseteq 1 .. polls /\ failed \subseteq 1 .. polls /\ polls \in Nat /\ reports \in Nat
        BY DEF QueueInv, QueueTypeOK
      <4>2. refused' = refused /\ failed' = failed /\ polls' = polls /\ reports' = reports + 1
        BY <2>1
      <4>3. QED
        BY <4>1, <4>2
    <3>4. dropped_byte' \in BOOLEAN
      BY <2>1
    <3>5. QED
      BY <3>2, <3>3, <3>4 DEF QueueTypeOK
  <2>3. EachByteOnce'
    BY <2>1 DEF QueueInv, EachByteOnce, Stored, Handed
  <2>4. QED
    BY <2>2, <2>3 DEF QueueInv
<1>2. CASE ~dropped_byte
  <2> DEFINE b == Last(status_bytes)
  <2>1. /\ status_bytes' = Front(status_bytes) /\ delivered' = Append(delivered, b)
        /\ UNCHANGED <<dropped_byte, polls, refused, failed, reports>>
        /\ status_bytes \in Seq(1 .. polls) /\ delivered \in Seq(1 .. polls)
        /\ Len(status_bytes) > 0
    BY <1>2 DEF QueueInv, QueueTypeOK, pop_status_byte
  <2>2. /\ Front(status_bytes) \in Seq(1 .. polls)
        /\ Len(Front(status_bytes)) = Len(status_bytes) - 1
        /\ b \in 1 .. polls /\ b \in Range(status_bytes)
        /\ Range(Front(status_bytes)) = Range(status_bytes) \ {b}
        /\ IsInjective(Front(status_bytes))
    BY <2>1, RangeFront DEF QueueInv, EachByteOnce
  <2> HIDE DEF b
  <2>3. b \notin Range(delivered)
    BY <2>2 DEF QueueInv, EachByteOnce, Stored, Handed
  <2>4. /\ Append(delivered, b) \in Seq(1 .. polls)
        /\ Range(Append(delivered, b)) = Range(delivered) \union {b}
        /\ IsInjective(Append(delivered, b))
    BY <2>1, <2>2, <2>3, RangeAppend DEF QueueInv, EachByteOnce
  <2>5. QueueTypeOK'
    BY <2>1, <2>2, <2>4, QueueAssumption DEF QueueInv, QueueTypeOK
  <2>6. EachByteOnce'
    BY <2>1, <2>2, <2>3, <2>4 DEF QueueInv, EachByteOnce, Stored, Handed
  <2>7. QED
    BY <2>5, <2>6 DEF QueueInv
<1>3. QED
  BY <1>1, <1>2

(* The byte of a poll that fails is in none of the other places.              *)
LEMMA SpoilInv == QueueInv /\ ReadThenFail => QueueInv'
<1> SUFFICES ASSUME QueueInv, ReadThenFail PROVE QueueInv'
  OBVIOUS
<1>0. /\ polls \in Nat /\ polls' = polls + 1
      /\ status_bytes \in Seq(1 .. polls) /\ delivered \in Seq(1 .. polls)
  BY DEF QueueInv, QueueTypeOK, ReadThenFail
<1>1. /\ polls \in Nat /\ polls' = polls + 1
      /\ status_bytes \in Seq(1 .. polls') /\ delivered \in Seq(1 .. polls')
      /\ polls' \in 1 .. polls' /\ polls' \notin 1 .. polls
      /\ 1 .. polls' = (1 .. polls) \union {polls'}
  BY <1>0, MorePolls
<1>2. Range(status_bytes) \subseteq 1 .. polls /\ Range(delivered) \subseteq 1 .. polls
      /\ refused \subseteq 1 .. polls /\ failed \subseteq 1 .. polls
  BY DEF QueueInv, QueueTypeOK, Range
<1>3. /\ UNCHANGED <<status_bytes, dropped_byte, delivered, refused, reports>>
      /\ failed' = failed \union {polls'}
  BY DEF ReadThenFail
<1>4. QueueTypeOK'
  BY <1>1, <1>2, <1>3 DEF QueueInv, QueueTypeOK
<1>5. EachByteOnce'
  BY <1>1, <1>2, <1>3 DEF QueueInv, EachByteOnce, Stored, Handed
<1>6. QED
  BY <1>4, <1>5 DEF QueueInv

(* A byte read for a caller goes to that caller.                             *)
LEMMA PollInv == QueueInv /\ PollGives => QueueInv'
<1> SUFFICES ASSUME QueueInv, PollGives PROVE QueueInv'
  OBVIOUS
<1>0. /\ polls \in Nat /\ polls' = polls + 1
      /\ status_bytes \in Seq(1 .. polls) /\ delivered \in Seq(1 .. polls)
  BY DEF QueueInv, QueueTypeOK, PollGives
<1>1. /\ polls \in Nat /\ polls' = polls + 1
      /\ status_bytes \in Seq(1 .. polls') /\ delivered \in Seq(1 .. polls')
      /\ polls' \in 1 .. polls' /\ polls' \notin 1 .. polls
      /\ 1 .. polls' = (1 .. polls) \union {polls'}
  BY <1>0, MorePolls
<1>2. Range(status_bytes) \subseteq 1 .. polls /\ Range(delivered) \subseteq 1 .. polls
      /\ refused \subseteq 1 .. polls /\ failed \subseteq 1 .. polls
  BY DEF QueueInv, QueueTypeOK, Range
<1>3. /\ Append(delivered, polls') \in Seq(1 .. polls')
      /\ Range(Append(delivered, polls')) = Range(delivered) \union {polls'}
      /\ IsInjective(Append(delivered, polls'))
  BY <1>1, <1>2, RangeAppend DEF QueueInv, EachByteOnce
<1>4. QueueTypeOK'
  BY <1>1, <1>2, <1>3 DEF QueueInv, QueueTypeOK, PollGives
<1>5. EachByteOnce'
  BY <1>1, <1>2, <1>3 DEF QueueInv, EachByteOnce, Stored, Handed, PollGives
<1>6. QED
  BY <1>4, <1>5 DEF QueueInv

(* The queue is well typed and every byte in one place, whatever the polls    *)
(* and the callers do.                                                       *)
THEOREM QueueInvariance == QueueSpec => []QueueInv
<1>1. QueueInv /\ UNCHANGED queue_vars => QueueInv'
  BY DEF QueueInv, QueueTypeOK, EachByteOnce, Stored, Handed, queue_vars
<1>2. QueueInv /\ [QueueNext]_queue_vars => QueueInv'
  BY <1>1, PushInv, PopInv, PollInv, SpoilInv
     DEF QueueNext, get_serial_poll_byte, PollDirectly
<1>3. QED
  BY InitInv, <1>2, PTL DEF QueueSpec

(* push_status_byte keeps the limit and every stored number is that of a poll. *)
THEOREM QueueTypeCorrect == QueueSpec => []QueueTypeOK
<1>1. QueueInv => QueueTypeOK
  BY DEF QueueInv
<1>2. QED
  BY <1>1, QueueInvariance, PTL

(* No status byte is duplicated or invented, and none is lost but by a full   *)
(* queue or by a poll that fails after it has read the byte.                 *)
THEOREM BytesOnce == QueueSpec => []EachByteOnce
<1>1. QueueInv => EachByteOnce
  BY DEF QueueInv
<1>2. QED
  BY <1>1, QueueInvariance, PTL

-----------------------------------------------------------------------------
(* A new byte is stored, or lost when the store is full.                      *)
LEMMA PushStep == QueueInv /\ push_status_byte => Store!Next
<1> SUFFICES ASSUME QueueInv, push_status_byte PROVE Store!Next
  OBVIOUS
<1> USE DEF num_status_bytes
<1>1. Store!Cardinality(Range(status_bytes)) = Len(status_bytes)
  <2>1. Cardinality(Range(status_bytes)) = Len(status_bytes)
    BY InjectiveRange DEF QueueInv, QueueTypeOK, EachByteOnce
  <2>2. QED
    BY <2>1 DEF Cardinality, Store!Cardinality
<1>2. Len(status_bytes) \in Nat /\ MaxStatusBytes \in Nat /\ polls \in Nat
      /\ Len(status_bytes) <= MaxStatusBytes
      /\ status_bytes \in Seq(1 .. polls') /\ polls' \in 1 .. polls'
  BY QueueAssumption, MorePolls DEF QueueInv, QueueTypeOK, push_status_byte
<1>3. CASE PushStores
  <2>1. Range(Append(status_bytes, polls')) = Range(status_bytes) \union {polls'}
    BY <1>2, RangeAppend
  <2>2. Store!Store
    BY <1>1, <1>2, <1>3, <2>1 DEF Store!Store, push_status_byte, PushStores
  <2>3. QED
    BY <2>2 DEF Store!Next
<1>4. CASE PushOnFull
  <2>1. Store!Lose
    BY <1>1, <1>2, <1>4 DEF Store!Lose, push_status_byte, PushOnFull
  <2>2. QED
    BY <2>1 DEF Store!Next
<1>5. QED
  BY <1>3, <1>4 DEF push_status_byte

(* A caller is given a stored byte, or only told of a loss.                   *)
LEMMA PopStep == QueueInv /\ pop_status_byte => Store!Next \/ UNCHANGED Store!vars
<1> SUFFICES ASSUME QueueInv, pop_status_byte PROVE Store!Next \/ UNCHANGED Store!vars
  OBVIOUS
<1> USE DEF num_status_bytes
<1>1. CASE dropped_byte
  BY <1>1 DEF pop_status_byte, Store!vars
<1>2. CASE ~dropped_byte
  <2> DEFINE b == Last(status_bytes)
  <2>1. /\ status_bytes' = Front(status_bytes) /\ delivered' = Append(delivered, b)
        /\ UNCHANGED <<polls, refused, failed>>
        /\ status_bytes \in Seq(1 .. polls) /\ delivered \in Seq(1 .. polls)
        /\ Len(status_bytes) > 0
    BY <1>2 DEF QueueInv, QueueTypeOK, pop_status_byte
  <2>2. /\ b \in 1 .. polls /\ b \in Range(status_bytes)
        /\ Range(Front(status_bytes)) = Range(status_bytes) \ {b}
    BY <2>1, RangeFront DEF QueueInv, EachByteOnce
  <2> HIDE DEF b
  <2>3. Range(Append(delivered, b)) = Range(delivered) \union {b}
    BY <2>1, <2>2, RangeAppend
  <2>4. Store!Give
    BY <2>1, <2>2, <2>3 DEF Store!Give
  <2>5. QED
    BY <2>4 DEF Store!Next
<1>3. QED
  BY <1>1, <1>2

(* A poll that fails spoils the byte it read and touches no other.            *)
LEMMA SpoilStep == QueueInv /\ ReadThenFail => Store!Next
<1>1. ReadThenFail => Store!ReadAndFail
  BY DEF ReadThenFail, Store!ReadAndFail
<1>2. QED
  BY <1>1 DEF Store!Next

(* A byte is read for a caller only when none is stored.                      *)
LEMMA PollStep == QueueInv /\ PollDirectly => Store!Next
<1> SUFFICES ASSUME QueueInv, PollDirectly PROVE Store!Next
  OBVIOUS
<1>1. CASE PollGives
  <2>1. Range(status_bytes) = {}
    BY DEF QueueInv, QueueTypeOK, PollDirectly, num_status_bytes, Range
  <2>2. delivered \in Seq(1 .. polls') /\ polls' \in 1 .. polls'
    BY <1>1, MorePolls DEF QueueInv, QueueTypeOK, PollGives
  <2>3. Range(Append(delivered, polls')) = Range(delivered) \union {polls'}
    BY <2>2, RangeAppend
  <2>4. Store!ReadAndGive
    BY <1>1, <2>1, <2>3 DEF Store!ReadAndGive, PollGives
  <2>5. QED
    BY <2>4 DEF Store!Next
<1>2. CASE ReadThenFail
  BY <1>2, SpoilStep
<1>3. QED
  BY <1>1, <1>2 DEF PollDirectly

(* The array, its flag and its two users implement the store of StatusBytes:  *)
(* stack order and loss marks are all they add to it.                        *)
THEOREM ImplementsStore == QueueSpec => IsStore
<1>1. init_gpib_status_queue => Store!Init
  <2>1. Range(<<>>) = {}
    BY DEF Range
  <2>2. QED
    BY <2>1 DEF init_gpib_status_queue, Store!Init
<1>2. QueueInv /\ [QueueNext]_queue_vars => [Store!Next]_(Store!vars)
  <2>1. UNCHANGED queue_vars => UNCHANGED Store!vars
    BY DEF queue_vars, Store!vars
  <2>2. QED
    BY <2>1, PushStep, PopStep, PollStep, SpoilStep DEF QueueNext, get_serial_poll_byte
<1>3. QED
  BY <1>1, <1>2, QueueInvariance, PTL DEF QueueSpec, IsStore, Store!Spec
=============================================================================
