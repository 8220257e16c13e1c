--------------------------- MODULE PythonCallsProofs ---------------------------
(* Proofs about PythonCalls, for any number of threads that call any of the   *)
(* module's functions: types, the two locks, an exception for every failure   *)
(* that the library reports, and numbers that are the call's own.            *)
EXTENDS PythonCalls, TLAPS

Places == {"python", "enter", "ioctl", "on_board", "exit", "back"}
Rets == {"good", "ERR", "negative"}
Codes == {iberr_code[name] : name \in DOMAIN iberr_code}
NumbersType == [iberr : Codes, ibcntl : Nat]
ToldType == [what : {"nothing", "value", "raised", "unknown reason"},
             iberr : Codes, ibcntl : Nat]
Frame ==
  [at : Places, method : DOMAIN gpib_methods, failed : BOOLEAN, dropped : BOOLEAN, ret : Rets,
   unlimited : BOOLEAN, mine : BOOLEAN, own : NumbersType, told : ToldType]

TypeOK ==
  /\ gil \in Threads \union {NoThread}
  /\ board \in Threads \union {NoThread}
  /\ thread_key \in NumbersType
  /\ frame \in [Threads -> Frame]

(* Something has gone wrong and the library has not let it pass.             *)
Reported(f) == f.failed /\ ~f.dropped

(* Of a call on its way: what it returns says whether a failure is reported,   *)
(* but for ibspb, and ERR is not returned to a function that looks for a     *)
(* negative number only.                                                     *)
OnItsWay(f, wrapper) ==
  /\ wrapper.c # "none"
  /\ f.at = "enter" => ~f.mine
  /\ f.at \in {"enter", "ioctl"} => ~f.failed
  /\ f.at \in {"enter", "ioctl", "on_board"} => f.ret = "good" /\ ~Reported(f)
  /\ f.at = "exit" => wrapper.c # "ibfind"
  /\ Reported(f) => f.ret # "good"
  /\ f.ret # "good" => Reported(f) \/ wrapper.c = "ibspb"
  /\ wrapper.fails = "negative" => f.ret # "ERR"

(* Of a call that is over: what Python was told.                             *)
IsOver(f, wrapper) ==
  /\ Reported(f) => f.told.what = "raised"
  /\ f.told.what = "raised" => Reported(f) \/ wrapper.c = "ibspb"
  /\ f.mine =>
       /\ f.told.what = "raised" =>
            /\ f.told.iberr = f.own.iberr
            /\ f.own.iberr = iberr_code.EDVR => f.told.ibcntl = f.own.ibcntl
       /\ f.told.what = "value" /\ wrapper.gives = "bytes" => f.told.ibcntl = f.own.ibcntl

Sound(f) ==
  IF f.at = "python" THEN IsOver(f, gpib_methods[f.method])
  ELSE OnItsWay(f, gpib_methods[f.method])

(* As long as no other call has come in between, the library's numbers are    *)
(* what the call has made of them.                                           *)
Agrees(f, numbers) == f.at # "python" /\ f.mine => f.own = numbers

(* The interpreter's lock is kept through a call by the functions that do not *)
(* give it up and by no other, and the board's mutex is held by the thread   *)
(* whose ioctl is there.                                                     *)
LocksHeld ==
  /\ \A t \in Threads : InCall(t) => (gil = t <=> ~Of(t).allow_threads)
  /\ \A t \in Threads : board = t <=> At(t, "on_board")

IInv ==
  /\ TypeOK /\ LocksHeld
  /\ \A t \in Threads : Sound(frame[t]) /\ Agrees(frame[t], thread_key)

-----------------------------------------------------------------------------
(* The functions of the module, one by one: find and dev look for a negative  *)
(* number, the queries call nothing, all others test for ERR.                 *)
LEMMA Wrappers ==
  ASSUME NEW method \in DOMAIN gpib_methods
  PROVE  LET wrapper == gpib_methods[method]
         IN  /\ wrapper.allow_threads \in BOOLEAN
             /\ wrapper.fails = (IF wrapper.c = "none" THEN "never"
                                 ELSE IF wrapper.c \in {"ibfind", "ibdev"} THEN "negative"
                                 ELSE "ERR")
             /\ wrapper.gives = "bytes" => wrapper.c = "ibrd"
<1> DEFINE Good(wrapper) ==
             /\ wrapper.allow_threads \in BOOLEAN
             /\ wrapper.fails = (IF wrapper.c = "none" THEN "never"
                                 ELSE IF wrapper.c \in {"ibfind", "ibdev"} THEN "negative"
                                 ELSE "ERR")
             /\ wrapper.gives = "bytes" => wrapper.c = "ibrd"
<1>1. Good(gpib_find) /\ Good(gpib_dev)
  BY DEF gpib_find, gpib_dev, AllowThreads
<1>2. Good(gpib_ask) /\ Good(gpib_listener)
  BY DEF gpib_ask, gpib_listener, KeepInterpreter, AllowThreads
<1>3. Good(gpib_read) /\ Good(gpib_serial_poll) /\ Good(gpib_spoll_bytes)
  BY DEF gpib_read, gpib_serial_poll, gpib_spoll_bytes, AllowThreads
<1>4. Good(gpib_config) /\ Good(gpib_write) /\ Good(gpib_write_async) /\ Good(gpib_command)
  BY DEF gpib_config, gpib_write, gpib_write_async, gpib_command, AllowThreads
<1>5. Good(gpib_remote_enable) /\ Good(gpib_clear) /\ Good(gpib_ibloc)
      /\ Good(gpib_interface_clear)
  BY DEF gpib_remote_enable, gpib_clear, gpib_ibloc, gpib_interface_clear, AllowThreads
<1>6. Good(gpib_close) /\ Good(gpib_wait) /\ Good(gpib_timeout) /\ Good(gpib_trigger)
  BY DEF gpib_close, gpib_wait, gpib_timeout, gpib_trigger, AllowThreads
<1>7. Good(gpib_ibsta) /\ Good(gpib_ibcnt) /\ Good(gpib_version)
  BY DEF gpib_ibsta, gpib_ibcnt, gpib_version, Query, KeepInterpreter, AllowThreads
<1> HIDE DEF Good
<1>8. method \in {"find", "ask", "dev", "config", "listener", "read", "write", "write_async",
                  "command", "remote_enable", "clear", "interface_clear", "close", "wait",
                  "timeout", "serial_poll", "spoll_bytes", "trigger", "ibsta", "ibcnt",
                  "ibloc", "version"}
  BY DEF gpib_methods
<1>9. Good(gpib_methods[method])
  BY <1>1, <1>2, <1>3, <1>4, <1>5, <1>6, <1>7, <1>8 DEF gpib_methods
<1>10. QED
  BY <1>9 DEF Good

(* The reasons that are ever set have a meaning.                             *)
LEMMA CodeTypes ==
  /\ \A name \in DOMAIN iberr_code : iberr_code[name] \in Codes
  /\ \A name \in DOMAIN iberr_code : iberr_code[name] \in Nat
  /\ {"EDVR", "ECIC", "ENOL", "EARG", "ESAC", "EABO", "ENEB", "ECAP", "EBUS", "ETAB", "EFSO",
      "ESTB"}
       \subseteq DOMAIN iberr_code
  /\ \A code \in Codes : HasMeaning(code)
BY DEF Codes, iberr_code, HasMeaning

(* A change of the two numbers.                                              *)
Change ==
  {NoChange} \union [iberr : Codes] \union [ibcntl : Nat] \union NumbersType

LEMMA OverType ==
  ASSUME NEW change \in Change, NEW numbers \in NumbersType
  PROVE  /\ Over(change, numbers) \in NumbersType
         /\ Over(NoChange, numbers) = numbers
         /\ change \in NumbersType => Over(change, numbers) = change
<1>1. CASE change = NoChange
  BY <1>1 DEF NoChange, NumbersType, Over
<1>2. CASE change \in [iberr : Codes]
  BY <1>2 DEF NoChange, NumbersType, Over
<1>3. CASE change \in [ibcntl : Nat]
  BY <1>3 DEF NoChange, NumbersType, Over
<1>4. CASE change \in NumbersType
  BY <1>4 DEF NoChange, NumbersType, Over
<1>5. QED
  BY <1>1, <1>2, <1>3, <1>4 DEF Change

-----------------------------------------------------------------------------
(* A frame with other numbers is a frame. *)
LEMMA FrameOwn ==
  ASSUME NEW f \in Frame, NEW own \in NumbersType, NEW mine \in BOOLEAN
  PROVE  /\ [f EXCEPT !.own = own] \in Frame
         /\ [f EXCEPT !.mine = mine, !.own = own] \in Frame
<1> DEFINE Names == DOMAIN gpib_methods
<1>1. Frame = [at : Places, method : Names, failed : BOOLEAN, dropped : BOOLEAN, ret : Rets,
               unlimited : BOOLEAN, mine : BOOLEAN, own : NumbersType, told : ToldType]
  BY DEF Frame
<1> HIDE DEF Names
<1>2. QED
  BY <1>1

(* What Set does to the frames: the thread's own, and the others'.            *)
LEMMA SetFrames ==
  ASSUME TypeOK, NEW t \in Threads, NEW change \in Change, NEW f \in Frame, Set(t, change, f)
  PROVE  /\ thread_key' = Over(change, thread_key) /\ thread_key' \in NumbersType
         /\ frame' \in [Threads -> Frame]
         /\ frame'[t] = [f EXCEPT !.own = IF f.mine THEN Over(change, f.own) ELSE f.own]
         /\ \A u \in Threads :
              u # t => frame'[u] = IF InCall(u) /\ change # NoChange
                                   THEN [frame[u] EXCEPT !.mine = FALSE, !.own = Cleared]
                                   ELSE frame[u]
<1> DEFINE own == IF f.mine THEN Over(change, f.own) ELSE f.own
           mineOver(u) == [frame[u] EXCEPT !.mine = FALSE, !.own = Cleared]
<1>1. thread_key' = Over(change, thread_key) /\ thread_key' \in NumbersType
  BY OverType DEF Set, TypeOK
<1>2. f.own \in NumbersType
  BY DEF Frame
<1>3. own \in NumbersType
  BY <1>2, OverType
<1>4. Cleared \in NumbersType
  BY CodeTypes DEF Cleared, Numbers, NumbersType
<1>5. frame' = [u \in Threads |->
                  IF u = t THEN [f EXCEPT !.own = own]
                  ELSE IF InCall(u) /\ change # NoChange THEN mineOver(u) ELSE frame[u]]
  BY DEF Set
<1> HIDE DEF own
<1>6. [f EXCEPT !.own = own] \in Frame
  BY <1>3, FrameOwn
<1>7. \A u \in Threads : frame[u] \in Frame /\ mineOver(u) \in Frame
  BY <1>4, FrameOwn DEF TypeOK
<1> HIDE DEF mineOver
<1>8. frame' \in [Threads -> Frame]
  BY <1>5, <1>6, <1>7
<1>9. frame'[t] = [f EXCEPT !.own = own]
  BY <1>5
<1>10. \A u \in Threads :
         u # t => frame'[u] = IF InCall(u) /\ change # NoChange THEN mineOver(u) ELSE frame[u]
  BY <1>5
<1>11. QED
  BY <1>1, <1>8, <1>9, <1>10 DEF own, mineOver

(* Set keeps what is known of every call: a change of the numbers is the       *)
(* thread's own, or makes all that the other calls under way have made of    *)
(* them void.                                                                *)
LEMMA SetKeeps ==
  ASSUME IInv, NEW t \in Threads, NEW change \in Change, NEW f \in Frame, Set(t, change, f),
         Sound(f),
         f.at = "python" => change = NoChange,
         f.at # "python" /\ f.mine => f.own = thread_key \/ change \in NumbersType
  PROVE  /\ thread_key' \in NumbersType /\ frame' \in [Threads -> Frame]
         /\ \A u \in Threads : Sound(frame'[u]) /\ Agrees(frame'[u], thread_key')
         /\ frame'[t].at = f.at /\ frame'[t].method = f.method
         /\ \A u \in Threads : u # t => /\ frame'[u].at = frame[u].at
                                        /\ frame'[u].method = frame[u].method
<1> DEFINE own == IF f.mine THEN Over(change, f.own) ELSE f.own
           g == [f EXCEPT !.own = own]
<1>1. /\ thread_key' = Over(change, thread_key) /\ thread_key' \in NumbersType
      /\ frame' \in [Threads -> Frame] /\ frame'[t] = g
  BY SetFrames DEF IInv
<1>2. \A u \in Threads :
        u # t => frame'[u] = IF InCall(u) /\ change # NoChange
                             THEN [frame[u] EXCEPT !.mine = FALSE, !.own = Cleared]
                             ELSE frame[u]
  BY SetFrames DEF IInv
<1>3. thread_key \in NumbersType /\ f.own \in NumbersType
  BY DEF IInv, TypeOK, Frame
<1>4. f.at = "python" => own = f.own
  BY <1>3, OverType
<1>5. f.at # "python" /\ f.mine => own = thread_key'
  BY <1>1, <1>3, OverType
<1> HIDE DEF own
<1>6. /\ g.at = f.at /\ g.method = f.method /\ g.failed = f.failed /\ g.ret = f.ret
      /\ g.dropped = f.dropped
      /\ g.mine = f.mine /\ g.told = f.told /\ g.own = own
  BY DEF Frame
<1> HIDE DEF g
<1>7. Sound(g)
  <2>1. CASE f.at = "python"
    BY <1>4, <1>6, <2>1 DEF Sound, IsOver, Reported
  <2>2. CASE f.at # "python"
    BY <1>6, <2>2 DEF Sound, OnItsWay, Reported
  <2>3. QED
    BY <2>1, <2>2
<1>8. Agrees(g, thread_key')
  BY <1>5, <1>6 DEF Agrees
<1>9. ASSUME NEW u \in Threads, u # t
      PROVE  /\ Sound(frame'[u]) /\ Agrees(frame'[u], thread_key')
             /\ frame'[u].at = frame[u].at /\ frame'[u].method = frame[u].method
  <2>1. Sound(frame[u]) /\ Agrees(frame[u], thread_key) /\ frame[u] \in Frame
    BY DEF IInv, TypeOK
  <2>2. CASE InCall(u) /\ change # NoChange
    <3> DEFINE h == [frame[u] EXCEPT !.mine = FALSE, !.own = Cleared]
    <3>1. frame'[u] = h
      BY <1>2, <1>9, <2>2
    <3>2. /\ h.at = frame[u].at /\ h.method = frame[u].method /\ h.failed = frame[u].failed
          /\ h.ret = frame[u].ret /\ h.mine = FALSE /\ h.dropped = frame[u].dropped
      BY <2>1 DEF Frame
    <3>3. h.at # "python"
      BY <2>2, <3>2 DEF InCall, At
    <3> HIDE DEF h
    <3>4. Sound(h) /\ Agrees(h, thread_key')
      BY <2>1, <3>2, <3>3 DEF Sound, OnItsWay, Reported, Agrees
    <3>5. QED
      BY <3>1, <3>2, <3>4
  <2>3. CASE ~InCall(u)
    BY <1>2, <1>9, <2>1, <2>3 DEF Agrees, InCall, At
  <2>4. CASE change = NoChange
    BY <1>1, <1>2, <1>3, <1>9, <2>1, <2>4, OverType
  <2>5. QED
    BY <2>2, <2>3, <2>4
<1>10. ASSUME NEW u \in Threads PROVE Sound(frame'[u]) /\ Agrees(frame'[u], thread_key')
  <2>1. CASE u = t
    BY <1>1, <1>7, <1>8, <2>1
  <2>2. CASE u # t
    BY <1>9, <2>2
  <2>3. QED
    BY <2>1, <2>2
<1>11. QED
  BY <1>1, <1>6, <1>9, <1>10

-----------------------------------------------------------------------------
(* A step of a thread, from its parts: the locks change hands only between     *)
(* the thread and no thread.                                                 *)
LEMMA StepOf ==
  ASSUME IInv, NEW t \in Threads, NEW change \in Change, NEW f \in Frame, Set(t, change, f),
         Sound(f),
         f.at = "python" => change = NoChange,
         f.at # "python" /\ f.mine => f.own = thread_key \/ change \in NumbersType,
         gil' = gil \/ (gil \in {t, NoThread} /\ gil' \in {t, NoThread}),
         board' = board \/ (board \in {t, NoThread} /\ board' \in {t, NoThread}),
         f.at # "python" => (gil' = t <=> ~gpib_methods[f.method].allow_threads),
         board' = t <=> f.at = "on_board"
  PROVE  IInv'
<1>1. /\ thread_key' \in NumbersType /\ frame' \in [Threads -> Frame]
      /\ \A u \in Threads : Sound(frame'[u]) /\ Agrees(frame'[u], thread_key')
      /\ frame'[t].at = f.at /\ frame'[t].method = f.method
      /\ \A u \in Threads : u # t => /\ frame'[u].at = frame[u].at
                                     /\ frame'[u].method = frame[u].method
  BY SetKeeps
<1>2. TypeOK'
  BY <1>1 DEF IInv, TypeOK
<1>3. ASSUME NEW u \in Threads
      PROVE  /\ InCall(u)' => (gil' = u <=> ~Of(u)'.allow_threads)
             /\ board' = u <=> At(u, "on_board")'
  <2>1. CASE u = t
    BY <1>1, <2>1 DEF InCall, At, Of
  <2>2. CASE u # t
    <3>1. u # NoThread
      BY PythonAssumption
    <3>2. (gil' = u <=> gil = u) /\ (board' = u <=> board = u)
      BY <2>2, <3>1
    <3>3. frame'[u].at = frame[u].at /\ frame'[u].method = frame[u].method
      BY <1>1, <2>2
    <3>4. /\ InCall(u) => (gil = u <=> ~Of(u).allow_threads)
          /\ board = u <=> At(u, "on_board")
      BY DEF IInv, LocksHeld
    <3>5. QED
      BY <3>2, <3>3, <3>4 DEF InCall, At, Of
  <2>3. QED
    BY <2>1, <2>2
<1>4. LocksHeld'
  BY <1>3 DEF LocksHeld
<1>5. QED
  BY <1>1, <1>2, <1>4 DEF IInv

(* What a frame becomes when its call goes on.                               *)
LEMMA Moved ==
  ASSUME NEW f \in Frame, NEW place \in Places
  PROVE  LET g == [f EXCEPT !.at = place]
         IN  /\ g \in Frame /\ g.at = place /\ g.method = f.method /\ g.failed = f.failed
             /\ g.dropped = f.dropped /\ g.ret = f.ret /\ g.mine = f.mine /\ g.own = f.own
<1> DEFINE Names == DOMAIN gpib_methods
<1>1. Frame = [at : Places, method : Names, failed : BOOLEAN, dropped : BOOLEAN, ret : Rets,
               unlimited : BOOLEAN, mine : BOOLEAN, own : NumbersType, told : ToldType]
  BY DEF Frame
<1> HIDE DEF Names
<1>2. QED
  BY <1>1

(* ... when it enters the library,                                           *)
LEMMA MovedMine ==
  ASSUME NEW f \in Frame, NEW place \in Places
  PROVE  LET g == [f EXCEPT !.at = place, !.mine = TRUE]
         IN  /\ g \in Frame /\ g.at = place /\ g.method = f.method /\ g.failed = f.failed
             /\ g.dropped = f.dropped /\ g.ret = f.ret /\ g.mine = TRUE /\ g.own = f.own
<1> DEFINE Names == DOMAIN gpib_methods
<1>1. Frame = [at : Places, method : Names, failed : BOOLEAN, dropped : BOOLEAN, ret : Rets,
               unlimited : BOOLEAN, mine : BOOLEAN, own : NumbersType, told : ToldType]
  BY DEF Frame
<1> HIDE DEF Names
<1>2. QED
  BY <1>1

(* ... when it gets the board or leaves it,                                  *)
LEMMA MovedLimit ==
  ASSUME NEW f \in Frame, NEW place \in Places, NEW unlimited \in BOOLEAN
  PROVE  LET g == [f EXCEPT !.at = place, !.unlimited = unlimited]
         IN  /\ g \in Frame /\ g.at = place /\ g.method = f.method /\ g.failed = f.failed
             /\ g.dropped = f.dropped /\ g.ret = f.ret /\ g.mine = f.mine /\ g.own = f.own
<1> DEFINE Names == DOMAIN gpib_methods
<1>1. Frame = [at : Places, method : Names, failed : BOOLEAN, dropped : BOOLEAN, ret : Rets,
               unlimited : BOOLEAN, mine : BOOLEAN, own : NumbersType, told : ToldType]
  BY DEF Frame
<1> HIDE DEF Names
<1>2. QED
  BY <1>1

(* ... when it is refused,                                                   *)
LEMMA FailingFrame ==
  ASSUME NEW f \in Frame, NEW ret \in Rets
  PROVE  LET g == Failing(f, ret)
         IN  /\ g \in Frame /\ g.at = f.at /\ g.method = f.method /\ g.failed = TRUE
             /\ g.dropped = FALSE /\ g.ret = ret /\ g.mine = f.mine /\ g.own = f.own
<1> DEFINE Names == DOMAIN gpib_methods
<1>1. Frame = [at : Places, method : Names, failed : BOOLEAN, dropped : BOOLEAN, ret : Rets,
               unlimited : BOOLEAN, mine : BOOLEAN, own : NumbersType, told : ToldType]
  BY DEF Frame
<1> HIDE DEF Names
<1>2. QED
  BY <1>1 DEF Failing

(* ... when the library lets a failure pass,                                 *)
LEMMA DropFrame ==
  ASSUME NEW f \in Frame
  PROVE  LET g == Drop(f)
         IN  /\ g \in Frame /\ g.at = f.at /\ g.method = f.method /\ g.failed = TRUE
             /\ Reported(g) <=> Reported(f)
             /\ g.ret = f.ret /\ g.mine = f.mine /\ g.own = f.own
<1> DEFINE Names == DOMAIN gpib_methods
           dropped == f.dropped \/ ~f.failed
           g == [f EXCEPT !.failed = TRUE, !.dropped = dropped]
<1>1. Frame = [at : Places, method : Names, failed : BOOLEAN, dropped : BOOLEAN, ret : Rets,
               unlimited : BOOLEAN, mine : BOOLEAN, own : NumbersType, told : ToldType]
  BY DEF Frame
<1> HIDE DEF Names
<1>2. f.failed \in BOOLEAN /\ f.dropped \in BOOLEAN /\ dropped \in BOOLEAN
  BY <1>1
<1>3. ~dropped <=> f.failed /\ ~f.dropped
  BY <1>2
<1> HIDE DEF dropped
<1>4. /\ g \in Frame /\ g.at = f.at /\ g.method = f.method /\ g.failed = TRUE
      /\ g.dropped = dropped /\ g.ret = f.ret /\ g.mine = f.mine /\ g.own = f.own
  BY <1>1, <1>2
<1>5. Drop(f) = g
  BY DEF Drop, dropped
<1> HIDE DEF g
<1>6. QED
  BY <1>3, <1>4, <1>5 DEF Reported

(* The places and answers that are used are places and answers.              *)
LEMMA PlaceNames ==
  /\ {"python", "enter", "ioctl", "on_board", "exit", "back"} \subseteq Places
  /\ {"good", "ERR", "negative"} \subseteq Rets
BY DEF Places, Rets

(* What is told is of its type when the numbers are.                         *)
LEMMA ToldTypes ==
  ASSUME NEW what \in {"nothing", "value", "raised", "unknown reason"},
         NEW numbers \in NumbersType
  PROVE  Told(what, numbers) \in ToldType
  BY DEF Told, ToldType, NumbersType

(* Nothing is known yet. *)
LEMMA IdleType == Cleared \in NumbersType /\ Idle \in Frame /\ Sound(Idle) /\ Idle.mine = FALSE
<1>1. Cleared \in NumbersType
  BY CodeTypes DEF Cleared, Numbers, NumbersType
<1>2. Nothing \in ToldType
  BY <1>1, ToldTypes DEF Nothing
<1>3. "version" \in DOMAIN gpib_methods
  BY DEF gpib_methods
<1>4. Idle \in Frame
  BY <1>1, <1>2, <1>3 DEF Idle, Frame, Places, Rets
<1>5. Sound(Idle) /\ Idle.mine = FALSE
  BY DEF Idle, Sound, IsOver, Reported, Nothing, Told
<1>6. QED
  BY <1>1, <1>4, <1>5

(* The invariant holds at first.                                             *)
LEMMA InitInv == Init => IInv
<1>1. SUFFICES ASSUME Init PROVE IInv
  OBVIOUS
<1>2. \A t \in Threads : frame[t] = Idle /\ t # NoThread
  BY <1>1, PythonAssumption DEF Init
<1>3. TypeOK
  BY <1>1, IdleType DEF Init, TypeOK
<1>4. Idle.at = "python"
  BY DEF Idle
<1>5. LocksHeld
  BY <1>1, <1>2, <1>4 DEF LocksHeld, Init, InCall, At
<1>6. \A t \in Threads : Sound(frame[t]) /\ Agrees(frame[t], thread_key)
  BY <1>2, <1>4, IdleType DEF Agrees
<1>7. QED
  BY <1>3, <1>5, <1>6 DEF IInv

-----------------------------------------------------------------------------
(* The interpreter: no call is under way in a thread that runs Python.       *)
LEMMA PythonSteps ==
  ASSUME IInv, NEW t \in Threads,
         \/ Run(t) \/ Switch(t)
         \/ \E method \in Methods[t] :
              Ask(t, method) \/ Call(t, method) \/ ReadNegative(t, method)
  PROVE  IInv'
<1>1. t # NoThread /\ Methods[t] \subseteq DOMAIN gpib_methods
  BY PythonAssumption
<1>2. ~InCall(t) => board # t
  BY DEF IInv, LocksHeld, InCall, At
<1>3. NoChange \in Change /\ thread_key \in NumbersType
  BY DEF Change, IInv, TypeOK
<1>4. CASE Run(t)
  <2>1. TypeOK'
    BY <1>4 DEF Run, IInv, TypeOK
  <2>2. ASSUME NEW u \in Threads PROVE InCall(u) => (gil' = u <=> ~Of(u).allow_threads)
    BY <1>1, <1>4, PythonAssumption DEF Run, IInv, LocksHeld
  <2>3. UNCHANGED <<board, thread_key, frame>>
    BY <1>4 DEF Run
  <2>4. LocksHeld'
    BY <2>2, <2>3 DEF LocksHeld, IInv, InCall, At, Of
  <2>5. QED
    BY <2>1, <2>3, <2>4 DEF IInv
<1>5. CASE Switch(t)
  <2>1. Set(t, NoChange, Idle) /\ gil = t /\ gil' = NoThread /\ board' = board /\ ~InCall(t)
    BY <1>5 DEF Switch
  <2>2. Idle.at = "python"
    BY DEF Idle
  <2>3. QED
    BY <1>1, <1>2, <1>3, <2>1, <2>2, IdleType, StepOf
<1>6. ASSUME NEW method \in Methods[t], Ask(t, method)
      PROVE  IInv'
  <2> DEFINE told == Told("value", thread_key)
             f == [Idle EXCEPT !.method = method, !.told = told]
  <2>1. Set(t, NoChange, f) /\ gil' = gil /\ board' = board /\ ~InCall(t)
    BY <1>6 DEF Ask
  <2>2. told \in ToldType /\ told.what = "value"
    BY <1>3, ToldTypes DEF Told
  <2>3. method \in DOMAIN gpib_methods
    BY <1>1
  <2>4. gpib_methods[method].c = "none"
    BY <1>6 DEF Ask
  <2> HIDE DEF told
  <2>5. /\ f \in Frame /\ f.at = "python" /\ f.mine = FALSE /\ f.failed = FALSE
        /\ f.method = method /\ f.told = told
    BY <2>2, <2>3, IdleType DEF Idle, Frame
  <2> HIDE DEF f
  <2>6. Sound(f)
    BY <2>2, <2>5 DEF Sound, IsOver, Reported
  <2>7. QED
    BY <1>2, <1>3, <2>1, <2>5, <2>6, StepOf
<1>7. ASSUME NEW method \in Methods[t], Call(t, method)
      PROVE  IInv'
  <2> DEFINE f == [Idle EXCEPT !.method = method, !.at = "enter"]
  <2>1. /\ Set(t, NoChange, f) /\ gil = t /\ board' = board /\ ~InCall(t)
        /\ gil' = IF gpib_methods[method].allow_threads THEN NoThread ELSE t
    BY <1>7 DEF Call
  <2>2. method \in DOMAIN gpib_methods /\ gpib_methods[method].c # "none"
    BY <1>1, <1>7 DEF Call
  <2>3. /\ f \in Frame /\ f.at = "enter" /\ f.mine = FALSE /\ f.failed = FALSE
        /\ f.method = method /\ f.ret = "good"
    BY <2>2, IdleType, PlaceNames DEF Idle, Frame
  <2> HIDE DEF f
  <2>4. Sound(f)
    BY <2>2, <2>3 DEF Sound, OnItsWay, Reported
  <2>5. gil' = t <=> ~gpib_methods[f.method].allow_threads
    BY <1>1, <2>1, <2>3
  <2>6. gil' \in {t, NoThread}
    BY <2>1
  <2>7. QED
    BY <1>2, <1>3, <2>1, <2>3, <2>4, <2>5, <2>6, StepOf
<1>8. ASSUME NEW method \in Methods[t], ReadNegative(t, method)
      PROVE  IInv'
  <2> DEFINE told == Told("raised", Cleared)
             f == [Idle EXCEPT !.method = method, !.failed = TRUE, !.told = told]
  <2>1. Set(t, NoChange, f) /\ gil' = gil /\ board' = board /\ ~InCall(t)
    BY <1>8 DEF ReadNegative
  <2>2. told \in ToldType /\ told.what = "raised"
    BY IdleType, ToldTypes DEF Told
  <2>3. method \in DOMAIN gpib_methods
    BY <1>1
  <2> HIDE DEF told
  <2>4. /\ f \in Frame /\ f.at = "python" /\ f.mine = FALSE /\ f.failed = TRUE
        /\ f.dropped = FALSE /\ f.method = method /\ f.told = told
    BY <2>2, <2>3, IdleType DEF Idle, Frame
  <2> HIDE DEF f
  <2>5. Sound(f)
    BY <2>2, <2>4 DEF Sound, IsOver, Reported
  <2>6. QED
    BY <1>2, <1>3, <2>1, <2>4, <2>5, StepOf
<1>9. QED
  BY <1>4, <1>5, <1>6, <1>7, <1>8

-----------------------------------------------------------------------------
(* What a call that is under way knows of itself.                            *)
LEMMA UnderWay ==
  ASSUME IInv, NEW t \in Threads, InCall(t)
  PROVE  /\ frame[t] \in Frame /\ OnItsWay(frame[t], Of(t)) /\ Agrees(frame[t], thread_key)
         /\ gil = t <=> ~Of(t).allow_threads
         /\ board = t <=> At(t, "on_board")
         /\ frame[t].method \in DOMAIN gpib_methods
         /\ frame[t].mine => frame[t].own = thread_key
  BY DEF IInv, TypeOK, Frame, LocksHeld, Sound, InCall, At, Of, Agrees

(* A call goes on to another place in C, with frame f.                       *)
LEMMA GoesOn ==
  ASSUME IInv, NEW t \in Threads, InCall(t), NEW change \in Change, NEW f \in Frame,
         Set(t, change, f), OnItsWay(f, Of(t)), f.method = frame[t].method,
         f.at # "python",
         f.mine => f.own = thread_key \/ change \in NumbersType,
         gil' = gil,
         board' = board \/ (board \in {t, NoThread} /\ board' \in {t, NoThread}),
         board' = t <=> f.at = "on_board"
  PROVE  IInv'
<1>1. Sound(f)
  BY DEF Sound, Of
<1>2. gil' = t <=> ~gpib_methods[f.method].allow_threads
  BY UnderWay DEF Of
<1>3. QED
  BY <1>1, <1>2, StepOf

(* Every change that the library makes is one of the numbers.                *)
LEMMA ChangeTypes ==
  /\ NoChange \in Change /\ Cleared \in NumbersType
  /\ \A name \in DOMAIN iberr_code : setIberr(iberr_code[name]) \in Change
  /\ \A n \in Nat : setIbcnt(n) \in Change
  /\ \A n \in Nat : SystemError(n) \in NumbersType
  /\ NumbersType \subseteq Change
<1>1. NoChange \in Change /\ Cleared \in NumbersType /\ NumbersType \subseteq Change
  BY IdleType DEF Change
<1>2. \A name \in DOMAIN iberr_code : setIberr(iberr_code[name]) \in Change
  BY CodeTypes DEF Change, setIberr
<1>3. \A n \in Nat : setIbcnt(n) \in Change
  BY DEF Change, setIbcnt
<1>4. \A n \in Nat : SystemError(n) \in NumbersType
  BY CodeTypes DEF NumbersType, SystemError, Numbers
<1>5. QED
  BY <1>1, <1>2, <1>3, <1>4

(* So are the errors of the work, of another thread's transfer and of the     *)
(* ioctls that nobody looks at.                                              *)
LEMMA ErrorTypes ==
  ASSUME NEW c, NEW errno \in Nat
  PROVE  /\ WorkErrors(c, errno) \subseteq Change
         /\ do_aio(errno) \subseteq Change
         /\ DroppedErrors(errno) \subseteq Change
<1> DEFINE Good(change) == change \in Change
<1>1. /\ Good(SystemError(errno)) /\ Good(NoChange) /\ Good(Numbers(iberr_code.EARG, 0))
      /\ Good(setIberr(iberr_code.EABO)) /\ Good(setIberr(iberr_code.ENOL))
      /\ Good(setIberr(iberr_code.ECIC)) /\ Good(setIberr(iberr_code.EBUS))
      /\ Good(setIberr(iberr_code.ESAC)) /\ Good(setIberr(iberr_code.EARG))
      /\ Good(setIberr(iberr_code.ECAP)) /\ Good(setIberr(iberr_code.ESTB))
  <2>1. Numbers(iberr_code.EARG, 0) \in NumbersType
    BY CodeTypes DEF NumbersType, Numbers
  <2>2. QED
    BY <2>1, ChangeTypes, CodeTypes
<1> HIDE DEF Good
<1>2. Good(read_data(errno)) /\ Good(send_data(errno)) /\ Good(serial_poll(errno))
  BY <1>1 DEF read_data, send_data, serial_poll
<1>3. \A change \in my_ibcmd(errno) : Good(change)
  BY <1>1 DEF my_ibcmd
<1>4. \A change \in WorkErrors(c, errno) : Good(change)
  <2> DEFINE addressing == IF c \in Addressing \ Asynchronous THEN my_ibcmd(errno) ELSE {}
             own == CASE c = "ibrd" -> {read_data(errno)}
                      [] c = "ibwrt" -> {send_data(errno)}
                      [] c = "ibrsp" -> {serial_poll(errno), setIberr(iberr_code.EARG)}
                      [] c = "ibsre" -> {setIberr(iberr_code.ESAC)}
                      [] c \in {"ibcmd", "ibwait"} ->
                           {setIberr(iberr_code.EARG), setIberr(iberr_code.ECIC)}
                      [] c \in {"ibclr", "ibtrg"} -> {NoChange, setIberr(iberr_code.EARG)}
                      [] c = "ibloc" -> {NoChange}
                      [] c \in {"ibln", "ibsic", "ibtmo"} -> {setIberr(iberr_code.EARG)}
                      [] c \in {"ibask", "ibconfig"} ->
                           {setIberr(iberr_code.EARG), setIberr(iberr_code.ECAP)}
                      [] OTHER -> {}
  <2>1. WorkErrors(c, errno) = {SystemError(errno)} \union addressing \union own
    BY DEF WorkErrors
  <2>2. \A change \in addressing : Good(change)
    BY <1>3
  <2>3. \A change \in own : Good(change)
    BY <1>1, <1>2
  <2> HIDE DEF addressing, own
  <2>4. QED
    BY <1>1, <2>1, <2>2, <2>3
<1>5. \A change \in do_aio(errno) : Good(change)
  BY <1>2, <1>3 DEF do_aio
<1>6. \A change \in DroppedErrors(errno) : Good(change)
  BY <1>1 DEF DroppedErrors
<1>7. QED
  BY <1>4, <1>5, <1>6 DEF Good

(* The numbers of another thread's transfer are a change too.                *)
LEMMA TakenOver ==
  ASSUME NEW errno \in Nat, NEW change \in do_aio(errno), NEW moved \in Nat
  PROVE  Over(change, setIbcnt(moved)) \in Change
<1>1. change \in Change
  BY ErrorTypes
<1>2. CASE change = NoChange
  <2>1. Over(change, setIbcnt(moved)) \in [ibcntl : Nat]
    BY <1>2 DEF NoChange, Over, setIbcnt
  <2>2. QED
    BY <2>1 DEF Change
<1>3. CASE change \in [iberr : Codes]
  <2>1. Over(change, setIbcnt(moved)) \in NumbersType
    BY <1>3 DEF NumbersType, Over, setIbcnt
  <2>2. QED
    BY <2>1 DEF Change
<1>4. CASE change \in [ibcntl : Nat]
  <2>1. Over(change, setIbcnt(moved)) \in [ibcntl : Nat]
    BY <1>4 DEF Over, setIbcnt
  <2>2. QED
    BY <2>1 DEF Change
<1>5. CASE change \in NumbersType
  <2>1. Over(change, setIbcnt(moved)) \in NumbersType
    BY <1>5 DEF NumbersType, Over, setIbcnt
  <2>2. QED
    BY <2>1 DEF Change
<1>6. QED
  BY <1>1, <1>2, <1>3, <1>4, <1>5 DEF Change

(* A count over a change is a change.                                        *)
LEMMA CountedType ==
  ASSUME NEW c, NEW change \in Change, NEW failed, NEW moved \in Nat
  PROVE  Counted(c, change, failed, moved) \in Change
<1>1. Length \in Nat
  BY PythonAssumption
<1>2. \A n \in Nat : Over(setIbcnt(n), change) \in Change
  <2>1. ASSUME NEW n \in Nat PROVE Over(setIbcnt(n), change) \in Change
    <3>1. CASE change = NoChange
      BY <3>1 DEF Change, NoChange, Over, setIbcnt
    <3>2. CASE change \in [iberr : Codes]
      <4>1. Over(setIbcnt(n), change) \in NumbersType
        BY <3>2 DEF NumbersType, Over, setIbcnt
      <4>2. QED
        BY <4>1 DEF Change
    <3>3. CASE change \in [ibcntl : Nat]
      <4>1. Over(setIbcnt(n), change) \in [ibcntl : Nat]
        BY <3>3 DEF Over, setIbcnt
      <4>2. QED
        BY <4>1 DEF Change
    <3>4. CASE change \in NumbersType
      <4>1. Over(setIbcnt(n), change) \in NumbersType
        BY <3>4 DEF NumbersType, Over, setIbcnt
      <4>2. QED
        BY <4>1 DEF Change
    <3>5. QED
      BY <3>1, <3>2, <3>3, <3>4 DEF Change
  <2>2. QED
    BY <2>1
<1>3. QED
  BY <1>1, <1>2 DEF Counted

(* The bounded sets of the model are of numbers. *)
LEMMA Inputs == Errnos \subseteq Nat /\ \A moved \in 0 .. Length : moved \in Nat
  BY PythonAssumption

-----------------------------------------------------------------------------
(* The entry to the library. *)
LEMMA EntrySteps ==
  ASSUME IInv, NEW t \in Threads,
         \/ findBoardWithName(t) \/ ibGetDescriptor(t) \/ ibonl(t)
         \/ general_enter_library(t) \/ ibCheckDescriptor(t)
  PROVE  IInv'
<1> DEFINE f == frame[t]
<1>1. At(t, "enter") /\ InCall(t) /\ UNCHANGED <<gil, board>>
  BY DEF findBoardWithName, ibGetDescriptor, ibonl, general_enter_library, ibCheckDescriptor,
         InCall, At
<1>2. /\ f \in Frame /\ OnItsWay(f, Of(t)) /\ f.at = "enter" /\ f.mine = FALSE
      /\ f.ret = "good" /\ f.failed = FALSE /\ board # t
      /\ gpib_methods[f.method] = Of(t) /\ f.method \in DOMAIN gpib_methods
  BY <1>1, UnderWay DEF OnItsWay, At, Of, Frame
<1>3. Of(t).fails = "negative" <=> Of(t).c \in {"ibfind", "ibdev"}
  <2>1. Of(t).c # "none"
    BY <1>2 DEF OnItsWay
  <2>2. QED
    BY <1>2, <2>1, Wrappers
<1> HIDE DEF f
<1>4. CASE findBoardWithName(t)
  <2> DEFINE g == [f EXCEPT !.at = "ioctl"]
  <2>1. Set(t, NoChange, g) /\ Of(t).c = "ibfind"
    BY <1>4 DEF findBoardWithName, f
  <2>2. /\ g \in Frame /\ g.at = "ioctl" /\ g.mine = FALSE /\ g.ret = "good"
        /\ g.failed = FALSE /\ g.method = f.method
    BY <1>2, Moved, PlaceNames
  <2> HIDE DEF g
  <2>3. OnItsWay(g, Of(t))
    BY <1>2, <2>1, <2>2 DEF OnItsWay, Reported
  <2>4. QED
    BY <1>1, <1>2, <2>1, <2>2, <2>3, ChangeTypes, GoesOn DEF f
<1>5. CASE ibGetDescriptor(t)
  <2> DEFINE h == [f EXCEPT !.at = "back"]
             g == Failing(h, "negative")
  <2>1. PICK change \in Change : Set(t, change, g)
    BY <1>5, ChangeTypes, CodeTypes DEF ibGetDescriptor, f
  <2>2. /\ h \in Frame /\ h.at = "back" /\ h.mine = FALSE /\ h.method = f.method
    BY <1>2, Moved, PlaceNames
  <2>3. /\ g \in Frame /\ g.at = "back" /\ g.mine = FALSE /\ g.ret = "negative"
        /\ g.failed = TRUE /\ g.dropped = FALSE /\ g.method = f.method
    BY <1>2, <2>2, FailingFrame, PlaceNames
  <2> HIDE DEF g
  <2>4. OnItsWay(g, Of(t))
    BY <1>2, <2>3 DEF OnItsWay, Reported
  <2>5. QED
    BY <1>1, <1>2, <2>1, <2>3, <2>4, GoesOn DEF f
<1>6. CASE ibonl(t)
  <2> DEFINE h == [f EXCEPT !.at = "back"]
             g == Failing(h, "negative")
  <2>1. Set(t, NoChange, g)
    BY <1>6 DEF ibonl, f
  <2>2. /\ h \in Frame /\ h.at = "back" /\ h.mine = FALSE /\ h.method = f.method
    BY <1>2, Moved, PlaceNames
  <2>3. /\ g \in Frame /\ g.at = "back" /\ g.mine = FALSE /\ g.ret = "negative"
        /\ g.failed = TRUE /\ g.dropped = FALSE /\ g.method = f.method
    BY <1>2, <2>2, FailingFrame, PlaceNames
  <2> HIDE DEF g
  <2>4. OnItsWay(g, Of(t))
    BY <1>2, <2>3 DEF OnItsWay, Reported
  <2>5. QED
    BY <1>1, <1>2, <2>1, <2>3, <2>4, ChangeTypes, GoesOn DEF f
<1>7. CASE general_enter_library(t)
  <2> DEFINE g == [f EXCEPT !.at = "ioctl", !.mine = TRUE]
  <2>1. Set(t, Cleared, g) /\ Of(t).c # "ibfind"
    BY <1>7 DEF general_enter_library, f
  <2>2. /\ g \in Frame /\ g.at = "ioctl" /\ g.mine = TRUE /\ g.ret = "good"
        /\ g.failed = FALSE /\ g.method = f.method
    BY <1>2, MovedMine, PlaceNames
  <2> HIDE DEF g
  <2>3. OnItsWay(g, Of(t))
    BY <1>2, <2>1, <2>2 DEF OnItsWay, Reported
  <2>4. QED
    BY <1>1, <1>2, <2>1, <2>2, <2>3, ChangeTypes, GoesOn DEF f
<1>8. CASE ibCheckDescriptor(t)
  <2> DEFINE h == [f EXCEPT !.at = "back", !.mine = TRUE]
             g == Failing(h, "ERR")
  <2>1. Set(t, SystemError(EINVAL), g) /\ Of(t).c \notin {"ibfind", "ibdev"}
    BY <1>8 DEF ibCheckDescriptor, f
  <2>2. h \in Frame /\ h.at = "back" /\ h.mine = TRUE /\ h.method = f.method
    BY <1>2, MovedMine, PlaceNames
  <2>3. /\ g \in Frame /\ g.at = "back" /\ g.mine = TRUE /\ g.ret = "ERR"
        /\ g.failed = TRUE /\ g.dropped = FALSE /\ g.method = f.method
    BY <1>2, <2>2, FailingFrame, PlaceNames
  <2> HIDE DEF g
  <2>4. OnItsWay(g, Of(t))
    BY <1>2, <1>3, <2>1, <2>3 DEF OnItsWay, Reported
  <2>5. SystemError(EINVAL) \in NumbersType
    BY ChangeTypes DEF EINVAL
  <2>6. QED
    BY <1>1, <1>2, <2>1, <2>3, <2>4, <2>5, ChangeTypes, GoesOn DEF f
<1>9. QED
  BY <1>4, <1>5, <1>6, <1>7, <1>8

(* A call leaves the board: its answer says whether a failure is reported.     *)
LEMMA LeavesBoard ==
  ASSUME IInv, NEW t \in Threads, At(t, "on_board"), gil' = gil, board' = NoThread,
         NEW change \in Change, NEW g \in Frame, Set(t, change, g),
         g.at \in {"exit", "back"}, g.at = "exit" => Of(t).c # "ibfind",
         g.method = frame[t].method, g.mine = frame[t].mine, g.own = frame[t].own,
         Reported(g) => g.ret # "good",
         g.ret # "good" => Reported(g) \/ Of(t).c = "ibspb",
         g.ret = "ERR" => Of(t).c \notin {"ibfind", "ibdev"}
  PROVE  IInv'
<1>1. InCall(t) /\ t # NoThread
  BY PythonAssumption DEF InCall, At
<1>2. /\ board = t /\ frame[t].method \in DOMAIN gpib_methods /\ Of(t).c # "none"
      /\ g.mine => g.own = thread_key
  BY <1>1, UnderWay DEF OnItsWay
<1>3. Of(t).fails = "negative" <=> Of(t).c \in {"ibfind", "ibdev"}
  BY <1>2, Wrappers DEF Of
<1>4. OnItsWay(g, Of(t))
  BY <1>2, <1>3 DEF OnItsWay
<1>5. QED
  BY <1>1, <1>2, <1>4, GoesOn

(* The frame it takes along.                                                 *)
LEMMA LeavingFrame ==
  ASSUME IInv, NEW t \in Threads, At(t, "on_board"), NEW place \in {"exit", "back"}
  PROVE  LET g == Leaving(t, place)
         IN  /\ g \in Frame /\ g.at = place /\ g.method = frame[t].method
             /\ ~Reported(g) /\ g.ret = "good"
             /\ g.mine = frame[t].mine /\ g.own = frame[t].own
<1>1. frame[t] \in Frame /\ ~Reported(frame[t]) /\ frame[t].ret = "good"
  BY UnderWay DEF OnItsWay, InCall, At
<1>2. place \in Places
  BY PlaceNames
<1>3. LET g == Leaving(t, place)
      IN  /\ g \in Frame /\ g.at = place /\ g.method = frame[t].method
          /\ g.failed = frame[t].failed /\ g.dropped = frame[t].dropped
          /\ g.ret = frame[t].ret /\ g.mine = frame[t].mine /\ g.own = frame[t].own
  BY <1>1, <1>2, MovedLimit DEF Leaving
<1>4. QED
  BY <1>1, <1>3 DEF Reported

(* The ioctl.                                                                *)
LEMMA BoardSteps ==
  ASSUME IInv, NEW t \in Threads,
         \/ TakeBoard(t) \/ Unnoticed(t) \/ WorkDone(t) \/ WorkFails(t) \/ NameCompared(t)
         \/ gpib_aio_launch(t) \/ ibwait(t) \/ ibspb(t)
  PROVE  IInv'
<1> DEFINE f == frame[t]
<1>1. f.at \in {"ioctl", "on_board"} /\ InCall(t) /\ gil' = gil
  BY DEF TakeBoard, Unnoticed, WorkDone, WorkFails, NameCompared, gpib_aio_launch, ibwait,
         ibspb, InCall, At
<1>2. /\ f \in Frame /\ OnItsWay(f, Of(t)) /\ f.ret = "good" /\ ~Reported(f)
      /\ f.mine => f.own = thread_key
      /\ f.at = "on_board" => board = t
      /\ gpib_methods[f.method] = Of(t) /\ f.method \in DOMAIN gpib_methods
      /\ Of(t).c # "none" /\ t # NoThread
  BY <1>1, UnderWay, PythonAssumption DEF OnItsWay, At, Of, Frame
<1>3. Of(t).fails = "negative" <=> Of(t).c \in {"ibfind", "ibdev"}
  BY <1>2, Wrappers
<1>4. ASSUME At(t, "on_board"), NEW place \in {"exit", "back"}
      PROVE  LET g == Leaving(t, place)
                 r == Failing(g, "ERR")
                 n == Failing(g, "negative")
                 d == Drop(g)
             IN  /\ g \in Frame /\ g.at = place /\ g.method = f.method
                 /\ ~Reported(g) /\ g.ret = "good" /\ g.mine = f.mine /\ g.own = f.own
                 /\ r \in Frame /\ r.at = place /\ r.method = f.method
                 /\ Reported(r) /\ r.ret = "ERR" /\ r.mine = f.mine /\ r.own = f.own
                 /\ n \in Frame /\ n.at = place /\ n.method = f.method
                 /\ Reported(n) /\ n.ret = "negative" /\ n.mine = f.mine /\ n.own = f.own
                 /\ d \in Frame /\ d.at = place /\ d.method = f.method
                 /\ ~Reported(d) /\ d.ret = "good" /\ d.mine = f.mine /\ d.own = f.own
  <2> DEFINE g == Leaving(t, place)
  <2>1. /\ g \in Frame /\ g.at = place /\ g.method = f.method
        /\ ~Reported(g) /\ g.ret = "good" /\ g.mine = f.mine /\ g.own = f.own
    BY <1>4, LeavingFrame
  <2> HIDE DEF g, f
  <2>2. /\ Failing(g, "ERR") \in Frame /\ Failing(g, "ERR").at = place
        /\ Failing(g, "ERR").method = f.method /\ Reported(Failing(g, "ERR"))
        /\ Failing(g, "ERR").ret = "ERR"
        /\ Failing(g, "ERR").mine = f.mine /\ Failing(g, "ERR").own = f.own
    BY <2>1, PlaceNames, FailingFrame DEF Reported
  <2>3. /\ Failing(g, "negative") \in Frame /\ Failing(g, "negative").at = place
        /\ Failing(g, "negative").method = f.method /\ Reported(Failing(g, "negative"))
        /\ Failing(g, "negative").ret = "negative"
        /\ Failing(g, "negative").mine = f.mine /\ Failing(g, "negative").own = f.own
    BY <2>1, PlaceNames, FailingFrame DEF Reported
  <2>4. /\ Drop(g) \in Frame /\ Drop(g).at = place /\ Drop(g).method = f.method
        /\ ~Reported(Drop(g)) /\ Drop(g).ret = "good"
        /\ Drop(g).mine = f.mine /\ Drop(g).own = f.own
    BY <2>1, DropFrame
  <2>5. QED
    BY <2>1, <2>2, <2>3, <2>4 DEF g
<1> HIDE DEF f
<1>5. CASE TakeBoard(t)
  <2>1. PICK unlimited \in BOOLEAN :
          Set(t, NoChange, [f EXCEPT !.at = "on_board", !.unlimited = unlimited])
    BY <1>5 DEF TakeBoard, f
  <2> DEFINE g == [f EXCEPT !.at = "on_board", !.unlimited = unlimited]
  <2>2. /\ g \in Frame /\ g.at = "on_board" /\ g.mine = f.mine /\ g.own = f.own
        /\ g.ret = "good" /\ ~Reported(g) /\ g.method = f.method
    <3>1. "on_board" \in Places /\ unlimited \in BOOLEAN /\ f \in Frame
      BY <1>2, PlaceNames
    <3> DEFINE Names == DOMAIN gpib_methods
    <3>2. Frame = [at : Places, method : Names, failed : BOOLEAN, dropped : BOOLEAN,
                   ret : Rets, unlimited : BOOLEAN, mine : BOOLEAN, own : NumbersType,
                   told : ToldType]
      BY DEF Frame
    <3> HIDE DEF Names
    <3>3. g \in Frame
      BY <3>1, <3>2
    <3>4. /\ g.at = "on_board" /\ g.method = f.method /\ g.failed = f.failed
          /\ g.dropped = f.dropped /\ g.ret = f.ret /\ g.mine = f.mine /\ g.own = f.own
      BY <3>1, <3>2
    <3>5. QED
      BY <1>2, <3>3, <3>4 DEF Reported
  <2>3. Set(t, NoChange, g) /\ board = NoThread /\ board' = t
    BY <1>5, <2>1 DEF TakeBoard
  <2> HIDE DEF g
  <2>4. OnItsWay(g, Of(t))
    BY <1>2, <2>2 DEF OnItsWay
  <2>5. QED
    BY <1>1, <1>2, <2>2, <2>3, <2>4, ChangeTypes, GoesOn DEF f
<1>6. CASE Unnoticed(t)
  <2> DEFINE g == Drop(f)
  <2>1. PICK errno \in Errnos : \E change \in DroppedErrors(errno) : Set(t, change, g)
    BY <1>6 DEF Unnoticed, f
  <2>2. PICK change \in Change : Set(t, change, g)
    BY <2>1, ErrorTypes, Inputs
  <2>3. At(t, "on_board") /\ f.at = "on_board" /\ board = t /\ board' = board
    BY <1>2, <1>6 DEF Unnoticed, At, f
  <2>4. /\ g \in Frame /\ g.at = "on_board" /\ g.method = f.method /\ ~Reported(g)
        /\ g.ret = "good" /\ g.mine = f.mine /\ g.own = f.own
    BY <1>2, <2>3, DropFrame
  <2> HIDE DEF g
  <2>5. OnItsWay(g, Of(t))
    BY <1>2, <2>4 DEF OnItsWay
  <2>6. QED
    BY <1>1, <1>2, <2>2, <2>3, <2>4, <2>5, GoesOn DEF f
<1>7. CASE WorkDone(t)
  <2> DEFINE place == IF Of(t).c = "ibwait" THEN "back" ELSE "exit"
             g == Leaving(t, place)
  <2>1. PICK moved \in 0 .. Length : Set(t, Counted(Of(t).c, NoChange, FALSE, moved), g)
    BY <1>7 DEF WorkDone
  <2>2. Counted(Of(t).c, NoChange, FALSE, moved) \in Change
    BY CountedType, ChangeTypes, Inputs
  <2>3. At(t, "on_board") /\ board' = NoThread /\ Of(t).c # "ibfind"
    BY <1>7 DEF WorkDone
  <2>4. place \in {"back", "exit"}
    OBVIOUS
  <2> HIDE DEF place
  <2>5. /\ g \in Frame /\ g.at = place /\ g.mine = f.mine /\ g.own = f.own
        /\ g.ret = "good" /\ ~Reported(g) /\ g.method = f.method
    BY <1>4, <2>3, <2>4
  <2> HIDE DEF g
  <2>6. QED
    BY <1>1, <2>1, <2>2, <2>3, <2>4, <2>5, LeavesBoard DEF f
<1>8. CASE WorkFails(t)
  <2> DEFINE ret == IF Of(t).c = "ibdev" THEN "negative" ELSE "ERR"
             g == Failing(Leaving(t, "exit"), ret)
  <2>1. PICK errno \in Errnos, moved \in 0 .. Length :
          \E change \in WorkErrors(Of(t).c, errno) :
            Set(t, Counted(Of(t).c, change, TRUE, moved), g)
    BY <1>8 DEF WorkFails
  <2>2. PICK change \in WorkErrors(Of(t).c, errno) :
          Set(t, Counted(Of(t).c, change, TRUE, moved), g)
    BY <2>1
  <2>3. Counted(Of(t).c, change, TRUE, moved) \in Change
    BY CountedType, ErrorTypes, Inputs
  <2>4. At(t, "on_board") /\ board' = NoThread /\ Of(t).c # "ibfind"
    BY <1>8 DEF WorkFails
  <2>5. ret \in {"ERR", "negative"} /\ (ret = "ERR" => Of(t).c # "ibdev")
    OBVIOUS
  <2> HIDE DEF ret
  <2>6. /\ g \in Frame /\ g.at = "exit" /\ g.mine = f.mine /\ g.own = f.own
        /\ g.ret = ret /\ Reported(g) /\ g.method = f.method
    BY <1>4, <2>4, <2>5
  <2> HIDE DEF g
  <2>7. g.ret # "good" /\ (g.ret = "ERR" => Of(t).c \notin {"ibfind", "ibdev"})
    BY <2>4, <2>5, <2>6
  <2>8. QED
    BY <1>1, <2>2, <2>3, <2>4, <2>6, <2>7, LeavesBoard DEF f
<1>9. CASE NameCompared(t)
  <2> DEFINE g == [f EXCEPT !.at = "back"]
             h == Failing(g, "negative")
  <2>1. At(t, "on_board") /\ board' = NoThread /\ Of(t).c = "ibfind"
    BY <1>9 DEF NameCompared
  <2>2. /\ g \in Frame /\ g.at = "back" /\ g.mine = f.mine /\ g.own = f.own
        /\ g.ret = "good" /\ ~Reported(g) /\ g.method = f.method
    BY <1>2, Moved, PlaceNames DEF Reported
  <2>3. /\ h \in Frame /\ h.at = "back" /\ h.mine = f.mine /\ h.own = f.own
        /\ h.ret = "negative" /\ Reported(h) /\ h.method = f.method
    BY <2>2, FailingFrame, PlaceNames DEF Reported
  <2>4. Set(t, NoChange, g) \/ Set(t, NoChange, h)
    BY <1>9 DEF NameCompared, f
  <2> HIDE DEF g, h
  <2>5. CASE Set(t, NoChange, g)
    BY <1>1, <2>1, <2>2, <2>5, ChangeTypes, LeavesBoard DEF f
  <2>6. CASE Set(t, NoChange, h)
    BY <1>1, <2>1, <2>3, <2>6, ChangeTypes, LeavesBoard DEF f
  <2>7. QED
    BY <2>4, <2>5, <2>6
<1>10. CASE gpib_aio_launch(t)
  <2> DEFINE g == Drop(Leaving(t, "exit"))
  <2>1. PICK errno \in Errnos : \E change \in do_aio(errno) : Set(t, change, g)
    BY <1>10 DEF gpib_aio_launch
  <2>2. PICK change \in Change : Set(t, change, g)
    BY <2>1, ErrorTypes, Inputs
  <2>3. At(t, "on_board") /\ board' = NoThread /\ Of(t).c # "ibfind"
    BY <1>10 DEF gpib_aio_launch, Asynchronous
  <2>4. /\ g \in Frame /\ g.at = "exit" /\ g.mine = f.mine /\ g.own = f.own
        /\ g.ret = "good" /\ ~Reported(g) /\ g.method = f.method
    BY <1>4, <2>3
  <2> HIDE DEF g
  <2>5. QED
    BY <1>1, <2>2, <2>3, <2>4, LeavesBoard DEF f
<1>11. CASE ibwait(t)
  <2> DEFINE g == Leaving(t, "back")
             h == Failing(g, "ERR")
             d == Drop(g)
  <2>1. At(t, "on_board") /\ board' = NoThread /\ Of(t).c = "ibwait"
    BY <1>11 DEF ibwait
  <2>2. PICK moved \in 0 .. Length :
          \/ Set(t, Numbers(iberr_code.EDVR, moved), g)
          \/ \E errno \in Errnos : \E change \in do_aio(errno) :
               \/ Set(t, Over(change, setIbcnt(moved)), h)
               \/ Set(t, Over(change, setIbcnt(moved)), d)
    BY <1>11 DEF ibwait
  <2>3. /\ g \in Frame /\ g.at = "back" /\ g.mine = f.mine /\ g.own = f.own
        /\ g.ret = "good" /\ ~Reported(g) /\ g.method = f.method
        /\ h \in Frame /\ h.at = "back" /\ h.mine = f.mine /\ h.own = f.own
        /\ h.ret = "ERR" /\ Reported(h) /\ h.method = f.method
        /\ d \in Frame /\ d.at = "back" /\ d.mine = f.mine /\ d.own = f.own
        /\ d.ret = "good" /\ ~Reported(d) /\ d.method = f.method
    BY <1>4, <2>1
  <2> HIDE DEF g, h, d
  <2>4. \E change \in Change : Set(t, change, g) \/ Set(t, change, h) \/ Set(t, change, d)
    <3>1. CASE Set(t, Numbers(iberr_code.EDVR, moved), g)
      <4>1. Numbers(iberr_code.EDVR, moved) \in Change
        BY CodeTypes, Inputs, ChangeTypes DEF Numbers, NumbersType
      <4>2. QED
        BY <3>1, <4>1
    <3>2. CASE \E errno \in Errnos : \E change \in do_aio(errno) :
                 \/ Set(t, Over(change, setIbcnt(moved)), h)
                 \/ Set(t, Over(change, setIbcnt(moved)), d)
      BY <3>2, Inputs, TakenOver
    <3>3. QED
      BY <2>2, <3>1, <3>2
  <2>5. PICK change \in Change : Set(t, change, g) \/ Set(t, change, h) \/ Set(t, change, d)
    BY <2>4
  <2>6. CASE Set(t, change, g)
    BY <1>1, <2>1, <2>3, <2>6, LeavesBoard DEF f
  <2>7. CASE Set(t, change, h)
    BY <1>1, <2>1, <2>3, <2>7, LeavesBoard DEF f
  <2>8. CASE Set(t, change, d)
    BY <1>1, <2>1, <2>3, <2>8, LeavesBoard DEF f
  <2>9. QED
    BY <2>5, <2>6, <2>7, <2>8
<1>12. CASE ibspb(t)
  <2> DEFINE g == Leaving(t, "exit")
             h == [g EXCEPT !.ret = "ERR"]
  <2>1. At(t, "on_board") /\ board' = NoThread /\ Of(t).c = "ibspb" /\ Set(t, NoChange, h)
    BY <1>12 DEF ibspb
  <2>2. /\ g \in Frame /\ g.at = "exit" /\ g.mine = f.mine /\ g.own = f.own
        /\ g.ret = "good" /\ g.method = f.method
    BY <1>4, <2>1
  <2> HIDE DEF g
  <2>3. /\ h \in Frame /\ h.at = "exit" /\ h.mine = f.mine /\ h.own = f.own
        /\ h.ret = "ERR" /\ h.method = f.method
    <3> DEFINE Names == DOMAIN gpib_methods
    <3>1. Frame = [at : Places, method : Names, failed : BOOLEAN, dropped : BOOLEAN,
                   ret : Rets, unlimited : BOOLEAN, mine : BOOLEAN, own : NumbersType,
                   told : ToldType]
      BY DEF Frame
    <3> HIDE DEF Names
    <3>2. "ERR" \in Rets
      BY PlaceNames
    <3>3. QED
      BY <2>2, <3>1, <3>2
  <2> HIDE DEF h
  <2>4. QED
    BY <1>1, <2>1, <2>3, ChangeTypes, LeavesBoard DEF f
<1>13. QED
  BY <1>5, <1>6, <1>7, <1>8, <1>9, <1>10, <1>11, <1>12

(* The exit from the library.                                                *)
LEMMA ExitStep ==
  ASSUME IInv, NEW t \in Threads, general_exit_library(t)
  PROVE  IInv'
<1> DEFINE f == frame[t]
           g == [f EXCEPT !.at = "back"]
           h == Failing(g, "ERR")
           d == Drop(g)
<1>1. At(t, "exit") /\ InCall(t) /\ UNCHANGED <<gil, board>>
  BY DEF general_exit_library, InCall, At
<1>2. /\ f \in Frame /\ OnItsWay(f, Of(t)) /\ f.at = "exit"
      /\ f.mine => f.own = thread_key
      /\ board # t /\ gpib_methods[f.method] = Of(t) /\ f.method \in DOMAIN gpib_methods
      /\ Of(t).c # "none" /\ Of(t).c # "ibfind"
  BY <1>1, UnderWay DEF OnItsWay, At, Of
<1>3. Of(t).c # "ibdev" => Of(t).fails # "negative"
  BY <1>2, Wrappers
<1>4. PICK change \in Change :
        \/ Set(t, change, g) \/ Set(t, change, d)
        \/ Of(t).c # "ibdev" /\ Set(t, change, h)
  <2>1. NoChange \in Change
    BY ChangeTypes
  <2>2. \A x \in {SystemError(e) : e \in Errnos} \union {setIberr(iberr_code.ECIC)} : x \in Change
    BY CodeTypes, ChangeTypes, Inputs
  <2>3. CASE Set(t, NoChange, g)
    BY <2>1, <2>3
  <2>4. CASE \E e \in Errnos : Set(t, SystemError(e), d)
    BY <2>2, <2>4
  <2>5. CASE \E x \in {SystemError(e) : e \in Errnos} \union {setIberr(iberr_code.ECIC)} :
               Set(t, x, IF Of(t).c = "ibdev" THEN d ELSE h)
    <3>1. PICK x \in Change : Set(t, x, IF Of(t).c = "ibdev" THEN d ELSE h)
      BY <2>2, <2>5
    <3>2. CASE Of(t).c = "ibdev"
      BY <3>1, <3>2
    <3>3. CASE Of(t).c # "ibdev"
      BY <3>1, <3>3
    <3>4. QED
      BY <3>2, <3>3
  <2>6. QED
    BY <2>3, <2>4, <2>5 DEF general_exit_library
<1> HIDE DEF f
<1>5. /\ g \in Frame /\ g.at = "back" /\ g.method = f.method /\ g.failed = f.failed
      /\ g.dropped = f.dropped /\ g.ret = f.ret /\ g.mine = f.mine /\ g.own = f.own
  BY <1>2, Moved, PlaceNames
<1>6. Reported(g) <=> Reported(f)
  BY <1>5 DEF Reported
<1> HIDE DEF g
<1>7. /\ h \in Frame /\ h.at = "back" /\ h.method = f.method /\ Reported(h)
      /\ h.ret = "ERR" /\ h.mine = f.mine /\ h.own = f.own
  BY <1>5, FailingFrame, PlaceNames DEF Reported
<1>8. /\ d \in Frame /\ d.at = "back" /\ d.method = f.method /\ (Reported(d) <=> Reported(f))
      /\ d.ret = f.ret /\ d.mine = f.mine /\ d.own = f.own
  BY <1>5, <1>6, DropFrame
<1> HIDE DEF h, d
<1>9. OnItsWay(g, Of(t)) /\ OnItsWay(d, Of(t)) /\ (Of(t).c # "ibdev" => OnItsWay(h, Of(t)))
  BY <1>2, <1>3, <1>5, <1>6, <1>7, <1>8 DEF OnItsWay
<1>10. gil' = gil /\ board' = board /\ board' # t
  BY <1>1, <1>2
<1>11. CASE Set(t, change, g)
  BY <1>1, <1>2, <1>5, <1>9, <1>10, <1>11, GoesOn DEF f
<1>12. CASE Set(t, change, d)
  BY <1>1, <1>2, <1>8, <1>9, <1>10, <1>12, GoesOn DEF f
<1>13. CASE Of(t).c # "ibdev" /\ Set(t, change, h)
  BY <1>1, <1>2, <1>7, <1>9, <1>10, <1>13, GoesOn DEF f
<1>14. QED
  BY <1>4, <1>11, <1>12, <1>13

(* What a function makes of a failure always has a reason with a meaning.     *)
LEMMA Answers ==
  ASSUME NEW f \in Frame, NEW wrapper, thread_key \in NumbersType, OnItsWay(f, wrapper),
         wrapper.fails = (IF wrapper.c \in {"ibfind", "ibdev"} THEN "negative" ELSE "ERR"),
         f.mine => f.own = thread_key
  PROVE  LET told == Answer(f, wrapper)
         IN  /\ told \in ToldType
             /\ Reported(f) => told.what = "raised"
             /\ told.what = "raised" => Reported(f) \/ wrapper.c = "ibspb"
             /\ f.mine =>
                  /\ told.what = "raised" =>
                       /\ told.iberr = f.own.iberr
                       /\ f.own.iberr = iberr_code.EDVR => told.ibcntl = f.own.ibcntl
                  /\ told.what = "value" /\ wrapper.gives = "bytes" =>
                       told.ibcntl = f.own.ibcntl
<1> DEFINE told == Answer(f, wrapper)
           key == thread_key
<1>1. key \in NumbersType /\ key.iberr \in Codes /\ key.ibcntl \in Nat
  BY DEF NumbersType
<1>2. f.ret \in {"good", "ERR", "negative"} /\ (wrapper.fails = "negative" => f.ret # "ERR")
  BY DEF Frame, Rets, OnItsWay
<1>3. Recognised(f.ret, wrapper.fails) <=> f.ret # "good"
  BY <1>2 DEF Recognised
<1>4. HasMeaning(key.iberr) /\ HasMeaning(key.iberr) = TRUE
  BY <1>1, CodeTypes DEF HasMeaning
<1>5. CASE f.ret # "good"
  <2> DEFINE numbers == IF key.iberr \in {iberr_code.EDVR, iberr_code.EFSO} THEN key
                        ELSE [key EXCEPT !.ibcntl = 0]
  <2>1. /\ numbers \in NumbersType /\ numbers.iberr = key.iberr
        /\ key.iberr = iberr_code.EDVR => numbers.ibcntl = key.ibcntl
    BY <1>1 DEF NumbersType
  <2>2. told = Told("raised", numbers)
    BY <1>3, <1>4, <1>5 DEF Answer, _SetGpibError
  <2> HIDE DEF numbers, told
  <2>3. told \in ToldType
    BY <2>1, <2>2, ToldTypes
  <2>4. /\ told.what = "raised" /\ told.iberr = key.iberr
        /\ key.iberr = iberr_code.EDVR => told.ibcntl = key.ibcntl
    BY <2>1, <2>2 DEF Told
  <2>5. QED
    BY <1>5, <2>3, <2>4 DEF told, OnItsWay
<1>6. CASE f.ret = "good"
  <2> DEFINE numbers == IF wrapper.gives = "bytes" THEN key ELSE Cleared
  <2>1. told = Told("value", numbers)
    BY <1>3, <1>6 DEF Answer
  <2>2. numbers \in NumbersType /\ (wrapper.gives = "bytes" => numbers = key)
    BY <1>1, IdleType
  <2> HIDE DEF numbers, told
  <2>3. told \in ToldType
    BY <2>1, <2>2, ToldTypes
  <2>4. told.what = "value" /\ (wrapper.gives = "bytes" => told.ibcntl = key.ibcntl)
    BY <2>1, <2>2 DEF Told
  <2>5. QED
    BY <1>6, <2>3, <2>4 DEF told, OnItsWay
<1>7. QED
  BY <1>5, <1>6

(* The call comes back. *)
LEMMA ReturnStep ==
  ASSUME IInv, NEW t \in Threads, Return(t)
  PROVE  IInv'
<1> DEFINE f == frame[t]
           told == Answer(f, Of(t))
           g == [f EXCEPT !.at = "python", !.ret = "good", !.told = told]
<1>1. At(t, "back") /\ InCall(t) /\ board' = board
      /\ gil = (IF Of(t).allow_threads THEN NoThread ELSE t) /\ gil' = t
      /\ Set(t, NoChange, g)
  BY DEF Return, InCall, At
<1>2. /\ f \in Frame /\ OnItsWay(f, Of(t)) /\ f.at = "back"
      /\ f.mine => f.own = thread_key
      /\ board # t /\ gpib_methods[f.method] = Of(t) /\ f.method \in DOMAIN gpib_methods
      /\ Of(t).c # "none" /\ thread_key \in NumbersType
  BY <1>1, UnderWay DEF OnItsWay, At, Of, IInv, TypeOK
<1>3. Of(t).fails = (IF Of(t).c \in {"ibfind", "ibdev"} THEN "negative" ELSE "ERR")
  BY <1>2, Wrappers
<1> HIDE DEF f
<1>4. /\ told \in ToldType
      /\ Reported(f) => told.what = "raised"
      /\ told.what = "raised" => Reported(f) \/ Of(t).c = "ibspb"
      /\ f.mine =>
           /\ told.what = "raised" =>
                /\ told.iberr = f.own.iberr
                /\ f.own.iberr = iberr_code.EDVR => told.ibcntl = f.own.ibcntl
           /\ told.what = "value" /\ Of(t).gives = "bytes" => told.ibcntl = f.own.ibcntl
  BY <1>2, <1>3, Answers
<1> HIDE DEF told
<1>5. "python" \in Places /\ "good" \in Rets
  BY PlaceNames
<1>6. /\ g \in Frame /\ g.at = "python" /\ g.method = f.method /\ g.failed = f.failed
      /\ g.dropped = f.dropped /\ g.mine = f.mine /\ g.own = f.own /\ g.told = told
  BY <1>2, <1>4, <1>5 DEF Frame
<1> HIDE DEF g
<1>7. Sound(g)
  BY <1>2, <1>4, <1>6 DEF Sound, IsOver, Reported
<1>8. gil \in {t, NoThread} /\ gil' \in {t, NoThread}
  BY <1>1
<1>9. NoChange \in Change
  BY ChangeTypes
<1>10. QED
  BY <1>1, <1>2, <1>6, <1>7, <1>8, <1>9, StepOf

(* Every step keeps the invariant.                                           *)
LEMMA NextInv == IInv /\ [Next]_vars => IInv'
<1>1. SUFFICES ASSUME IInv, [Next]_vars PROVE IInv'
  OBVIOUS
<1>2. ASSUME NEW t \in Threads, Step(t) PROVE IInv'
  BY <1>1, <1>2, EntrySteps, BoardSteps, ExitStep, ReturnStep DEF Step
<1>3. CASE UNCHANGED vars
  BY <1>1, <1>3 DEF vars, IInv, TypeOK, LocksHeld, InCall, At, Of
<1>4. QED
  BY <1>1, <1>2, <1>3, PythonSteps DEF Next

-----------------------------------------------------------------------------
(* The invariant holds in every run, whatever the threads call. *)
THEOREM PythonInvariance == Spec => []IInv
  BY InitInv, NextInv, PTL DEF Spec

(* The interpreter is kept through a call by the functions that do not give    *)
(* it up and by no other, and no two threads' ioctls are on the board.        *)
THEOREM PythonLocks ==
  Spec => [](LocksHeld /\ \A t, u \in Threads : At(t, "on_board") /\ At(u, "on_board") => t = u)
<1>1. IInv => LocksHeld /\ \A t, u \in Threads : At(t, "on_board") /\ At(u, "on_board") => t = u
  BY DEF IInv, LocksHeld
<1>2. QED
  BY <1>1, PythonInvariance, PTL

(* Python hears of every failure that the library reports, and of no other     *)
(* but what ibspb makes of a variable that it has not set: for every function *)
(* of the module, any number of threads.                                     *)
THEOREM FailuresAreHeard == Spec => []NoSilentFailure
<1>1. IInv => NoSilentFailure
  BY DEF IInv, Sound, IsOver, Reported, NoSilentFailure, InCall, At, Of
<1>2. QED
  BY <1>1, PythonInvariance, PTL

(* A call that no other thread's call has disturbed tells Python its own       *)
(* numbers, although they are read from a dictionary that all threads share.  *)
THEOREM NumbersAreOwn == Spec => []OwnNumbers
<1>1. IInv => OwnNumbers
  BY DEF IInv, Sound, IsOver, OwnNumbers, InCall, At, Of
<1>2. QED
  BY <1>1, PythonInvariance, PTL
==============================================================================
