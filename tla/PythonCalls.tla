----------------------------- MODULE PythonCalls -----------------------------
(***************************************************************************)
(* The Python extension (gpibinter.c) in a program of several threads, over *)
(* the C functions of cinterface.m and the library.                        *)
(*                                                                         *)
(* A function of the module calls one C function, most of them with the    *)
(* interpreter's lock (gil) given up.  The call enters the library, which   *)
(* clears iberr and ibcntl, sends ioctls to the board (one stands for all   *)
(* of them here) under m_big_gpib_mutex, and exits with a status query.     *)
(* Then the function reads iberr and ibcntl back, from thread_key: one      *)
(* dictionary for all threads.                                             *)
(***************************************************************************)
EXTENDS Integers

CONSTANTS
  Threads, NoThread,
  Methods,   \* for every thread, the names of the functions it calls
  Errnos,    \* values errno may have: nothing in the library sets it
  Length     \* bytes asked for by a read, or handed to a write

VARIABLES
  gil,         \* the thread that runs Python
  board,       \* the thread that holds m_big_gpib_mutex
  thread_key,  \* the library's iberr and ibcntl
  frame        \* for every thread, the call it is in, or its last one

vars == <<gil, board, thread_key, frame>>

iberr_code ==
  [EDVR |-> 0, ECIC |-> 1, ENOL |-> 2, EADR |-> 3, EARG |-> 4, ESAC |-> 5,
   EABO |-> 6, ENEB |-> 7, EDMA |-> 8, EOIP |-> 10, ECAP |-> 11, EFSO |-> 12,
   EBUS |-> 14, ESTB |-> 15, ESRQ |-> 16, ETAB |-> 20]
EINTR == 4
EIO == 5
EINVAL == 22
EPIPE == 32
ETIMEDOUT == 60

-----------------------------------------------------------------------------
(* The functions of the module: the C function, whether the interpreter's   *)
(* lock is given up for it, what is taken for a failure, what is given back. *)
AllowThreads(c) ==
  [c |-> c, allow_threads |-> TRUE, fails |-> "ERR", gives |-> "status"]
KeepInterpreter(c) == [AllowThreads(c) EXCEPT !.allow_threads = FALSE]
Query(gives) == [KeepInterpreter("none") EXCEPT !.fails = "never", !.gives = gives]

gpib_find == [AllowThreads("ibfind") EXCEPT !.fails = "negative", !.gives = "handle"]
gpib_dev == [AllowThreads("ibdev") EXCEPT !.fails = "negative", !.gives = "handle"]
gpib_ask == [KeepInterpreter("ibask") EXCEPT !.gives = "result"]
gpib_config == AllowThreads("ibconfig")
gpib_listener == [KeepInterpreter("ibln") EXCEPT !.gives = "found"]
gpib_read == [AllowThreads("ibrd") EXCEPT !.gives = "bytes"]
gpib_write == AllowThreads("ibwrt")
gpib_write_async == AllowThreads("ibwrta")
gpib_command == AllowThreads("ibcmd")
gpib_remote_enable == AllowThreads("ibsre")
ClearKeepsInterpreter == KeepInterpreter("ibclr")  \* mutant: ALLOW_THREADS forgotten
gpib_clear == AllowThreads("ibclr")
gpib_ibloc == AllowThreads("ibloc")
gpib_interface_clear == AllowThreads("ibsic")
gpib_close == AllowThreads("ibonl")
gpib_wait == AllowThreads("ibwait")
TimeoutTestsSign == [AllowThreads("ibtmo") EXCEPT !.fails = "negative"]  \* mutant: as for find
gpib_timeout == AllowThreads("ibtmo")
gpib_serial_poll == [AllowThreads("ibrsp") EXCEPT !.gives = "byte"]
gpib_spoll_bytes == [AllowThreads("ibspb") EXCEPT !.gives = "length"]
gpib_trigger == AllowThreads("ibtrg")
gpib_ibsta == Query("ibsta")
gpib_ibcnt == Query("ibcnt")
gpib_version == Query("version")

gpib_methods ==
  [find |-> gpib_find, ask |-> gpib_ask, dev |-> gpib_dev, config |-> gpib_config,
   listener |-> gpib_listener, read |-> gpib_read, write |-> gpib_write,
   write_async |-> gpib_write_async, command |-> gpib_command,
   remote_enable |-> gpib_remote_enable, clear |-> gpib_clear,
   interface_clear |-> gpib_interface_clear, close |-> gpib_close,
   wait |-> gpib_wait, timeout |-> gpib_timeout, serial_poll |-> gpib_serial_poll,
   spoll_bytes |-> gpib_spoll_bytes, trigger |-> gpib_trigger,
   ibsta |-> gpib_ibsta, ibcnt |-> gpib_ibcnt, ibloc |-> gpib_ibloc,
   version |-> gpib_version]

(* Every thread calls functions that the module has.                         *)
ASSUME PythonAssumption ==
  /\ NoThread \notin Threads
  /\ Methods \in [Threads -> SUBSET DOMAIN gpib_methods]
  /\ Errnos \subseteq Nat
  /\ Length \in Nat

Of(t) == gpib_methods[frame[t].method]

(* C functions whose transfer is made by another thread, which keeps its    *)
(* error to itself: ibwrta, and ibcmd, which calls ibcmda (and ibcmda calls  *)
(* ibcmd).                                                                   *)
Asynchronous == {"ibwrta", "ibcmd"}
Addressing == {"ibrd", "ibwrt", "ibwrta", "ibln", "ibclr", "ibloc", "ibtrg"}

(* C functions that do not look at the answer of some ioctl of theirs:       *)
(* set_timeout (IBTMO), the query of the board's address in create_send_setup *)
(* (IBBOARD_INFO), iblcleos (IBEOS), is_cic, which takes no answer for yes    *)
(* (IBWAIT), and a command cut short in the addressing of a transfer.        *)
Dropping == Addressing \union {"ibcmd", "ibrsp", "ibwait"}

-----------------------------------------------------------------------------
Numbers(iberr, ibcntl) == [iberr |-> iberr, ibcntl |-> ibcntl]
Cleared == Numbers(iberr_code.EDVR, 0)
setIberr(code) == [iberr |-> code]
setIbcnt(count) == [ibcntl |-> count]
NoChange == <<>>
Over(change, numbers) ==
  [name \in DOMAIN change \union DOMAIN numbers |->
     IF name \in DOMAIN change THEN change[name] ELSE numbers[name]]
Told(what, numbers) ==
  [what |-> what, iberr |-> numbers.iberr, ibcntl |-> numbers.ibcntl]
Nothing == Told("nothing", Cleared)

SystemError(errno) == Numbers(iberr_code.EDVR, errno)

(* What is made of an ioctl that fails: the switches look at errno.          *)
read_data(errno) ==
  IF errno = ETIMEDOUT THEN setIberr(iberr_code.EABO) ELSE SystemError(errno)
send_data(errno) ==
  IF errno \in {ETIMEDOUT, EINTR} THEN setIberr(iberr_code.EABO)
  ELSE IF errno = EIO THEN setIberr(iberr_code.ENOL) ELSE SystemError(errno)
my_ibcmd(errno) ==
  {setIberr(iberr_code.ECIC),
   IF errno = ETIMEDOUT THEN setIberr(iberr_code.EBUS) ELSE SystemError(errno)}

serial_poll(errno) ==
  IF errno = ETIMEDOUT THEN setIberr(iberr_code.EABO)
  ELSE IF errno = EPIPE THEN setIberr(iberr_code.ESTB) ELSE SystemError(errno)

(* The errors that a call returns: of its entry (open, IBMUTEX), of its work.  *)
(* A command that was cut short changes neither number.                      *)
WorkErrors(c, errno) ==
  {SystemError(errno)} \union
  (IF c \in Addressing \ Asynchronous THEN my_ibcmd(errno) ELSE {}) \union
  CASE c = "ibrd" -> {read_data(errno)}
    [] c = "ibwrt" -> {send_data(errno)}
    [] c = "ibrsp" -> {serial_poll(errno), setIberr(iberr_code.EARG)}
    [] c = "ibsre" -> {setIberr(iberr_code.ESAC)}
    [] c \in {"ibcmd", "ibwait"} -> {setIberr(iberr_code.EARG), setIberr(iberr_code.ECIC)}
    [] c \in {"ibclr", "ibtrg"} -> {NoChange, setIberr(iberr_code.EARG)}
    [] c = "ibloc" -> {NoChange}
    [] c \in {"ibln", "ibsic", "ibtmo"} -> {setIberr(iberr_code.EARG)}
    [] c \in {"ibask", "ibconfig"} -> {setIberr(iberr_code.EARG), setIberr(iberr_code.ECAP)}
    [] OTHER -> {}

(* Those of the thread of an asynchronous transfer, and those of the ioctls    *)
(* that nobody looks at.  An address that create_send_setup finds bad counts.  *)
do_aio(errno) == my_ibcmd(errno) \union {send_data(errno)}
DroppedErrors(errno) ==
  {NoChange, SystemError(errno), Numbers(iberr_code.EARG, 0)}

(* ibrd and ibwrt set ibcntl, to what was read and to what was to be        *)
(* written, unless they failed and iberr says EDVR.                          *)
Counted(c, change, failed, moved) ==
  IF c \notin {"ibrd", "ibwrt"}
     \/ (failed /\ Over(change, thread_key).iberr = iberr_code.EDVR)
  THEN change
  ELSE Over(setIbcnt(IF c = "ibrd" THEN moved ELSE Length), change)

-----------------------------------------------------------------------------
(* failed: something has gone wrong; dropped: the library has let all of it    *)
(* pass; own: what the call itself has made of iberr and ibcntl, from its entry *)
(* to the first change by another call (mine); told: what Python gets.       *)
Idle == [at |-> "python", method |-> "version", failed |-> FALSE, dropped |-> FALSE,
         ret |-> "good", unlimited |-> FALSE, mine |-> FALSE, own |-> Cleared,
         told |-> Nothing]

Init ==
  /\ gil = NoThread
  /\ board = NoThread
  /\ thread_key = Cleared
  /\ frame = [t \in Threads |-> Idle]

At(t, place) == frame[t].at = place
InCall(t) == ~At(t, "python")
Failing(f, ret) == [f EXCEPT !.failed = TRUE, !.dropped = FALSE, !.ret = ret]
Drop(f) == [f EXCEPT !.failed = TRUE, !.dropped = f.dropped \/ ~f.failed]

(* Thread t changes thread_key and goes on with frame f.                     *)
Set(t, change, f) ==
  /\ thread_key' = Over(change, thread_key)
  /\ frame' = [u \in Threads |->
                 IF u = t THEN [f EXCEPT !.own = IF f.mine THEN Over(change, @) ELSE @]
                 ELSE IF InCall(u) /\ change # NoChange
                 THEN [frame[u] EXCEPT !.mine = FALSE, !.own = Cleared]
                 ELSE frame[u]]

-----------------------------------------------------------------------------
(* The interpreter.                                                          *)
Run(t) ==
  /\ gil = NoThread /\ ~InCall(t)
  /\ gil' = t
  /\ UNCHANGED <<board, thread_key, frame>>

(* Its last call is of no interest to a thread that lets others run.         *)
Switch(t) ==
  /\ gil = t /\ ~InCall(t)
  /\ gil' = NoThread
  /\ Set(t, NoChange, Idle)
  /\ UNCHANGED board

Ask(t, method) ==
  /\ gil = t /\ ~InCall(t)
  /\ gpib_methods[method].c = "none"
  /\ Set(t, NoChange, [Idle EXCEPT !.method = method, !.told = Told("value", thread_key)])
  /\ UNCHANGED <<gil, board>>

Call(t, method) ==
  /\ gil = t /\ ~InCall(t)
  /\ gpib_methods[method].c # "none"
  /\ gil' = IF gpib_methods[method].allow_threads THEN NoThread ELSE t
  /\ Set(t, NoChange, [Idle EXCEPT !.method = method, !.at = "enter"])
  /\ UNCHANGED board

(* A read of a negative length ends in Python.                               *)
ReadNegative(t, method) ==
  /\ gil = t /\ ~InCall(t)
  /\ gpib_methods[method].c = "ibrd"
  /\ Set(t, NoChange, [Idle EXCEPT !.method = method, !.failed = TRUE,
                                   !.told = Told("raised", Cleared)])
  /\ UNCHANGED <<gil, board>>

-----------------------------------------------------------------------------
(* The library.  ibfind only asks the boards for their names.                *)
findBoardWithName(t) ==
  /\ At(t, "enter") /\ Of(t).c = "ibfind"
  /\ Set(t, NoChange, [frame[t] EXCEPT !.at = "ioctl"])
  /\ UNCHANGED <<gil, board>>

(* ibGetDescriptor refuses an address or finds the table full.               *)
ibGetDescriptor(t) ==
  /\ At(t, "enter") /\ Of(t).c = "ibdev"
  /\ \E code \in {iberr_code.ETAB, iberr_code.ENEB} :
       Set(t, setIberr(code), Failing([frame[t] EXCEPT !.at = "back"], "negative"))
  /\ UNCHANGED <<gil, board>>

(* ibonl of a device above the first: -1, and nothing else.                  *)
ibonl(t) ==
  /\ At(t, "enter") /\ Of(t).c = "ibonl"
  /\ Set(t, NoChange, Failing([frame[t] EXCEPT !.at = "back"], "negative"))
  /\ UNCHANGED <<gil, board>>

EnterKeepsCount(t) ==  \* mutant: ibcntl is not cleared
  /\ At(t, "enter") /\ Of(t).c # "ibfind"
  /\ frame' = [frame EXCEPT ![t].at = "ioctl", ![t].mine = TRUE]
  /\ thread_key' = Over(setIberr(iberr_code.EDVR), thread_key)
  /\ UNCHANGED <<gil, board>>

general_enter_library(t) ==
  /\ At(t, "enter") /\ Of(t).c # "ibfind"
  /\ Set(t, Cleared, [frame[t] EXCEPT !.at = "ioctl", !.mine = TRUE])
  /\ UNCHANGED <<gil, board>>

ibCheckDescriptor(t) ==
  /\ At(t, "enter") /\ Of(t).c \notin {"ibfind", "ibdev"}
  /\ Set(t, SystemError(EINVAL),
         Failing([frame[t] EXCEPT !.at = "back", !.mine = TRUE], "ERR"))
  /\ UNCHANGED <<gil, board>>

(* An ioctl waits for the board.  It ends by itself, except under a time     *)
(* limit of TNONE.                                                           *)
TimeLimited == Addressing \union {"ibcmd", "ibwait"}

PollHasNoLimit(t) ==  \* mutant: a serial poll is made under the descriptor's limit
  /\ At(t, "ioctl") /\ board = NoThread
  /\ board' = t
  /\ \E unlimited \in BOOLEAN :
       /\ unlimited => Of(t).c \in TimeLimited \union {"ibrsp"}
       /\ Set(t, NoChange, [frame[t] EXCEPT !.at = "on_board", !.unlimited = unlimited])
  /\ UNCHANGED gil

TakeBoard(t) ==
  /\ At(t, "ioctl") /\ board = NoThread
  /\ board' = t
  /\ \E unlimited \in BOOLEAN :
       /\ unlimited => Of(t).c \in TimeLimited
       /\ Set(t, NoChange, [frame[t] EXCEPT !.at = "on_board", !.unlimited = unlimited])
  /\ UNCHANGED gil

(* An ioctl fails and the call goes on.                                      *)
Unnoticed(t) ==
  /\ At(t, "on_board") /\ Of(t).c \in Dropping /\ ~frame[t].failed
  /\ \E errno \in Errnos : \E change \in DroppedErrors(errno) : Set(t, change, Drop(frame[t]))
  /\ UNCHANGED <<gil, board>>

(* ibfind and a wait that went well ask for no status.                       *)
Leaving(t, place) == [frame[t] EXCEPT !.at = place, !.unlimited = FALSE]

WorkDone(t) ==
  /\ At(t, "on_board") /\ Of(t).c # "ibfind"
  /\ board' = NoThread
  /\ \E moved \in 0 .. Length :
       Set(t, Counted(Of(t).c, NoChange, FALSE, moved),
           Leaving(t, IF Of(t).c = "ibwait" THEN "back" ELSE "exit"))
  /\ UNCHANGED gil

WorkFails(t) ==
  /\ At(t, "on_board") /\ Of(t).c # "ibfind"
  /\ board' = NoThread
  /\ \E errno \in Errnos, moved \in 0 .. Length :
     \E change \in WorkErrors(Of(t).c, errno) :
       Set(t, Counted(Of(t).c, change, TRUE, moved),
           Failing(Leaving(t, "exit"), IF Of(t).c = "ibdev" THEN "negative" ELSE "ERR"))
  /\ UNCHANGED gil

(* The transfer of an asynchronous call fails, after it was launched.         *)
gpib_aio_launch(t) ==
  /\ At(t, "on_board") /\ Of(t).c \in Asynchronous
  /\ board' = NoThread
  /\ \E errno \in Errnos : \E change \in do_aio(errno) :
       Set(t, change, Drop(Leaving(t, "exit")))
  /\ UNCHANGED gil

(* A wait that finds the transfer of another thread at its end takes over its  *)
(* numbers.  If it has failed, the wait answers ERR, unless the status of the  *)
(* call before says ERR already.                                             *)
ibwait(t) ==
  /\ At(t, "on_board") /\ Of(t).c = "ibwait"
  /\ board' = NoThread
  /\ \E moved \in 0 .. Length :
       \/ Set(t, Numbers(iberr_code.EDVR, moved), Leaving(t, "back"))
       \/ \E errno \in Errnos : \E change \in do_aio(errno) :
            \/ Set(t, Over(change, setIbcnt(moved)), Failing(Leaving(t, "back"), "ERR"))
            \/ Set(t, Over(change, setIbcnt(moved)), Drop(Leaving(t, "back")))
  /\ UNCHANGED gil

(* ibspb tests a variable that it has not set.                               *)
ibspb(t) ==
  /\ At(t, "on_board") /\ Of(t).c = "ibspb"
  /\ board' = NoThread
  /\ Set(t, NoChange, [Leaving(t, "exit") EXCEPT !.ret = "ERR"])
  /\ UNCHANGED gil

NameCompared(t) ==
  /\ At(t, "on_board") /\ Of(t).c = "ibfind"
  /\ board' = NoThread
  /\ \/ Set(t, NoChange, [frame[t] EXCEPT !.at = "back"])
     \/ Set(t, NoChange, Failing([frame[t] EXCEPT !.at = "back"], "negative"))
  /\ UNCHANGED gil

(* general_exit_library: the status query fails on its own account, and      *)
(* my_ibdev does not look at it.  The query's own is_cic may fail and be taken *)
(* for yes.                                                                  *)
general_exit_library(t) ==
  /\ At(t, "exit") /\ board = NoThread
  /\ LET back == [frame[t] EXCEPT !.at = "back"]
     IN \/ Set(t, NoChange, back)
        \/ \E e \in Errnos : Set(t, SystemError(e), Drop(back))
        \/ \E change \in {SystemError(e) : e \in Errnos} \union {setIberr(iberr_code.ECIC)} :
             Set(t, change, IF Of(t).c = "ibdev" THEN Drop(back) ELSE Failing(back, "ERR"))
  /\ UNCHANGED <<gil, board>>

-----------------------------------------------------------------------------
(* Back in the function: what it makes of the answer.                        *)
HasMeaning(code) == code \in {iberr_code[name] : name \in DOMAIN iberr_code}

_SetGpibError(numbers) ==
  Told(IF HasMeaning(numbers.iberr) THEN "raised" ELSE "unknown reason",
       IF numbers.iberr \in {iberr_code.EDVR, iberr_code.EFSO} THEN numbers
       ELSE [numbers EXCEPT !.ibcntl = 0])

(* -1 has the bit ERR too.                                                   *)
Recognised(ret, fails) == IF fails = "negative" THEN ret = "negative" ELSE ret # "good"

Answer(f, wrapper) ==
  IF Recognised(f.ret, wrapper.fails) THEN _SetGpibError(thread_key)
  ELSE Told("value", IF wrapper.gives = "bytes" THEN thread_key ELSE Cleared)

Return(t) ==
  /\ At(t, "back") /\ gil = IF Of(t).allow_threads THEN NoThread ELSE t
  /\ gil' = t
  /\ Set(t, NoChange, [frame[t] EXCEPT !.at = "python", !.ret = "good",
                                       !.told = Answer(frame[t], Of(t))])
  /\ UNCHANGED board

Step(t) ==
  \/ findBoardWithName(t) \/ ibGetDescriptor(t) \/ ibonl(t)
  \/ general_enter_library(t) \/ ibCheckDescriptor(t)
  \/ TakeBoard(t) \/ Unnoticed(t) \/ WorkDone(t) \/ WorkFails(t) \/ NameCompared(t)
  \/ gpib_aio_launch(t) \/ ibwait(t) \/ ibspb(t)
  \/ general_exit_library(t) \/ Return(t)

Next ==
  \E t \in Threads :
    \/ Run(t) \/ Switch(t) \/ Step(t)
    \/ \E method \in Methods[t] :
         Ask(t, method) \/ Call(t, method) \/ ReadNegative(t, method)

Spec == Init /\ [][Next]_vars

(* A thread in C goes on, unless its ioctl has no limit; whoever waits for   *)
(* the board or the interpreter gets it sooner or later, and the interpreter *)
(* lets other threads in every so often.                                     *)
FairSpec ==
  /\ Spec
  /\ \A t \in Threads :
       /\ SF_vars(~frame[t].unlimited /\ Step(t))
       /\ SF_vars(Run(t)) /\ SF_vars(Switch(t))

-----------------------------------------------------------------------------
(* A call that has entered the library, with no other thread's call between, *)
(* tells Python its own numbers and not those of the call before: the reason *)
(* and the errno of an exception, the number of bytes read.                  *)
OwnNumbers ==
  \A t \in Threads :
    LET f == frame[t]
    IN  ~InCall(t) /\ f.mine =>
          /\ f.told.what = "raised" =>
               /\ f.told.iberr = f.own.iberr
               /\ f.own.iberr = iberr_code.EDVR => f.told.ibcntl = f.own.ibcntl
          /\ f.told.what = "value" /\ Of(t).gives = "bytes" =>
               f.told.ibcntl = f.own.ibcntl

(* A function of the module raises an exception for every failure that the    *)
(* library reports to it, whatever form the C function gives its answer, and  *)
(* for no other; only spoll_bytes may raise one when nothing has failed.      *)
(* Silent are the failures that the library drops: those of the ioctls of     *)
(* Dropping, of a transfer that another thread makes, of is_cic in the status  *)
(* query of the exit, and of all of that query in ibdev.                     *)
NoSilentFailure ==
  \A t \in Threads :
    LET f == frame[t]
        reported == f.failed /\ ~f.dropped
        raised == f.told.what = "raised"
    IN  ~InCall(t) => /\ reported => raised
                      /\ raised => reported \/ Of(t).c = "ibspb"

(* Every call comes back, unless some call under TNONE waits for ever and    *)
(* keeps the board.                                                          *)
Stuck(t) == At(t, "on_board") /\ frame[t].unlimited /\ Of(t).c \in TimeLimited
EveryCallReturns ==
  \A t \in Threads : InCall(t) ~> ~InCall(t) \/ \E u \in Threads : Stuck(u)

(* Whoever has the interpreter hands it on, even while such a call waits for *)
(* ever: other threads go on running Python.  Only ask and listener, which   *)
(* keep the interpreter while they wait for the board, stop them all.        *)
InterpreterStuck ==
  \E t, u \in Threads : gil = t /\ InCall(t) /\ Of(t).c \in {"ibask", "ibln"} /\ Stuck(u)
PythonGoesOn == gil # NoThread ~> gil = NoThread \/ InterpreterStuck
=============================================================================
