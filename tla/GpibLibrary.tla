----------------------------- MODULE GpibLibrary -----------------------------
(***************************************************************************)
(* The calls of the library (gpib_visa.m, gpib_visa_internal.m) on one     *)
(* board, made by several threads of a program, down to the ioctls they    *)
(* send to the board's link thread (module GpibLink).                      *)
(*                                                                         *)
(* A call is a list of steps: enter the library (bring the descriptor      *)
(* online, look for asynchronous I/O, lock the board), do its work, exit   *)
(* (ask for the status, unlock).  One step reaches to the next ioctl or    *)
(* lock, so the steps of different threads interleave as the code's do.    *)
(* IBMUTEX, the ioctl behind "lock the board", does nothing (mutex_ioctl). *)
(* A step that fails drops the rest of "todo" and goes on with "last".     *)
(***************************************************************************)
EXTENDS Integers, Sequences, FiniteSets

CONSTANTS
  Pads, Sads, DescriptorLimit, MaxOpen, MaxStatusBytes,  \* as in GpibLink
  GPIB_MAX_NUM_BOARDS, \* the first descriptor of a device (16)
  MaxUd,               \* bound on the descriptors of the library
  Threads, Boot,       \* threads; the one that starts the library
  NoThread,            \* holds no mutex
  Openers,             \* the threads that call ibdev
  Uses,                \* for every thread, the descriptors it makes calls on
  Calls,               \* the calls the threads make
  DevicePads,          \* the addresses that ibdev and ibpad are called with
  SadArgs,             \* the addresses ibsad is called with (0x60 + sad)
  Timeouts             \* the time limits ibdev and ibtmo are called with

(* The calls that are modelled.                                              *)
LibraryCalls == {"ibrd", "ibwrt", "ibpad", "ibsad", "ibclr", "ibtrg", "ibrsp",
                 "ibloc", "ibtmo", "ibwait", "ibrda", "ibwrta", "ibstop", "ibonl"}
sad_offset == 96

ASSUME LibraryAssumption ==
  /\ GPIB_MAX_NUM_BOARDS \in Nat \ {0}
  /\ MaxUd \in Nat /\ MaxUd < MaxOpen
  /\ Boot \in Threads /\ Openers \subseteq Threads /\ NoThread \notin Threads
  /\ {0} \union DevicePads \union SadArgs \subseteq Pads /\ -sad_offset \in Sads
  /\ Calls \subseteq LibraryCalls /\ Timeouts \subseteq Nat
  \* LinkAssumption of GpibLink
  /\ Pads \subseteq Nat /\ Sads \subseteq Int /\ MaxOpen \in Nat
  /\ DescriptorLimit \in Nat \ {0} /\ MaxStatusBytes \in Nat \ {0}

VARIABLES
  m_descriptors, m_device_list, m_address, link_thread, raised, reply,
  usec_timeout,  \* the board's time limit
  bus,           \* who was last addressed to talk and to listen
  blind,         \* a command of the thread's call may not have addressed the bus
  ibConfigs,     \* the library's table of descriptors
  call,          \* the call each thread is in, or its last one
  known,         \* the descriptors that ibdev has returned
  aborted        \* an assert() or a nil pointer has ended the process

link == <<m_descriptors, m_device_list, m_address, link_thread, raised, reply>>
vars == <<link, usec_timeout, bus, blind, ibConfigs, call, known, aborted>>

Link == INSTANCE GpibLink

Uds == 0 .. MaxUd
Devices == GPIB_MAX_NUM_BOARDS .. MaxUd
NoConf == [handle |-> -2]
spoll_usec_timeout == 1000000

(* The address the library puts on the bus (packAddress, extractSAD).        *)
DeviceAt(conf) == Link!Address(conf.pad, conf.sad)
BoardAt == Link!Address(m_address.pad, m_address.sad)
Nobody == <<-1, -1>>

(* init_ibconf; lock is the thread that holds async->lock.                   *)
init_ibconf(pad, usec, is_interface) ==
  [handle |-> -1, pad |-> pad, sad |-> -sad_offset, usec_timeout |-> usec,
   is_interface |-> is_interface, board_is_open |-> FALSE, has_lock |-> FALSE,
   in_progress |-> FALSE, lock |-> NoThread]

-----------------------------------------------------------------------------
(* The calls.                                                                *)
general_enter_library(lock_board) ==
  <<"online">> \o (IF lock_board THEN <<"eoip", "assert", "lock">> ELSE <<>>)
enter_library == general_enter_library(TRUE)

ibstatus(status) == <<"own_cic", status>>

ExitKeepsLock(unlock_board) ==  \* mutant: the board is not unlocked
  ibstatus("status")

general_exit_library(unlock_board) ==
  ibstatus("status") \o (IF unlock_board THEN <<"unlock">> ELSE <<>>)

my_ibcmd(command) == <<"IBTMO", "cic", "IBTMO", command>>

my_ibrd(conf) ==
  (IF conf.is_interface THEN <<>> ELSE my_ibcmd("talk")) \o <<"IBTMO", "IBRD">>

my_ibwrt(conf) ==
  <<"IBTMO">> \o (IF conf.is_interface THEN <<>> ELSE my_ibcmd("listen"))
              \o <<"IBTMO", "IBWRT">>

(* gpib_aio_launch holds async->lock and waits for do_aio, which an error in *)
(* the transfer does not fail.                                               *)
gpib_aio_launch(body) == <<"aio_begin", "own_cic", "status_clear_CMPL">> \o body
EndOfAio == ibstatus("status_set_CMPL") \o <<"aio_end">>

Steps(todo, last) == [todo |-> todo, last |-> last]
Locked(body) == Steps(enter_library \o body, general_exit_library(TRUE))
Unlocked(body) == Steps(general_enter_library(FALSE) \o body,
                        general_exit_library(FALSE))

ibrd(conf) == Locked(my_ibrd(conf))
ibwrt(conf) == Locked(my_ibwrt(conf))
ibpad == Locked(<<"IBPAD", "IBSAD">>)
ibsad == ibpad
ibclr == Locked(my_ibcmd("listen"))  \* send_setup_string and SDC
ibtrg == Locked(my_ibcmd("listen"))  \* my_trigger: create_send_setup and GET
ibrsp == Locked(<<"IBTMO_spoll", "IBRSP">>)
ibloc(conf) == Steps(<<"online">> \o (IF conf.is_interface THEN <<>>
                       ELSE <<"assert", "lock">> \o my_ibcmd("listen")),
                     general_exit_library(TRUE))
ibtmo == Unlocked(<<"set_timeout">>)
ibwait == Unlocked(<<"own_cic", "wait">>)
ibrda(conf) == Steps(<<"online">> \o gpib_aio_launch(my_ibrd(conf)),
                     EndOfAio \o general_exit_library(FALSE))
ibwrta(conf) == Steps(<<"online">> \o gpib_aio_launch(my_ibwrt(conf)),
                      EndOfAio \o general_exit_library(FALSE))
ibstop == Steps(<<"online", "stop">>, ibstatus("status_set_CMPL"))
ibonl == Steps(<<"online", "stop", "assert", "lock">>,
               ibstatus("status_set_CMPL") \o <<"IBCLOSEDEV", "unlock_held">>)
ibdev == Steps(<<"insert">> \o enter_library,
               general_exit_library(TRUE) \o <<"return_ud">>)
configure_board == Steps(<<"online", "IBPAD", "IBSAD">>, <<"return_ud">>)

(* A board is not asked to do what is done to a device (EARG): it locks and  *)
(* unlocks only.                                                             *)
DeviceOnly == {"ibclr", "ibtrg", "ibrsp"}

StepsOf(op, conf) ==
  IF op \in DeviceOnly /\ conf.is_interface THEN Locked(<<>>)
  ELSE CASE op = "ibrd" -> ibrd(conf)   [] op = "ibwrt" -> ibwrt(conf)
         [] op = "ibpad" -> ibpad       [] op = "ibsad" -> ibsad
         [] op = "ibclr" -> ibclr       [] op = "ibtrg" -> ibtrg
         [] op = "ibrsp" -> ibrsp       [] op = "ibloc" -> ibloc(conf)
         [] op = "ibtmo" -> ibtmo       [] op = "ibwait" -> ibwait
         [] op = "ibrda" -> ibrda(conf) [] op = "ibwrta" -> ibwrta(conf)
         [] op = "ibstop" -> ibstop     [] op = "ibonl" -> ibonl

-----------------------------------------------------------------------------
NewCall(ud, pad, usec, steps) ==
  [ud |-> ud, pad |-> pad, usec |-> usec, todo |-> steps.todo, last |-> steps.last]

(* init and configure_board: no board is online, one thread starts it.       *)
Init ==
  /\ Link!Init
  /\ usec_timeout = 0
  /\ bus = [talk |-> Nobody, listen |-> Nobody]
  /\ blind = [t \in Threads |-> FALSE]
  /\ ibConfigs = [ud \in Uds |-> IF ud = 0 THEN init_ibconf(0, 3000000, TRUE)
                                 ELSE NoConf]
  /\ call = [t \in Threads |->
               NewCall(0, 0, 0,
                       IF t = Boot THEN configure_board ELSE Steps(<<>>, <<>>))]
  /\ known = {}
  /\ aborted = FALSE

Busy(t) == call[t].todo # <<>> \/ call[t].last # <<>>
Now(t) == IF call[t].todo # <<>> THEN Head(call[t].todo) ELSE Head(call[t].last)
At(t, step) == ~raised /\ ~aborted /\ Busy(t) /\ Now(t) = step
Conf(t) == ibConfigs[call[t].ud]
Interface(t) == Conf(t).is_interface

(* What is left of a call after a step, and after one that fails.            *)
Rest(c) ==
  IF c.todo # <<>> THEN [c EXCEPT !.todo = Tail(c.todo)]
  ELSE [c EXCEPT !.last = Tail(c.last)]
Exit(c) == IF c.todo # <<>> THEN [c EXCEPT !.todo = <<>>] ELSE Rest(c)

Advance(t) == call' = [call EXCEPT ![t] = Rest(@)]
Fail(t) == call' = [call EXCEPT ![t] = Exit(@)]

(* After an ioctl: the process may be gone, else the reply decides.          *)
Outcome(t) ==
  IF raised' THEN UNCHANGED call
  ELSE IF reply'.ret = "ok" THEN Advance(t) ELSE Fail(t)

Assign(t, conf) == ibConfigs' = [ibConfigs EXCEPT ![call[t].ud] = conf]

-----------------------------------------------------------------------------
(* The beginning of a call.                                                  *)
Ready(t) == ~raised /\ ~aborted /\ ~Busy(t) /\ 0 \in known

(* ibonl returns -1 at once, and changes nothing, for a descriptor above      *)
(* GPIB_MAX_NUM_BOARDS.                                                      *)
BeginCall(t, op, ud, pad, usec) ==
  /\ Ready(t)
  /\ op \in Calls
  /\ ud \in Uses[t] \intersect known
  /\ op = "ibonl" => ud <= GPIB_MAX_NUM_BOARDS
  /\ op = "ibpad" => pad \in DevicePads
  /\ op = "ibsad" => pad \in SadArgs
  /\ op \notin {"ibpad", "ibsad"} => pad = 0
  /\ IF op = "ibtmo" THEN usec \in Timeouts ELSE usec = 0
  /\ call' = [call EXCEPT ![t] = NewCall(ud, pad, usec, StepsOf(op, ibConfigs[ud]))]
  /\ blind' = [blind EXCEPT ![t] = FALSE]
  /\ UNCHANGED <<link, usec_timeout, bus, ibConfigs, known, aborted>>

(* insert_descriptor looks for a free entry here and fills it in the next    *)
(* step.                                                                     *)
Free == {ud \in Devices : ibConfigs[ud] = NoConf}

BeginIbdev(t, pad, usec) ==
  /\ Ready(t)
  /\ t \in Openers
  /\ \E ud \in Free :
       /\ \A other \in Free : ud <= other
       /\ call' = [call EXCEPT ![t] = NewCall(ud, pad, usec, ibdev)]
  /\ blind' = [blind EXCEPT ![t] = FALSE]
  /\ UNCHANGED <<link, usec_timeout, bus, ibConfigs, known, aborted>>

insert_descriptor(t) ==
  /\ At(t, "insert")
  /\ Assign(t, init_ibconf(call[t].pad, call[t].usec, FALSE))
  /\ Advance(t)
  /\ UNCHANGED <<link, usec_timeout, bus, blind, known, aborted>>

return_ud(t) ==
  /\ At(t, "return_ud")
  /\ known' = known \union {call[t].ud}
  /\ Advance(t)
  /\ UNCHANGED <<link, usec_timeout, bus, blind, ibConfigs, aborted>>

-----------------------------------------------------------------------------
(* Entering and leaving.                                                     *)
OnlineKeepsCount(t) ==  \* mutant: the number of descriptors is taken for the handle
  /\ At(t, "online")
  /\ IF Conf(t).board_is_open
     THEN UNCHANGED <<link, ibConfigs>>
     ELSE /\ Link!open_dev_ioctl(Conf(t).pad, Conf(t).sad, Interface(t))
          /\ Assign(t, [Conf(t) EXCEPT !.handle = Len(m_descriptors'),
                                       !.board_is_open = TRUE])
  /\ Advance(t)
  /\ UNCHANGED <<usec_timeout, bus, blind, known, aborted>>

conf_online(t) ==
  /\ At(t, "online")
  /\ IF Conf(t).board_is_open
     THEN UNCHANGED <<link, ibConfigs>>
     ELSE /\ Link!open_dev_ioctl(Conf(t).pad, Conf(t).sad, Interface(t))
          /\ Assign(t, [Conf(t) EXCEPT !.handle = reply'.handle, !.board_is_open = TRUE])
  /\ Advance(t)
  /\ UNCHANGED <<usec_timeout, bus, blind, known, aborted>>

(* The look for asynchronous I/O waits for async->lock.                      *)
LookForAio(t) ==
  /\ At(t, "eoip")
  /\ Conf(t).lock = NoThread
  /\ IF Conf(t).in_progress THEN Fail(t) ELSE Advance(t)
  /\ UNCHANGED <<link, usec_timeout, bus, blind, ibConfigs, known, aborted>>

(* conf_lock_board: its assert, and has_lock once the ioctl has returned.    *)
AssertUnlocked(t) ==
  /\ At(t, "assert")
  /\ IF Conf(t).has_lock THEN aborted' = TRUE /\ UNCHANGED call
     ELSE Advance(t) /\ UNCHANGED aborted
  /\ UNCHANGED <<link, usec_timeout, bus, blind, ibConfigs, known>>

conf_lock_board(t) ==
  /\ At(t, "lock")
  /\ Assign(t, [Conf(t) EXCEPT !.has_lock = TRUE])
  /\ Advance(t)
  /\ UNCHANGED <<link, usec_timeout, bus, blind, known, aborted>>

(* ibonl unlocks with conf_unlock_board's assert, the others if has_lock.    *)
conf_unlock_board(t) ==
  /\ At(t, "unlock") \/ At(t, "unlock_held")
  /\ IF Now(t) = "unlock_held" /\ ~Conf(t).has_lock
     THEN aborted' = TRUE /\ UNCHANGED <<ibConfigs, call>>
     ELSE /\ Assign(t, [Conf(t) EXCEPT !.has_lock = FALSE])
          /\ Advance(t)
          /\ UNCHANGED aborted
  /\ UNCHANGED <<link, usec_timeout, bus, blind, known>>

(* is_cic asks on handle 0; my_wait asks it for a device only.  A BOOL takes *)
(* the answer of an IBWAIT that fails, -1, and that is not NO: the call goes  *)
(* on.  "Not in charge" (ECIC) ends a command at once; where my_wait asked,   *)
(* the answer is chosen in its own step.                                      *)
is_cic(t) ==
  /\ At(t, "cic") \/ At(t, "own_cic")
  /\ \/ Now(t) = "own_cic" /\ Interface(t) /\ Advance(t) /\ UNCHANGED link
     \/ /\ Now(t) = "own_cic" => ~Interface(t)
        /\ Link!wait_ioctl(0, "none")
        /\ \/ raised' /\ UNCHANGED call
           \/ ~raised' /\ Advance(t)
           \/ ~raised' /\ reply'.ret = "ok" /\ Now(t) = "cic" /\ Fail(t)
  /\ UNCHANGED <<usec_timeout, bus, blind, ibConfigs, known, aborted>>

(* ibstatus answers with a status, ERR in it or not, never with a failure:    *)
(* a call goes on whether its board was in charge and the ioctl worked.       *)
my_wait(t) ==
  /\ \/ At(t, "status") /\ Link!wait_ioctl(Conf(t).handle, "none")
     \/ At(t, "status_set_CMPL") /\ Link!wait_ioctl(Conf(t).handle, "set_CMPL")
     \/ At(t, "status_clear_CMPL") /\ Link!wait_ioctl(Conf(t).handle, "clear_CMPL")
  /\ IF raised' THEN UNCHANGED call ELSE Advance(t)
  /\ UNCHANGED <<usec_timeout, bus, blind, ibConfigs, known, aborted>>

StatusOutOfCharge(t) ==  \* my_wait's return when is_cic said NO
  /\ At(t, "status") \/ At(t, "status_set_CMPL") \/ At(t, "status_clear_CMPL")
  /\ ~Interface(t)
  /\ Advance(t)
  /\ UNCHANGED <<link, usec_timeout, bus, blind, ibConfigs, known, aborted>>

-----------------------------------------------------------------------------
(* The work of a call.                                                       *)
set_timeout(t) ==
  /\ At(t, "IBTMO") \/ At(t, "IBTMO_spoll")
  /\ usec_timeout' = IF Now(t) = "IBTMO" THEN Conf(t).usec_timeout
                     ELSE spoll_usec_timeout
  /\ Advance(t)
  /\ UNCHANGED <<link, bus, blind, ibConfigs, known, aborted>>

(* IBCMD with bytes that address the bus in stages.  A command that fails,   *)
(* and one the adapter cuts short and answers for without an error (the      *)
(* setups ask for < 0 only), can stop at any of them.  The call knows        *)
(* nothing of the latter and goes on blind.                                  *)
CommandTakenForDone(t, stages) ==  \* mutant: a command that fails is taken for done
  /\ Link!transfer_ioctl(Conf(t).handle)
  /\ IF raised' THEN UNCHANGED call ELSE Advance(t)
  /\ bus' \in {bus, stages[Len(stages)]}
  /\ UNCHANGED blind

Command(t, stages) ==
  LET done == reply'.ret = "ok" /\ ~raised'
      short == {bus} \union {stages[i] : i \in 1 .. Len(stages) - 1}
  IN  /\ Link!transfer_ioctl(Conf(t).handle)
      /\ Outcome(t)
      /\ \/ done /\ bus' = stages[Len(stages)] /\ UNCHANGED blind
         \/ done /\ bus' \in short /\ blind' = [blind EXCEPT ![t] = TRUE]
         \/ ~done /\ bus' \in short \union {stages[Len(stages)]} /\ UNCHANGED blind

(* create_send_setup: the board's talk address, unlisten, the device.  It    *)
(* makes an empty command of an address above 30, which is not valid, and of *)
(* a question for the board's own address that fails.  The empty command     *)
(* succeeds: it is cut short before its first stage.                         *)
send_setup(t) ==
  /\ At(t, "listen")
  /\ IF Conf(t).pad > Link!gpib_addr_max
     THEN /\ Link!transfer_ioctl(Conf(t).handle)
          /\ Outcome(t)
          /\ blind' = [blind EXCEPT ![t] = TRUE]
          /\ UNCHANGED bus
     ELSE Command(t, <<[bus EXCEPT !.talk = BoardAt],
                       [talk |-> BoardAt, listen |-> Nobody],
                       [talk |-> BoardAt, listen |-> DeviceAt(Conf(t))]>>)
  /\ UNCHANGED <<usec_timeout, ibConfigs, known, aborted>>

(* InternalReceiveSetup gives up in these cases, before it has sent anything;*)
(* its command: unlisten, the board's listen address, the device.            *)
InternalReceiveSetup(t) ==
  /\ At(t, "talk")
  /\ \/ Fail(t) /\ UNCHANGED <<link, bus, blind>>
     \/ /\ Conf(t).pad <= Link!gpib_addr_max
        /\ Command(t, <<[bus EXCEPT !.listen = Nobody],
                        [bus EXCEPT !.listen = BoardAt],
                        [talk |-> DeviceAt(Conf(t)), listen |-> BoardAt]>>)
  /\ UNCHANGED <<usec_timeout, ibConfigs, known, aborted>>

Transfer(t) ==
  /\ At(t, "IBRD") \/ At(t, "IBWRT")
  /\ Link!transfer_ioctl(Conf(t).handle)
  /\ Outcome(t)
  /\ UNCHANGED <<usec_timeout, bus, blind, ibConfigs, known, aborted>>

(* A poll leaves no device a talker and the board the listener.              *)
serial_poll(t) ==
  /\ At(t, "IBRSP")
  /\ Link!serial_poll_ioctl(Conf(t).pad, Conf(t).sad)
  /\ bus' \in {bus, [talk |-> Nobody, listen |-> BoardAt]}
  /\ Outcome(t)
  /\ UNCHANGED <<usec_timeout, blind, ibConfigs, known, aborted>>

(* gpibi_change_address: IBPAD, IBSAD, and then the settings.  ibsad hands   *)
(* its argument over as the primary address.                                 *)
ChangePrimary(t) ==
  /\ At(t, "IBPAD")
  /\ Link!pad_ioctl(Conf(t).handle, call[t].pad)
  /\ Outcome(t)
  /\ UNCHANGED <<usec_timeout, bus, blind, ibConfigs, known, aborted>>

ChangeSecondary(t) ==
  /\ At(t, "IBSAD")
  /\ Link!sad_ioctl(Conf(t).handle, Conf(t).sad)
  /\ Outcome(t)
  /\ IF reply'.ret = "ok" /\ ~raised'
     THEN Assign(t, [Conf(t) EXCEPT !.pad = call[t].pad])
     ELSE UNCHANGED ibConfigs
  /\ UNCHANGED <<usec_timeout, bus, blind, known, aborted>>

internal_ibtmo(t) ==
  /\ At(t, "set_timeout")
  /\ Assign(t, [Conf(t) EXCEPT !.usec_timeout = call[t].usec])
  /\ Advance(t)
  /\ UNCHANGED <<link, usec_timeout, bus, blind, known, aborted>>

close_gpib_handle(t) ==
  /\ At(t, "IBCLOSEDEV")
  /\ IF Conf(t).handle < 0
     THEN Advance(t) /\ UNCHANGED <<link, ibConfigs>>
     ELSE /\ Link!close_dev_ioctl(Conf(t).handle)
          /\ Outcome(t)
          /\ IF reply'.ret = "ok" /\ ~raised'
             THEN Assign(t, [Conf(t) EXCEPT !.handle = -1])
             ELSE UNCHANGED ibConfigs
  /\ UNCHANGED <<usec_timeout, bus, blind, known, aborted>>

-----------------------------------------------------------------------------
(* Asynchronous I/O.                                                         *)
AioBegin(t) ==
  /\ At(t, "aio_begin")
  /\ Conf(t).lock = NoThread
  /\ Assign(t, [Conf(t) EXCEPT !.lock = t, !.in_progress = TRUE])
  /\ Advance(t)
  /\ UNCHANGED <<link, usec_timeout, bus, blind, known, aborted>>

AioEnd(t) ==
  /\ At(t, "aio_end")
  /\ Assign(t, [Conf(t) EXCEPT !.lock = NoThread, !.in_progress = FALSE])
  /\ Advance(t)
  /\ UNCHANGED <<link, usec_timeout, bus, blind, known, aborted>>

StopKeepsLock(t) ==  \* mutant: the early return forgets to unlock
  /\ At(t, "stop")
  /\ Conf(t).lock = NoThread
  /\ Assign(t, [Conf(t) EXCEPT !.lock = t])
  /\ Advance(t)
  /\ UNCHANGED <<link, usec_timeout, bus, blind, known, aborted>>

(* internal_ibstop waits for async->lock.  With I/O in progress and its      *)
(* thread gone it would return without unlocking.                            *)
internal_ibstop(t) ==
  /\ At(t, "stop")
  /\ Conf(t).lock = NoThread
  /\ Assign(t, [Conf(t) EXCEPT !.lock = IF Conf(t).in_progress THEN t ELSE NoThread])
  /\ Advance(t)
  /\ UNCHANGED <<link, usec_timeout, bus, blind, known, aborted>>

(* ibwait reads in_progress without the lock; then it waits for the lock to  *)
(* collect the result.  Its exit does not ask for the status again.          *)
IbwaitAnswer(t) ==
  /\ At(t, "wait")
  /\ \/ ~Interface(t) /\ Fail(t) /\ UNCHANGED link  \* is_cic said NO
     \/ /\ Link!wait_ioctl(Conf(t).handle, "none")
        /\ IF reply'.ret = "ok" /\ ~raised'
           THEN call' = [call EXCEPT ![t].todo = <<>>,
                  ![t].last = IF Conf(t).in_progress /\ reply'.cmpl
                              THEN <<"collect">> ELSE <<>>]
           ELSE Outcome(t)
  /\ UNCHANGED <<usec_timeout, bus, blind, ibConfigs, known, aborted>>

CollectAio(t) ==
  /\ At(t, "collect")
  /\ Conf(t).lock = NoThread
  /\ Assign(t, [Conf(t) EXCEPT !.in_progress = FALSE])
  /\ Advance(t)
  /\ UNCHANGED <<link, usec_timeout, bus, blind, known, aborted>>

-----------------------------------------------------------------------------
Step(t) ==
  \/ insert_descriptor(t) \/ return_ud(t)
  \/ conf_online(t) \/ LookForAio(t) \/ AssertUnlocked(t) \/ conf_lock_board(t)
  \/ conf_unlock_board(t) \/ is_cic(t) \/ my_wait(t) \/ StatusOutOfCharge(t)
  \/ set_timeout(t) \/ send_setup(t) \/ InternalReceiveSetup(t) \/ Transfer(t)
  \/ serial_poll(t) \/ ChangePrimary(t) \/ ChangeSecondary(t) \/ internal_ibtmo(t)
  \/ close_gpib_handle(t)
  \/ AioBegin(t) \/ AioEnd(t) \/ internal_ibstop(t) \/ IbwaitAnswer(t) \/ CollectAio(t)

Begin(t) ==
  \/ \E op \in Calls, ud \in Uses[t], pad \in {0} \union DevicePads \union SadArgs,
        usec \in {0} \union Timeouts : BeginCall(t, op, ud, pad, usec)
  \/ \E pad \in DevicePads, usec \in Timeouts : BeginIbdev(t, pad, usec)

Next == \E t \in Threads : Begin(t) \/ Step(t)

Spec == Init /\ [][Next]_vars

(* A thread goes on with its call; one that waits for a mutex gets it sooner *)
(* or later when it is free again and again (pthread mutexes).               *)
FairSpec == Spec /\ \A t \in Threads : SF_vars(Step(t))

-----------------------------------------------------------------------------
(* conf_lock_board asserts that its descriptor is not locked yet, and        *)
(* conf_unlock_board that it is: no path through a call, nor any failing     *)
(* ioctl, leaves has_lock behind, so that the program's next call on the     *)
(* descriptor would end the process.                                         *)
NoAbort == ~aborted

(* No call makes the link thread index its table of descriptors with a       *)
(* handle that is not one ("gpib: invalid handle" is the answer meant for    *)
(* those): each descriptor's handle stays good while others are opened,      *)
(* shared and moved to other addresses.                                      *)
NoRaise == ~raised

(* A descriptor no call is using has neither the board's lock nor the lock   *)
(* of its asynchronous I/O held, and no I/O in progress: the early returns   *)
(* of internal_ibstop, gpib_aio_launch and ibwait give back what they take.  *)
LocksComeBack ==
  \A ud \in Uds :
    (ibConfigs[ud] # NoConf /\ \A t \in Threads : Busy(t) => call[t].ud # ud) =>
      /\ ~ibConfigs[ud].has_lock /\ ~ibConfigs[ud].in_progress
      /\ ibConfigs[ud].lock = NoThread

(* When the data of a read or a write moves, the board has the time limit of *)
(* this very descriptor and the bus is addressed for its device, whatever    *)
(* the calls in between on other descriptors of the board did, and failed to *)
(* do, to both.  The addressing is not promised to a call whose command was  *)
(* cut short, or empty, without an error (blind).                            *)
OwnBus ==
  \A t \in Threads :
    /\ At(t, "IBRD") \/ At(t, "IBWRT") => usec_timeout = Conf(t).usec_timeout
    /\ At(t, "IBRD") /\ ~Interface(t) /\ ~blind[t] => bus.talk = DeviceAt(Conf(t))
    /\ At(t, "IBWRT") /\ ~Interface(t) /\ ~blind[t] => bus.listen = DeviceAt(Conf(t))

(* Every call returns, also when several threads use one descriptor: the     *)
(* asynchronous calls, which take turns at async->lock, cannot block each    *)
(* other for good.                                                           *)
EveryCallReturns == \A t \in Threads : Busy(t) ~> ~Busy(t)

=============================================================================
