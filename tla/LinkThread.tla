------------------------------ MODULE LinkThread ------------------------------
(***************************************************************************)
(* The thread behind every board (gpib_link.m) and how the calls of other   *)
(* threads reach it: a caller looks whether the thread is running, takes    *)
(* m_big_gpib_mutex, hands its request to the thread's run loop and waits.  *)
(* The thread brings its board online and offline (attach and detach of    *)
(* Agilent_82357_AB.m, under the one hotplug_lock of all boards) and ends   *)
(* when close cancels it.  What a request does to the bus is the business   *)
(* of BusIO; here it matters that the driver enters the run loop again      *)
(* while it waits, where another request could be started.                  *)
(***************************************************************************)
EXTENDS Naturals, Sequences, SequencesExt

CONSTANTS
  Boards, Threads,
  Uses,       \* for every thread, the boards it calls
  Calls,      \* for every thread, the kinds of calls it makes
  Nobody      \* holds no mutex

(* Kinds of requests: an ioctl whose wait for the bus ends in time, one without *)
(* a limit (IBWAIT of no time, a transfer under TNONE, for which osStartTimer  *)
(* starts no timer), the ioctl IBONL, and what ibopen, ibclose, ibname and      *)
(* close hand over.                                                          *)
Ioctls == {"ioctl", "unlimited"}
Kinds == Ioctls \union {"IBONL", "ibonline", "iboffline", "getBoardName", "cancelThread"}

ASSUME ThreadAssumption ==
  /\ Uses \in [Threads -> SUBSET Boards]
  /\ Calls \in [Threads -> SUBSET Kinds]
  /\ Nobody \notin Boards \union Threads

VARIABLES
  isExecuting,   \* of the board's thread
  isCancelled,
  m_big_gpib_mutex,
  posted,        \* requests handed to the board's thread and not yet started
  serving,       \* the requests it has started, the innermost last
  online,        \* of the board
  bus_interface, \* whether the driver holds the USB interface
  hotplug_lock,  \* the board whose thread holds it
  caller         \* where each of the other threads is

vars == <<isExecuting, isCancelled, m_big_gpib_mutex, posted, serving, online,
          bus_interface, hotplug_lock, caller>>

board_state == <<online, bus_interface, hotplug_lock>>
thread_state == <<isExecuting, isCancelled>>

Away == [at |-> "away", board |-> Nobody, kind |-> "none"]

(* init_gpib_link waits until the thread runs.                               *)
Init ==
  /\ isExecuting = [b \in Boards |-> TRUE]
  /\ isCancelled = [b \in Boards |-> FALSE]
  /\ m_big_gpib_mutex = [b \in Boards |-> Nobody]
  /\ posted = [b \in Boards |-> <<>>]
  /\ serving = [b \in Boards |-> <<>>]
  /\ online = [b \in Boards |-> FALSE]
  /\ bus_interface = [b \in Boards |-> FALSE]
  /\ hotplug_lock = Nobody
  /\ caller = [t \in Threads |-> Away]

-----------------------------------------------------------------------------
(* The calling threads: ioctl, ibopen, ibclose, ibname and close.            *)
At(t, place) == caller[t].at = place
GoesTo(t, place) == caller' = [caller EXCEPT ![t].at = place]
Leaves(t) == caller' = [caller EXCEPT ![t] = Away]

(* A call on a board whose thread has ended comes back at once; close goes on *)
(* to clean up.                                                              *)
Look(t, b, kind) ==
  /\ At(t, "away") /\ b \in Uses[t] /\ kind \in Calls[t]
  /\ isExecuting[b] \/ kind = "cancelThread"
  /\ caller' = [caller EXCEPT ![t] = [at |-> IF isExecuting[b] THEN "looked" ELSE "ended",
                                      board |-> b, kind |-> kind]]
  /\ UNCHANGED <<thread_state, m_big_gpib_mutex, posted, serving, board_state>>

Hand(t, b) ==
  /\ posted' = [posted EXCEPT ![b] = Append(@, [kind |-> caller[t].kind, by |-> t,
                                               step |-> "start"])]
  /\ GoesTo(t, "waiting")
  /\ UNCHANGED <<thread_state, serving, board_state>>

PostUnlocked(t) ==  \* mutant: the mutex is not taken
  At(t, "looked") /\ Hand(t, caller[t].board) /\ UNCHANGED m_big_gpib_mutex

Post(t) ==
  LET b == caller[t].board
  IN  /\ At(t, "looked")
      /\ m_big_gpib_mutex[b] = Nobody
      /\ m_big_gpib_mutex' = [m_big_gpib_mutex EXCEPT ![b] = t]
      /\ Hand(t, b)

After(t) == IF caller[t].kind = "cancelThread" THEN GoesTo(t, "cancelled") ELSE Leaves(t)

ReturnLocked(t) ==  \* mutant: the mutex is kept
  /\ At(t, "served")
  /\ After(t)
  /\ UNCHANGED <<m_big_gpib_mutex, thread_state, posted, serving, board_state>>

Return(t) ==
  /\ At(t, "served")
  /\ m_big_gpib_mutex' = [m_big_gpib_mutex EXCEPT ![caller[t].board] = Nobody]
  /\ After(t)
  /\ UNCHANGED <<thread_state, posted, serving, board_state>>

(* The rest of close: it waits for the end of the thread, then cleans up the  *)
(* open devices (cleanup_open_devices of GpibLink).                          *)
CloseWaits(t) ==
  /\ At(t, "cancelled") /\ ~isExecuting[caller[t].board]
  /\ GoesTo(t, "ended")
  /\ UNCHANGED <<thread_state, m_big_gpib_mutex, posted, serving, board_state>>

close(t) ==
  /\ At(t, "ended")
  /\ Leaves(t)
  /\ UNCHANGED <<thread_state, m_big_gpib_mutex, posted, serving, board_state>>

Caller(t) ==
  \/ \E b \in Boards, kind \in Kinds : Look(t, b, kind)
  \/ Post(t) \/ Return(t) \/ CloseWaits(t) \/ close(t)

-----------------------------------------------------------------------------
(* The board's thread.  Its run loop starts a posted request, at the outside   *)
(* or from within a request that waits for the adapter.                      *)
Idle(b) == serving[b] = <<>>
InRunLoopForEver(b) ==  \* mutant: linkThread does not look at isCancelled
  IF Idle(b) THEN TRUE ELSE Last(serving[b]).step \in {"transfer", "setup", "standby"}
InRunLoop(b) ==
  IF Idle(b) THEN ~isCancelled[b]
  ELSE Last(serving[b]).step \in {"transfer", "setup", "standby"}

Start(b) ==
  /\ isExecuting[b] /\ InRunLoop(b) /\ posted[b] # <<>>
  /\ serving' = [serving EXCEPT ![b] = Append(@, Head(posted[b]))]
  /\ posted' = [posted EXCEPT ![b] = Tail(@)]
  /\ UNCHANGED <<thread_state, m_big_gpib_mutex, board_state, caller>>

LinkThreadEnds(b) ==
  /\ isExecuting[b] /\ Idle(b) /\ isCancelled[b]
  /\ isExecuting' = [isExecuting EXCEPT ![b] = FALSE]
  /\ UNCHANGED <<isCancelled, m_big_gpib_mutex, posted, serving, board_state, caller>>

Request(b) == Last(serving[b])
Doing(b, step, kinds) == ~Idle(b) /\ Request(b).step = step /\ Request(b).kind \in kinds
Onward(b, step) ==
  /\ serving' = [serving EXCEPT ![b][Len(serving[b])].step = step]
  /\ UNCHANGED <<thread_state, m_big_gpib_mutex, posted, caller>>
Done(b) ==
  /\ serving' = [serving EXCEPT ![b] = Front(@)]
  /\ caller' = [caller EXCEPT ![Request(b).by].at = "served"]
  /\ UNCHANGED <<m_big_gpib_mutex, posted>>

(* An ioctl for an offline board is said to be invalid and then done all the  *)
(* same; the driver refuses to move anything without its interface.          *)
ibioctl(b) ==
  \/ /\ Doing(b, "start", Ioctls)
     /\ bus_interface[b]
     /\ Onward(b, "transfer")
     /\ UNCHANGED board_state
  \/ /\ \/ Doing(b, "transfer", {"ioctl"})
        \/ Doing(b, "start", Ioctls) /\ ~bus_interface[b]
        \/ Doing(b, "start", {"getBoardName"})
     /\ Done(b)
     /\ UNCHANGED <<board_state, thread_state>>

(* An ioctl without a limit ends when the bus does what it waits for, if ever. *)
UnlimitedEnds(b) ==
  /\ Doing(b, "transfer", {"unlimited"})
  /\ Done(b)
  /\ UNCHANGED <<board_state, thread_state>>

-----------------------------------------------------------------------------
(* attach: each way in which it fails, with what it has done up to there.     *)
SetInterface(b, held) == bus_interface' = [bus_interface EXCEPT ![b] = held]
UnlockHotplug == hotplug_lock' = Nobody
AttachFails(b) == Onward(b, "detach")

ibonline(b) ==
  /\ Doing(b, "start", {"IBONL", "ibonline"})
  /\ \/ online[b] /\ Done(b) /\ UNCHANGED <<board_state, thread_state>>  \* -EBUSY
     \/ /\ ~online[b]
        /\ Onward(b, "attach") \/ AttachFails(b)  \* no list of USB devices
        /\ SetInterface(b, FALSE)
        /\ UNCHANGED <<online, hotplug_lock>>

attach(b) ==
  /\ Doing(b, "attach", {"IBONL", "ibonline"})
  /\ hotplug_lock = Nobody
  /\ hotplug_lock' = b
  /\ Onward(b, "search")
  /\ UNCHANGED <<online, bus_interface>>

(* The search ends without an adapter, returns at once when the list of USB   *)
(* devices is gone after a firmware download, or selects the interface of the *)
(* adapter, for which there may be no memory.                                *)
Search(b) ==
  /\ Doing(b, "search", {"IBONL", "ibonline"})
  /\ \/ AttachFails(b) /\ UnlockHotplug /\ UNCHANGED <<online, bus_interface>>
     \/ AttachFails(b) /\ UNCHANGED board_state
     \/ AttachFails(b) /\ UnlockHotplug /\ SetInterface(b, TRUE) /\ UNCHANGED online
     \/ Onward(b, "setup") /\ SetInterface(b, TRUE) /\ UNCHANGED <<online, hotplug_lock>>

(* setup_urbs and init_interface talk to the adapter.                        *)
AttachKeepsInterface(b) ==  \* mutant: ibonline does not detach
  /\ Doing(b, "setup", {"IBONL", "ibonline"})
  /\ UnlockHotplug
  /\ \E works \in BOOLEAN : online' = [online EXCEPT ![b] = works]
  /\ Done(b)
  /\ UNCHANGED <<bus_interface, thread_state>>

SetUp(b) ==
  /\ Doing(b, "setup", {"IBONL", "ibonline"})
  /\ UnlockHotplug
  /\ \/ Done(b) /\ online' = [online EXCEPT ![b] = TRUE]
        /\ UNCHANGED <<bus_interface, thread_state>>
     \/ AttachFails(b) /\ UNCHANGED <<online, bus_interface>>

(* detach unlocks hotplug_lock when it begins and when it ends, whoever holds  *)
(* it.  Requests that take the board offline end with it; close then cancels  *)
(* the thread.                                                               *)
KeepHotplug == UNCHANGED hotplug_lock  \* mutant: detach leaves the lock alone
DetachUnlocks == hotplug_lock' = Nobody

Offline(b) ==
  /\ online' = [online EXCEPT ![b] = FALSE]
  /\ isCancelled' = [isCancelled EXCEPT ![b] = @ \/ Request(b).kind = "cancelThread"]
  /\ Done(b)
  /\ UNCHANGED isExecuting

iboffline(b) ==
  /\ Doing(b, "start", {"iboffline", "cancelThread"})
  /\ \/ online[b] /\ Onward(b, "detach") /\ UNCHANGED board_state
     \/ ~online[b] /\ Offline(b) /\ UNCHANGED <<bus_interface, hotplug_lock>>

detach(b) ==
  \/ /\ Doing(b, "detach", Kinds)
     /\ DetachUnlocks
     /\ Onward(b, IF bus_interface[b] THEN "standby" ELSE "release")
     /\ UNCHANGED <<online, bus_interface>>
  \/ /\ Doing(b, "standby", Kinds)
     /\ Onward(b, "release")
     /\ UNCHANGED board_state
  \/ /\ Doing(b, "release", Kinds)
     /\ SetInterface(b, FALSE)
     /\ DetachUnlocks
     /\ Offline(b)

LinkThread(b) ==
  \/ Start(b) \/ LinkThreadEnds(b) \/ ibioctl(b)
  \/ ibonline(b) \/ attach(b) \/ Search(b) \/ SetUp(b) \/ iboffline(b) \/ detach(b)

Next ==
  \/ \E t \in Threads : Caller(t)
  \/ \E b \in Boards : LinkThread(b) \/ UnlimitedEnds(b)

Spec == Init /\ [][Next]_vars

(* Threads run, and a mutex goes to everyone who keeps asking for it; nobody  *)
(* has to make another call, and nothing makes an ioctl without a limit end.  *)
FairSpec ==
  /\ Spec
  /\ \A t \in Threads :
       SF_vars(Post(t)) /\ WF_vars(Return(t)) /\ WF_vars(CloseWaits(t) \/ close(t))
  /\ \A b \in Boards : SF_vars(attach(b)) /\ WF_vars(LinkThread(b))

-----------------------------------------------------------------------------
Steps == {"start", "transfer", "attach", "search", "setup", "detach", "standby", "release"}
Requests == [kind : Kinds, by : Threads, step : Steps]
Places == {"away", "looked", "waiting", "served", "cancelled", "ended"}

(* The types of the variables.                                               *)
TypeOK ==
  /\ isExecuting \in [Boards -> BOOLEAN] /\ isCancelled \in [Boards -> BOOLEAN]
  /\ m_big_gpib_mutex \in [Boards -> Threads \union {Nobody}]
  /\ posted \in [Boards -> Seq(Requests)] /\ serving \in [Boards -> Seq(Requests)]
  /\ online \in [Boards -> BOOLEAN] /\ bus_interface \in [Boards -> BOOLEAN]
  /\ hotplug_lock \in Boards \union {Nobody}
  /\ caller \in [Threads -> [at : Places, board : Boards \union {Nobody},
                             kind : Kinds \union {"none"}]]
  /\ \A t \in Threads :
       At(t, "away") \/ (caller[t].board \in Boards /\ caller[t].kind \in Kinds)

(* A board's thread never starts a request inside another one, although the    *)
(* driver enters the run loop while it waits, and no request waits unseen      *)
(* behind the one it serves: the mutex is held from the hand-over to the end.  *)
OneAtATime == \A b \in Boards : Len(serving[b]) + Len(posted[b]) <= 1

(* Between requests a board is online exactly when its driver holds the USB    *)
(* interface: no failing attach keeps it, no detach leaves the board online.   *)
OnlineHasInterface == \A b \in Boards : Idle(b) => online[b] = bus_interface[b]

(* hotplug_lock belongs to a board only during a request of that board: the    *)
(* returns from attach that keep it are made good before the request ends.     *)
HotplugComesBack == \A b \in Boards : hotplug_lock = b => ~Idle(b)

(* A cancelled thread's board has been given back for good: no call that comes *)
(* late, having looked before the close, brings it online again.               *)
ClosedStaysOffline ==
  \A b \in Boards : isCancelled[b] => ~online[b] /\ ~bus_interface[b]

(* A call that has looked at the thread before close cancelled it and hands    *)
(* its request over afterwards: nobody will ever serve that request, and the   *)
(* mutex stays with it.                                                       *)
Overtaken(t) ==
  /\ At(t, "looked") \/ At(t, "waiting")
  /\ isCancelled[caller[t].board]

(* The call's board serves an ioctl without a limit, under the mutex.          *)
Endless(t) == ~At(t, "away") /\ Doing(caller[t].board, "transfer", {"unlimited"})

(* Every call comes back, close included, unless a close has overtaken it or    *)
(* its board serves an ioctl without a limit from some time on for ever.       *)
EveryCallReturns ==
  \A t \in Threads : ~At(t, "away") ~> (At(t, "away") \/ Overtaken(t) \/ []Endless(t))
=============================================================================
