-------------------------- MODULE GpibLibraryProofs --------------------------
(***************************************************************************)
(* Proofs about GpibLibrary, for any threads, descriptors and calls: the   *)
(* library is a client of GpibLink, so that what is proved there holds     *)
(* here; no request raises when no handle is closed (NoRaise); and threads *)
(* with descriptors of their own never abort at a lock (NoAbort) and give  *)
(* back what they locked (LocksComeBack); and a program of one thread      *)
(* transfers data only with its own device (OwnBus).                       *)
(***************************************************************************)
EXTENDS GpibLibrary, TLAPS

WorkSteps ==
  {"online", "eoip", "assert", "lock", "stop", "aio_begin", "own_cic", "cic",
   "status_clear_CMPL", "IBTMO", "IBTMO_spoll", "listen", "talk", "IBRD", "IBWRT",
   "IBRSP", "IBPAD", "IBSAD", "set_timeout", "wait"}
EndSteps ==
  {"own_cic", "status", "status_set_CMPL", "unlock", "unlock_held", "IBCLOSEDEV",
   "aio_end", "collect", "return_ud"}

Confs ==
  [handle : -1 .. MaxOpen, pad : Pads, sad : {-sad_offset}, usec_timeout : Nat,
   is_interface : BOOLEAN, board_is_open : BOOLEAN, has_lock : BOOLEAN,
   in_progress : BOOLEAN, lock : Threads \union {NoThread}]
CallRecords ==
  [ud : Uds, pad : Pads, usec : Nat, todo : Seq(WorkSteps \union {"insert"}),
   last : Seq(EndSteps)]

TypeOK ==
  /\ m_descriptors \in Seq(Link!Descriptor) /\ Len(m_descriptors) <= MaxOpen
  /\ raised \in BOOLEAN
  /\ usec_timeout \in Nat
  /\ ibConfigs \in [Uds -> Confs \union {NoConf}]
  /\ call \in [Threads -> CallRecords]
  /\ known \subseteq Uds
  /\ aborted \in BOOLEAN

Has(s, x) == \E i \in DOMAIN s : s[i] = x

(* A call finds its descriptor in the table, unless it is an ibdev that is   *)
(* about to put it there.                                                    *)
Inserting(t) == call[t].todo # <<>> /\ Head(call[t].todo) = "insert"
Configured ==
  /\ \A ud \in known : ibConfigs[ud] # NoConf
  /\ \A t \in Threads :
       /\ Busy(t) => Conf(t) # NoConf \/ Inserting(t)
       /\ Has(call[t].todo, "insert") => call[t].ud \in Devices

IInv == TypeOK /\ Configured

-----------------------------------------------------------------------------
(* Lists of steps.                                                           *)

(* What the rest of a list has.                                              *)
LEMMA HasTail ==
  ASSUME NEW S, NEW s \in Seq(S), s # <<>>
  PROVE  /\ Tail(s) \in Seq(S) /\ Head(s) \in S
         /\ \A x : Has(s, x) <=> Head(s) = x \/ Has(Tail(s), x)
<1>1. Tail(s) \in Seq(S) /\ Head(s) \in S /\ Len(s) \in Nat /\ Len(s) # 0
      /\ DOMAIN s = 1 .. Len(s) /\ Head(s) = s[1]
  OBVIOUS
<1>2. Len(Tail(s)) = Len(s) - 1 /\ DOMAIN Tail(s) = 1 .. Len(s) - 1
      /\ \A i \in 1 .. Len(s) - 1 : Tail(s)[i] = s[i + 1]
  BY <1>1
<1>3. ASSUME NEW x, Has(s, x), Head(s) # x PROVE Has(Tail(s), x)
  <2>1. PICK i \in 1 .. Len(s) : s[i] = x
    BY <1>1, <1>3 DEF Has
  <2>2. i - 1 \in 1 .. Len(s) - 1
    BY <1>1, <1>3, <2>1
  <2>3. Tail(s)[i - 1] = x
    BY <1>1, <1>2, <2>1, <2>2
  <2>4. QED
    BY <1>1, <1>2, <2>2, <2>3 DEF Has
<1>4. ASSUME NEW x, Has(Tail(s), x) PROVE Has(s, x)
  <2>1. PICK i \in 1 .. Len(s) - 1 : Tail(s)[i] = x
    BY <1>1, <1>2, <1>4 DEF Has
  <2>2. QED
    BY <1>1, <1>2, <2>1 DEF Has
<1>5. ASSUME NEW x, Head(s) = x PROVE Has(s, x)
  BY <1>1, <1>5 DEF Has
<1>6. QED
  BY <1>1, <1>3, <1>4, <1>5

(* What two lists have together.                                             *)
LEMMA HasBoth ==
  ASSUME NEW S, NEW s \in Seq(S), NEW u \in Seq(S)
  PROVE  /\ s \o u \in Seq(S)
         /\ \A x : Has(s \o u, x) <=> Has(s, x) \/ Has(u, x)
<1>1. /\ s \o u \in Seq(S) /\ Len(s \o u) = Len(s) + Len(u)
      /\ Len(s) \in Nat /\ Len(u) \in Nat
      /\ \A i \in 1 .. Len(s) : (s \o u)[i] = s[i]
      /\ \A i \in 1 .. Len(u) : (s \o u)[Len(s) + i] = u[i]
  OBVIOUS
<1>2. ASSUME NEW x, Has(s \o u, x), ~Has(s, x) PROVE Has(u, x)
  <2>1. PICK i \in 1 .. Len(s) + Len(u) : (s \o u)[i] = x
    BY <1>1, <1>2 DEF Has
  <2>2. i > Len(s)
    BY <1>1, <1>2, <2>1 DEF Has
  <2>3. i - Len(s) \in 1 .. Len(u) /\ i = Len(s) + (i - Len(s))
    BY <1>1, <2>1, <2>2
  <2>4. QED
    BY <1>1, <2>1, <2>3 DEF Has
<1>3. ASSUME NEW x, Has(s, x) PROVE Has(s \o u, x)
  BY <1>1, <1>3 DEF Has
<1>4. ASSUME NEW x, Has(u, x) PROVE Has(s \o u, x)
  <2>1. PICK i \in 1 .. Len(u) : u[i] = x
    BY <1>1, <1>4 DEF Has
  <2>2. Len(s) + i \in 1 .. Len(s) + Len(u)
    BY <1>1, <2>1
  <2>3. QED
    BY <1>1, <2>1, <2>2 DEF Has
<1>5. QED
  BY <1>1, <1>2, <1>3, <1>4

(* A list has only elements of its set.                                      *)
LEMMA HasOnly ==
  ASSUME NEW S, NEW s \in Seq(S), NEW x, Has(s, x)
  PROVE  x \in S
  BY DEF Has

-----------------------------------------------------------------------------
(* The lists of the calls.                                                   *)
Plain == {"IBTMO", "IBTMO_spoll", "cic", "listen", "talk", "IBRD", "IBWRT", "IBRSP",
          "IBPAD", "IBSAD"}

(* A call that takes and gives back has_lock.                                *)
LEMMA LockedLists ==
  ASSUME NEW body \in Seq(Plain)
  PROVE  /\ Locked(body).todo \in Seq(WorkSteps)
         /\ Locked(body).last \in Seq({"own_cic", "status", "unlock"})
<1>1. enter_library \in Seq({"online", "eoip", "assert", "lock"})
  BY DEF enter_library, general_enter_library
<1>2. general_exit_library(TRUE) \in Seq({"own_cic", "status", "unlock"})
  BY DEF general_exit_library, ibstatus
<1>3. enter_library \in Seq(WorkSteps) /\ body \in Seq(WorkSteps)
  BY <1>1 DEF WorkSteps, Plain
<1>4. QED
  BY <1>2, <1>3, HasBoth DEF Locked, Steps

(* A call that does not lock the board goes on line, does its work and       *)
(* checks who is controller in charge and what status to report, and         *)
(* nothing else.                                                             *)
LEMMA UnlockedLists ==
  ASSUME NEW body \in Seq({"set_timeout", "own_cic", "wait"})
  PROVE  /\ Unlocked(body).todo \in Seq({"online", "set_timeout", "own_cic", "wait"})
         /\ Unlocked(body).last \in Seq({"own_cic", "status"})
<1>1. general_enter_library(FALSE) \in Seq({"online", "set_timeout", "own_cic", "wait"})
  BY DEF general_enter_library
<1>2. general_exit_library(FALSE) \in Seq({"own_cic", "status"})
  BY DEF general_exit_library, ibstatus
<1>3. body \in Seq({"online", "set_timeout", "own_cic", "wait"})
  OBVIOUS
<1>4. QED
  BY <1>1, <1>2, <1>3, HasBoth DEF Unlocked, Steps

(* What ibrd, ibwrt and a command do on the bus, for a device and for the    *)
(* board itself.                                                             *)
LEMMA Bodies ==
  ASSUME NEW conf, conf.is_interface \in BOOLEAN
  PROVE  /\ my_ibrd(conf) \in Seq({"IBTMO", "cic", "talk", "IBRD"})
         /\ my_ibwrt(conf) \in Seq({"IBTMO", "cic", "listen", "IBWRT"})
         /\ my_ibcmd("listen") \in Seq({"IBTMO", "cic", "listen"})
<1>1. /\ my_ibcmd("talk") \in Seq({"IBTMO", "cic", "talk", "IBRD"})
      /\ my_ibcmd("listen") \in Seq({"IBTMO", "cic", "listen", "IBWRT"})
      /\ my_ibcmd("listen") \in Seq({"IBTMO", "cic", "listen"})
  BY DEF my_ibcmd
<1>2. /\ <<"IBTMO", "IBRD">> \in Seq({"IBTMO", "cic", "talk", "IBRD"})
      /\ <<"IBTMO", "IBWRT">> \in Seq({"IBTMO", "cic", "listen", "IBWRT"})
      /\ <<"IBTMO">> \in Seq({"IBTMO", "cic", "listen", "IBWRT"})
  OBVIOUS
<1>3. my_ibrd(conf) \in Seq({"IBTMO", "cic", "talk", "IBRD"})
  <2> DEFINE first == IF conf.is_interface THEN <<>> ELSE my_ibcmd("talk")
  <2>1. first \in Seq({"IBTMO", "cic", "talk", "IBRD"})
    BY <1>1
  <2>2. my_ibrd(conf) = first \o <<"IBTMO", "IBRD">>
    BY DEF my_ibrd
  <2> HIDE DEF first
  <2>3. QED
    BY <1>2, <2>1, <2>2, HasBoth
<1>4. my_ibwrt(conf) \in Seq({"IBTMO", "cic", "listen", "IBWRT"})
  <2> DEFINE first == IF conf.is_interface THEN <<>> ELSE my_ibcmd("listen")
  <2>1. first \in Seq({"IBTMO", "cic", "listen", "IBWRT"})
    BY <1>1
  <2>2. my_ibwrt(conf) = (<<"IBTMO">> \o first) \o <<"IBTMO", "IBWRT">>
    BY DEF my_ibwrt
  <2> HIDE DEF first
  <2>3. QED
    BY <1>2, <2>1, <2>2, HasBoth
<1>5. QED
  BY <1>1, <1>3, <1>4

(* An asynchronous call, with the transfer its thread makes.                 *)
LEMMA AioLists ==
  ASSUME NEW body \in Seq(Plain), NEW steps,
         steps = Steps(<<"online">> \o gpib_aio_launch(body), EndOfAio \o general_exit_library(FALSE))
  PROVE  /\ steps.todo \in Seq(WorkSteps \ {"wait", "lock", "assert", "stop"})
         /\ steps.last \in Seq({"own_cic", "status", "status_set_CMPL", "aio_end"})
         /\ Has(steps.last, "aio_end")
<1> DEFINE T == WorkSteps \ {"wait", "lock", "assert", "stop"}
           E == {"own_cic", "status", "status_set_CMPL", "aio_end"}
<1> DEFINE first == <<"online">>
           launch == <<"aio_begin", "own_cic", "status_clear_CMPL">>
           check == ibstatus("status_set_CMPL")
           end == <<"aio_end">>
           exit == general_exit_library(FALSE)
<1>1. first \in Seq(T) /\ launch \in Seq(T) /\ body \in Seq(T)
  BY DEF WorkSteps, Plain
<1>2. check \in Seq(E) /\ end \in Seq(E) /\ exit \in Seq(E) /\ Has(end, "aio_end")
  BY DEF general_exit_library, ibstatus, Has
<1>3. steps.todo = first \o (launch \o body) /\ steps.last = (check \o end) \o exit
  BY DEF Steps, gpib_aio_launch, EndOfAio
<1> HIDE DEF T, E, first, launch, check, end, exit
<1>4. launch \o body \in Seq(T) /\ check \o end \in Seq(E) /\ Has(check \o end, "aio_end")
  BY <1>1, <1>2, HasBoth
<1>5. first \o (launch \o body) \in Seq(T)
  BY <1>1, <1>4, HasBoth
<1>6. (check \o end) \o exit \in Seq(E) /\ Has((check \o end) \o exit, "aio_end")
  BY <1>2, <1>4, HasBoth
<1>7. QED
  BY <1>3, <1>5, <1>6 DEF T, E

(* ibloc locks a device, and unlocks also a board it has not locked.         *)
LEMMA IblocLists ==
  ASSUME NEW conf, conf.is_interface \in BOOLEAN
  PROVE  /\ ibloc(conf).todo \in Seq({"online", "assert", "lock", "IBTMO", "cic", "listen"})
         /\ ibloc(conf).last \in Seq({"own_cic", "status", "unlock"})
<1> DEFINE T == {"online", "assert", "lock", "IBTMO", "cic", "listen"}
           work == IF conf.is_interface THEN <<>>
                   ELSE <<"assert", "lock">> \o my_ibcmd("listen")
<1>1. <<"online">> \in Seq(T) /\ <<"assert", "lock">> \in Seq(T) /\ my_ibcmd("listen") \in Seq(T)
  BY DEF my_ibcmd
<1>2. work \in Seq(T)
  <2> DEFINE two == <<"assert", "lock">>
             command == my_ibcmd("listen")
  <2>1. two \in Seq(T) /\ command \in Seq(T)
    BY <1>1
  <2> HIDE DEF T, two, command
  <2>2. two \o command \in Seq(T)
    BY <2>1, HasBoth
  <2>3. <<>> \in Seq(T)
    OBVIOUS
  <2>4. QED
    BY <2>2, <2>3 DEF two, command
<1>3. general_exit_library(TRUE) \in Seq({"own_cic", "status", "unlock"})
  BY DEF general_exit_library, ibstatus
<1>4. ibloc(conf).todo = <<"online">> \o work /\ ibloc(conf).last = general_exit_library(TRUE)
  BY DEF ibloc, Steps
<1> HIDE DEF work, T
<1>5. ibloc(conf).todo \in Seq(T)
  BY <1>1, <1>2, <1>4, HasBoth
<1>6. QED
  BY <1>3, <1>4, <1>5 DEF T

(* ibonl and ibstop.                                                         *)
LEMMA EndLists ==
  /\ ibstop.todo \in Seq({"online", "stop"})
  /\ ibstop.last \in Seq({"own_cic", "status_set_CMPL"})
  /\ ibonl.todo \in Seq({"online", "stop", "assert", "lock"})
  /\ ibonl.last \in Seq({"own_cic", "status_set_CMPL", "IBCLOSEDEV", "unlock_held"})
<1>1. /\ ibstatus("status_set_CMPL") \in Seq({"own_cic", "status_set_CMPL"})
      /\ ibstatus("status_set_CMPL") \in
           Seq({"own_cic", "status_set_CMPL", "IBCLOSEDEV", "unlock_held"})
      /\ <<"IBCLOSEDEV", "unlock_held">> \in
           Seq({"own_cic", "status_set_CMPL", "IBCLOSEDEV", "unlock_held"})
  BY DEF ibstatus
<1>2. QED
  BY <1>1, HasBoth DEF ibstop, ibonl, Steps

(* ibdev and the start of the board.                                         *)
LEMMA FirstLists ==
  /\ ibdev.todo \in Seq({"insert", "online", "eoip", "assert", "lock"})
  /\ ibdev.last \in Seq({"own_cic", "status", "unlock", "return_ud"})
  /\ configure_board.todo \in Seq({"online", "IBPAD", "IBSAD"})
  /\ configure_board.last \in Seq({"return_ud"})
<1> DEFINE T == {"insert", "online", "eoip", "assert", "lock"}
           E == {"own_cic", "status", "unlock", "return_ud"}
           first == <<"insert">>
           end == <<"return_ud">>
<1>1. /\ first \in Seq(T) /\ enter_library \in Seq(T)
      /\ general_exit_library(TRUE) \in Seq(E) /\ end \in Seq(E)
  BY DEF enter_library, general_enter_library, general_exit_library, ibstatus
<1>2. ibdev.todo = first \o enter_library /\ ibdev.last = general_exit_library(TRUE) \o end
  BY DEF ibdev, Steps
<1>3. /\ configure_board.todo \in Seq({"online", "IBPAD", "IBSAD"})
      /\ configure_board.last \in Seq({"return_ud"})
  BY DEF configure_board, Steps
<1> HIDE DEF T, E, first, end
<1>4. first \o enter_library \in Seq(T)
  BY <1>1, HasBoth
<1>5. general_exit_library(TRUE) \o end \in Seq(E)
  BY <1>1, HasBoth
<1>6. QED
  BY <1>2, <1>3, <1>4, <1>5 DEF T, E

(* Two lists begin as the first one does.                                    *)
LEMMA HeadBoth ==
  ASSUME NEW S, NEW s \in Seq(S), NEW u \in Seq(S), s # <<>>
  PROVE  s \o u # <<>> /\ Head(s \o u) = Head(s)
<1>1. /\ s \o u \in Seq(S) /\ Len(s \o u) = Len(s) + Len(u)
      /\ Len(s) \in Nat /\ Len(u) \in Nat /\ Len(s) # 0
      /\ \A i \in 1 .. Len(s) : (s \o u)[i] = s[i]
  OBVIOUS
<1>2. (s \o u)[1] = s[1] /\ s[1] = Head(s)
  BY <1>1
<1>3. Len(s \o u) # 0
  BY <1>1
<1>4. s \o u # <<>>
  BY <1>1, <1>3
<1>5. Head(s \o u) = (s \o u)[1]
  BY <1>1, <1>4
<1>6. QED
  BY <1>2, <1>4, <1>5

(* ibdev's first step puts its descriptor in the table.                      *)
LEMMA IbdevInserts == ibdev.todo # <<>> /\ Head(ibdev.todo) = "insert"
<1> DEFINE T == {"insert", "online", "eoip", "assert", "lock"}
           first == <<"insert">>
<1>1. first \in Seq(T) /\ enter_library \in Seq(T)
  BY DEF enter_library, general_enter_library
<1>2. first # <<>> /\ Head(first) = "insert"
  OBVIOUS
<1>3. ibdev.todo = first \o enter_library
  BY DEF ibdev, Steps
<1> HIDE DEF first, T
<1>4. QED
  BY <1>1, <1>2, <1>3, HeadBoth

(* The calls that work on a descriptor as a device, the board being asked no *)
(* more than to lock and unlock.                                             *)
LockedCalls == {"ibrd", "ibwrt", "ibpad", "ibsad", "ibclr", "ibtrg", "ibrsp"}

(* Each of these calls is enclosed by lock and unlock, and only ibrd and     *)
(* ibwrt transfer data.                                                      *)
LEMMA LockedSteps ==
  ASSUME NEW op \in LockedCalls, NEW conf, conf.is_interface \in BOOLEAN
  PROVE  \E body \in Seq(Plain) :
           /\ StepsOf(op, conf) = Locked(body)
           /\ op \notin {"ibrd", "ibwrt"} => body \in Seq(Plain \ {"IBRD", "IBWRT"})
           /\ op = "ibrd" => body = my_ibrd(conf)
           /\ op = "ibwrt" => body = my_ibwrt(conf)
<1>1. /\ my_ibrd(conf) \in Seq(Plain) /\ my_ibwrt(conf) \in Seq(Plain)
      /\ my_ibcmd("listen") \in Seq(Plain \ {"IBRD", "IBWRT"})
  BY Bodies DEF Plain
<1>2. /\ <<"IBPAD", "IBSAD">> \in Seq(Plain \ {"IBRD", "IBWRT"})
      /\ <<"IBTMO_spoll", "IBRSP">> \in Seq(Plain \ {"IBRD", "IBWRT"})
      /\ <<>> \in Seq(Plain \ {"IBRD", "IBWRT"})
  BY DEF Plain
<1>3. Seq(Plain \ {"IBRD", "IBWRT"}) \subseteq Seq(Plain)
  OBVIOUS
<1>4. CASE op \in DeviceOnly /\ conf.is_interface
  BY <1>2, <1>3, <1>4 DEF StepsOf, DeviceOnly
<1>5. CASE ~(op \in DeviceOnly /\ conf.is_interface)
  <2>1. CASE op = "ibrd"
    BY <1>1, <2>1 DEF StepsOf, DeviceOnly, ibrd
  <2>2. CASE op = "ibwrt"
    BY <1>1, <2>2 DEF StepsOf, DeviceOnly, ibwrt
  <2>3. CASE op \in {"ibpad", "ibsad"}
    BY <1>2, <1>3, <2>3 DEF StepsOf, DeviceOnly, ibpad, ibsad
  <2>4. CASE op \in {"ibclr", "ibtrg"}
    BY <1>1, <1>3, <1>5, <2>4 DEF StepsOf, DeviceOnly, ibclr, ibtrg
  <2>5. CASE op = "ibrsp"
    BY <1>2, <1>3, <1>5, <2>5 DEF StepsOf, DeviceOnly, ibrsp
  <2>6. QED
    BY <2>1, <2>2, <2>3, <2>4, <2>5 DEF LockedCalls
<1>6. QED
  BY <1>4, <1>5

AioCalls == {"ibrda", "ibwrta"}

(* An asynchronous transfer neither locks nor waits in the calling thread,   *)
(* and it ends by clearing what it began.                                    *)
LEMMA AioSteps ==
  ASSUME NEW op \in AioCalls, NEW conf, conf.is_interface \in BOOLEAN
  PROVE  /\ StepsOf(op, conf).todo \in Seq(WorkSteps \ {"wait", "lock", "assert", "stop"})
         /\ StepsOf(op, conf).last \in Seq({"own_cic", "status", "status_set_CMPL", "aio_end"})
         /\ Has(StepsOf(op, conf).last, "aio_end")
<1>1. my_ibrd(conf) \in Seq(Plain) /\ my_ibwrt(conf) \in Seq(Plain)
  BY Bodies DEF Plain
<1>2. CASE op = "ibrda"
  <2>1. StepsOf(op, conf) = ibrda(conf)
    BY <1>2 DEF StepsOf, DeviceOnly
  <2>2. QED
    BY <1>1, <2>1, AioLists DEF ibrda
<1>3. CASE op = "ibwrta"
  <2>1. StepsOf(op, conf) = ibwrta(conf)
    BY <1>3 DEF StepsOf, DeviceOnly
  <2>2. QED
    BY <1>1, <2>1, AioLists DEF ibwrta
<1>4. QED
  BY <1>2, <1>3 DEF AioCalls

(* The other calls.                                                          *)
LEMMA OtherSteps ==
  ASSUME NEW conf
  PROVE  /\ StepsOf("ibloc", conf) = ibloc(conf)
         /\ StepsOf("ibtmo", conf) = Unlocked(<<"set_timeout">>)
         /\ StepsOf("ibwait", conf) = Unlocked(<<"own_cic", "wait">>)
         /\ StepsOf("ibstop", conf) = ibstop
         /\ StepsOf("ibonl", conf) = ibonl
  BY DEF StepsOf, DeviceOnly, ibtmo, ibwait

(* A call of the program does not make a descriptor, and the last steps of   *)
(* each are known; only ibonl closes.                                        *)
LEMMA CallLists ==
  ASSUME NEW op \in LibraryCalls, NEW conf, conf.is_interface \in BOOLEAN
  PROVE  /\ StepsOf(op, conf).todo \in Seq(WorkSteps)
         /\ StepsOf(op, conf).last \in Seq(EndSteps \ {"return_ud"})
         /\ op # "ibonl" => StepsOf(op, conf).last \in
                              Seq(EndSteps \ {"return_ud", "IBCLOSEDEV", "unlock_held"})
<1> DEFINE E == EndSteps \ {"return_ud", "IBCLOSEDEV", "unlock_held"}
<1>1. ASSUME NEW s \in Seq(E) PROVE s \in Seq(EndSteps \ {"return_ud"})
  OBVIOUS
<1>2. CASE op \in LockedCalls
  <2>1. PICK body \in Seq(Plain) : StepsOf(op, conf) = Locked(body)
    BY <1>2, LockedSteps
  <2>2. Locked(body).last \in Seq(E)
    BY LockedLists DEF EndSteps
  <2>3. QED
    BY <1>1, <2>1, <2>2, LockedLists
<1>3. CASE op \in AioCalls
  <2>1. StepsOf(op, conf).last \in Seq(E)
    BY <1>3, AioSteps DEF EndSteps
  <2>2. StepsOf(op, conf).todo \in Seq(WorkSteps)
    BY <1>3, AioSteps
  <2>3. QED
    BY <1>1, <2>1, <2>2
<1>4. CASE op \in {"ibtmo", "ibwait"}
  <2>1. /\ <<"set_timeout">> \in Seq({"set_timeout", "own_cic", "wait"})
        /\ <<"own_cic", "wait">> \in Seq({"set_timeout", "own_cic", "wait"})
    OBVIOUS
  <2>2. PICK body \in Seq({"set_timeout", "own_cic", "wait"}) : StepsOf(op, conf) = Unlocked(body)
    BY <1>4, <2>1, OtherSteps
  <2>3. Unlocked(body).last \in Seq(E) /\ Unlocked(body).todo \in Seq(WorkSteps)
    BY UnlockedLists DEF EndSteps, WorkSteps
  <2>4. QED
    BY <1>1, <2>2, <2>3
<1>5. CASE op = "ibloc"
  <2>1. ibloc(conf).last \in Seq(E) /\ ibloc(conf).todo \in Seq(WorkSteps)
    BY IblocLists DEF EndSteps, WorkSteps
  <2>2. QED
    BY <1>1, <1>5, <2>1, OtherSteps
<1>6. CASE op = "ibstop"
  <2>1. ibstop.last \in Seq(E) /\ ibstop.todo \in Seq(WorkSteps)
    BY EndLists DEF EndSteps, WorkSteps
  <2>2. QED
    BY <1>1, <1>6, <2>1, OtherSteps
<1>7. CASE op = "ibonl"
  <2>1. ibonl.last \in Seq(EndSteps \ {"return_ud"}) /\ ibonl.todo \in Seq(WorkSteps)
    BY EndLists DEF EndSteps, WorkSteps
  <2>2. QED
    BY <1>7, <2>1, OtherSteps
<1>8. QED
  BY <1>2, <1>3, <1>4, <1>5, <1>6, <1>7 DEF LibraryCalls, LockedCalls, AioCalls

-----------------------------------------------------------------------------
(* What the ioctls do to the table of descriptors.                           *)
Array == m_descriptors \in Seq(Link!Descriptor) /\ Len(m_descriptors) <= MaxOpen

(* A step of the library that is one of the ioctls or none.                  *)
Client == Link!Next \/ UNCHANGED link

(* An ioctl with a handle: the table keeps its length, and the process goes   *)
(* on if the handle is in it.                                                *)
Keeps(h) ==
  /\ Len(m_descriptors') = Len(m_descriptors)
  /\ raised' \in BOOLEAN
  /\ raised' => raised \/ h >= Len(m_descriptors)

(* IBOPENDEV is an action of GpibLink that answers with a handle of the      *)
(* array, raises nothing and leaves no array shorter.                        *)
LEMMA OpenStep ==
  ASSUME Array, NEW pad \in Pads, NEW sad \in Sads, NEW is_board \in BOOLEAN,
         Link!open_dev_ioctl(pad, sad, is_board)
  PROVE  /\ Client /\ Array'
         /\ Len(m_descriptors') >= Len(m_descriptors)
         /\ reply'.handle \in 0 .. Len(m_descriptors') - 1
         /\ raised' = raised /\ ~raised
<1>1. m_descriptors \in Seq(Link!Descriptor) /\ Len(m_descriptors) \in Nat /\ MaxOpen \in Nat
  BY LibraryAssumption DEF Array
<1>2. Client
  BY DEF Client, Link!Next
<1>3. CASE Link!OpenNew(pad, sad, is_board)
  <2> DEFINE d == [pad |-> pad, sad |-> sad, is_board |-> is_board, io_in_progress |-> FALSE]
  <2>1. /\ Len(m_descriptors) < MaxOpen /\ raised' = raised /\ ~raised
        /\ m_descriptors' = Append(m_descriptors, d)
        /\ reply'.handle = Len(m_descriptors)
    BY <1>3 DEF Link!OpenNew, Link!Running, Link!Ok
  <2>2. d \in Link!Descriptor
    BY DEF Link!Descriptor
  <2> HIDE DEF d
  <2>3. m_descriptors' \in Seq(Link!Descriptor) /\ Len(m_descriptors') = Len(m_descriptors) + 1
    BY <1>1, <2>1, <2>2
  <2>4. QED
    BY <1>1, <1>2, <2>1, <2>3 DEF Array
<1>4. CASE Link!OpenShared(pad, sad)
  <2>1. /\ raised' = raised /\ ~raised /\ m_descriptors' = m_descriptors
        /\ \E i \in DOMAIN m_descriptors : reply'.handle = i - 1
    BY <1>4 DEF Link!OpenShared, Link!Running, Link!DescriptorsAt, Link!tables, Link!Ok
  <2>2. PICK i \in 1 .. Len(m_descriptors) : reply'.handle = i - 1
    BY <1>1, <2>1
  <2>3. QED
    BY <1>1, <1>2, <2>1, <2>2 DEF Array
<1>5. QED
  BY <1>3, <1>4 DEF Link!open_dev_ioctl

(* Raise and Refuse leave the array alone.                                   *)
LEMMA RefuseKeeps ==
  ASSUME Array, raised \in BOOLEAN, NEW h
  PROVE  /\ Link!Refuse => Array' /\ Keeps(h)
         /\ Link!OutOfRange(h) /\ Link!Raise => Array' /\ Keeps(h)
<1>1. ASSUME m_descriptors' = m_descriptors PROVE Array'
  BY <1>1 DEF Array
<1>2. ASSUME Link!Refuse PROVE m_descriptors' = m_descriptors /\ raised' = raised
  BY <1>2 DEF Link!Refuse
<1>3. ASSUME Link!OutOfRange(h), Link!Raise
      PROVE  m_descriptors' = m_descriptors /\ raised' = TRUE /\ h >= Len(m_descriptors)
  BY <1>3 DEF Link!OutOfRange, Link!Raise
<1>4. ASSUME Link!Refuse PROVE Array' /\ Keeps(h)
  BY <1>1, <1>2, <1>4 DEF Keeps
<1>5. ASSUME Link!OutOfRange(h), Link!Raise PROVE Array' /\ Keeps(h)
  BY <1>1, <1>3, <1>5 DEF Keeps
<1>6. QED
  BY <1>4, <1>5

(* What a descriptor is after one of its fields has changed.                 *)
LEMMA DescriptorType ==
  ASSUME NEW d \in Link!Descriptor
  PROVE  /\ \A b \in BOOLEAN : [d EXCEPT !.io_in_progress = b] \in Link!Descriptor
         /\ \A pad \in Pads : [d EXCEPT !.pad = pad] \in Link!Descriptor
         /\ \A sad \in Sads : [d EXCEPT !.sad = sad] \in Link!Descriptor
  BY DEF Link!Descriptor

(* So does an ioctl that changes one descriptor.                             *)
LEMMA OneKeeps ==
  ASSUME Array, raised \in BOOLEAN, NEW h, NEW i \in 1 .. Len(m_descriptors),
         NEW d \in Link!Descriptor,
         m_descriptors' = [m_descriptors EXCEPT ![i] = d], raised' = raised
  PROVE  Array' /\ Keeps(h)
  BY DEF Array, Keeps

(* IBRD, IBWRT and IBCMD on a handle are an action of GpibLink that keeps    *)
(* the array.                                                                *)
LEMMA TransferStep ==
  ASSUME Array, raised \in BOOLEAN, NEW h \in -1 .. MaxOpen, Link!transfer_ioctl(h)
  PROVE  Client /\ Array' /\ Keeps(h)
<1>1. m_descriptors \in Seq(Link!Descriptor) /\ Len(m_descriptors) \in Nat /\ MaxOpen \in Nat
  BY LibraryAssumption DEF Array
<1>2. Client
  BY DEF Client, Link!Next, Link!Handles
<1> DEFINE running == FALSE
<1>3. CASE /\ ~Link!NoDescriptor(h) /\ ~Link!OutOfRange(h)
           /\ m_descriptors' = [m_descriptors EXCEPT ![h + 1].io_in_progress = running]
           /\ raised' = raised
  <2>1. h + 1 \in 1 .. Len(m_descriptors)
    BY <1>1, <1>3 DEF Link!NoDescriptor, Link!OutOfRange
  <2>2. running \in BOOLEAN
    OBVIOUS
  <2> HIDE DEF running
  <2>3. [m_descriptors[h + 1] EXCEPT !.io_in_progress = running] \in Link!Descriptor
    BY <1>1, <2>1, <2>2, DescriptorType
  <2>4. QED
    BY <1>2, <1>3, <2>1, <2>3, OneKeeps
<1>4. QED
  BY <1>2, <1>3, RefuseKeeps DEF Link!transfer_ioctl, Link!WithDescriptor

(* IBWAIT on a handle, with any mask of CMPL, is an action of GpibLink that  *)
(* keeps the array.                                                          *)
LEMMA WaitStep ==
  ASSUME Array, raised \in BOOLEAN, NEW h \in -1 .. MaxOpen,
         NEW mask \in {"none", "set_CMPL", "clear_CMPL"}, Link!wait_ioctl(h, mask)
  PROVE  Client /\ Array' /\ Keeps(h)
<1>1. m_descriptors \in Seq(Link!Descriptor) /\ Len(m_descriptors) \in Nat /\ MaxOpen \in Nat
  BY LibraryAssumption DEF Array
<1>2. Client
  BY DEF Client, Link!Next, Link!Handles, Link!Masks
<1> DEFINE running == (mask # "clear_CMPL")
<1>3. CASE /\ ~Link!NoDescriptor(h) /\ ~Link!OutOfRange(h)
           /\ m_descriptors' = [m_descriptors EXCEPT ![h + 1].io_in_progress = running]
           /\ raised' = raised
  <2>1. h + 1 \in 1 .. Len(m_descriptors)
    BY <1>1, <1>3 DEF Link!NoDescriptor, Link!OutOfRange
  <2>2. running \in BOOLEAN
    OBVIOUS
  <2> HIDE DEF running
  <2>3. [m_descriptors[h + 1] EXCEPT !.io_in_progress = running] \in Link!Descriptor
    BY <1>1, <2>1, <2>2, DescriptorType
  <2>4. QED
    BY <1>2, <1>3, <2>1, <2>3, OneKeeps
<1>4. QED
  BY <1>2, <1>3, RefuseKeeps DEF Link!wait_ioctl, Link!WithDescriptor

(* IBPAD and IBSAD put a descriptor of the same kind in its place.           *)
LEMMA ReaddressStep ==
  ASSUME Array, raised \in BOOLEAN, NEW h, NEW i \in 1 .. Len(m_descriptors),
         NEW d \in Link!Descriptor, Link!Readdress(i, d)
  PROVE  Array' /\ Keeps(h)
  BY RefuseKeeps, OneKeeps DEF Link!Readdress

(* Setting the address of the board itself keeps the array.                  *)
LEMMA BoardAddressStep ==
  ASSUME Array, raised \in BOOLEAN, NEW h, NEW a, Link!ibpad(a) \/ Link!ibsad(a)
  PROVE  Array' /\ Keeps(h)
  BY RefuseKeeps DEF Link!ibpad, Link!ibsad, Link!SetBoardAddress, Link!tables, Array, Keeps

(* IBPAD on a handle is an action of GpibLink that keeps the array.          *)
LEMMA PadStep ==
  ASSUME Array, raised \in BOOLEAN, NEW h \in -1 .. MaxOpen, NEW pad \in Pads,
         Link!pad_ioctl(h, pad)
  PROVE  Client /\ Array' /\ Keeps(h)
<1>1. m_descriptors \in Seq(Link!Descriptor) /\ Len(m_descriptors) \in Nat /\ MaxOpen \in Nat
  BY LibraryAssumption DEF Array
<1>2. Client
  BY DEF Client, Link!Next, Link!Handles
<1>3. CASE ~Link!NoDescriptor(h) /\ ~Link!OutOfRange(h)
  <2>1. h + 1 \in 1 .. Len(m_descriptors)
    BY <1>1, <1>3 DEF Link!NoDescriptor, Link!OutOfRange
  <2>2. [m_descriptors[h + 1] EXCEPT !.pad = pad] \in Link!Descriptor
    BY <1>1, <2>1, DescriptorType
  <2>3. QED
    BY <1>2, <1>3, <2>1, <2>2, ReaddressStep, BoardAddressStep
       DEF Link!pad_ioctl, Link!WithDescriptor
<1>4. QED
  BY <1>2, <1>3, RefuseKeeps DEF Link!pad_ioctl, Link!WithDescriptor

(* IBSAD on a handle is an action of GpibLink that keeps the array.          *)
LEMMA SadStep ==
  ASSUME Array, raised \in BOOLEAN, NEW h \in -1 .. MaxOpen, NEW sad \in Sads,
         Link!sad_ioctl(h, sad)
  PROVE  Client /\ Array' /\ Keeps(h)
<1>1. m_descriptors \in Seq(Link!Descriptor) /\ Len(m_descriptors) \in Nat /\ MaxOpen \in Nat
  BY LibraryAssumption DEF Array
<1>2. Client
  BY DEF Client, Link!Next, Link!Handles
<1>3. CASE ~Link!NoDescriptor(h) /\ ~Link!OutOfRange(h)
  <2>1. h + 1 \in 1 .. Len(m_descriptors)
    BY <1>1, <1>3 DEF Link!NoDescriptor, Link!OutOfRange
  <2>2. [m_descriptors[h + 1] EXCEPT !.sad = sad] \in Link!Descriptor
    BY <1>1, <2>1, DescriptorType
  <2>3. QED
    BY <1>2, <1>3, <2>1, <2>2, ReaddressStep, BoardAddressStep
       DEF Link!sad_ioctl, Link!WithDescriptor
<1>4. QED
  BY <1>2, <1>3, RefuseKeeps DEF Link!sad_ioctl, Link!WithDescriptor

(* IBRSP is an action of GpibLink that touches no descriptor.                *)
LEMMA PollStep ==
  ASSUME Array, raised \in BOOLEAN, NEW pad \in Pads, NEW sad \in Sads,
         Link!serial_poll_ioctl(pad, sad)
  PROVE  Client /\ Array' /\ \A h : Keeps(h)
<1>1. Client
  BY DEF Client, Link!Next
<1>2. Array' /\ \A h : Keeps(h)
  BY DEF Link!serial_poll_ioctl, Keeps, Array
<1>3. QED
  BY <1>1, <1>2

(* removeObjectAtIndex takes one descriptor out.                             *)
LEMMA CloseStep ==
  ASSUME Array, raised \in BOOLEAN, NEW h \in -1 .. MaxOpen, Link!close_dev_ioctl(h)
  PROVE  Client /\ Array' /\ raised' \in BOOLEAN
<1>1. m_descriptors \in Seq(Link!Descriptor) /\ Len(m_descriptors) \in Nat /\ MaxOpen \in Nat
  BY LibraryAssumption DEF Array
<1>2. Client
  BY DEF Client, Link!Next, Link!Handles
<1>3. CASE \E i \in 1 .. Len(m_descriptors) :
             m_descriptors' = Link!RemoveAt(m_descriptors, i) /\ raised' = raised
  <2>1. PICK i \in 1 .. Len(m_descriptors) : m_descriptors' = Link!RemoveAt(m_descriptors, i)
    BY <1>3
  <2> DEFINE u == SubSeq(m_descriptors, 1, i - 1)
             v == SubSeq(m_descriptors, i + 1, Len(m_descriptors))
  <2>2. /\ u \in Seq(Link!Descriptor) /\ Len(u) = i - 1
        /\ v \in Seq(Link!Descriptor) /\ Len(v) = Len(m_descriptors) - i
    BY <1>1
  <2>3. m_descriptors' = u \o v
    BY <2>1 DEF Link!RemoveAt
  <2> HIDE DEF u, v
  <2>4. m_descriptors' \in Seq(Link!Descriptor) /\ Len(m_descriptors') = Len(m_descriptors) - 1
    BY <1>1, <2>2, <2>3
  <2>5. QED
    BY <1>1, <1>2, <1>3, <2>4 DEF Array
<1>4. CASE Link!Raise \/ Link!Refuse
  BY <1>2, <1>4 DEF Link!Raise, Link!Refuse, Array
<1>5. h >= 0 /\ ~Link!OutOfRange(h) => h + 1 \in 1 .. Len(m_descriptors)
  BY <1>1 DEF Link!OutOfRange
<1>6. QED
  BY <1>3, <1>4, <1>5 DEF Link!close_dev_ioctl, Link!CloseAt

-----------------------------------------------------------------------------
(* How a call goes on.                                                       *)
Ongoing(c) == c.todo # <<>> \/ c.last # <<>>
GoesOn(t) == Advance(t) \/ Fail(t) \/ UNCHANGED call

(* A step that may succeed or fail goes on with its call.                    *)
LEMMA OutcomeGoesOn == ASSUME NEW t, Outcome(t) PROVE GoesOn(t)
  BY DEF Outcome, GoesOn

(* Going on puts in a call's place the call as it is, its rest or its exit.  *)
LEMMA GoesTo ==
  ASSUME TypeOK, NEW t \in Threads, GoesOn(t)
  PROVE  \E c \in {call[t], Rest(call[t]), Exit(call[t])} : call' = [call EXCEPT ![t] = c]
<1>1. call = [call EXCEPT ![t] = call[t]]
  BY DEF TypeOK
<1>2. Advance(t) => call' = [call EXCEPT ![t] = Rest(call[t])]
  BY DEF Advance
<1>3. Fail(t) => call' = [call EXCEPT ![t] = Exit(call[t])]
  BY DEF Fail
<1>4. QED
  BY <1>1, <1>2, <1>3 DEF GoesOn

(* The lists of a call get shorter from the front, or are dropped.           *)
LEMMA RestType ==
  ASSUME NEW c \in CallRecords, Ongoing(c), NEW d \in {c, Rest(c), Exit(c)}
  PROVE  /\ d \in CallRecords /\ d.ud = c.ud /\ d.pad = c.pad /\ d.usec = c.usec
         /\ d.todo \in {c.todo, Tail(c.todo), <<>>}
         /\ \A x : Has(d.todo, x) => Has(c.todo, x)
         /\ \A x : Has(d.last, x) => Has(c.last, x)
<1>1. /\ c.todo \in Seq(WorkSteps \union {"insert"}) /\ c.last \in Seq(EndSteps)
      /\ <<>> \in Seq(WorkSteps \union {"insert"})
  BY DEF CallRecords
<1>2. \A x : ~Has(<<>>, x)
  BY DEF Has
<1>3. CASE c.todo # <<>>
  <2>1. Tail(c.todo) \in Seq(WorkSteps \union {"insert"})
    BY <1>1, <1>3
  <2>2. \A x : Has(Tail(c.todo), x) => Has(c.todo, x)
    BY <1>1, <1>3, HasTail
  <2>3. CASE d = c
    BY <2>3
  <2>4. CASE d = [c EXCEPT !.todo = Tail(@)]
    BY <1>1, <2>1, <2>2, <2>4 DEF CallRecords
  <2>5. CASE d = [c EXCEPT !.todo = <<>>]
    BY <1>1, <1>2, <2>5 DEF CallRecords
  <2>6. QED
    BY <1>3, <2>3, <2>4, <2>5 DEF Rest, Exit
<1>4. CASE c.todo = <<>>
  <2>1. c.last # <<>>
    BY <1>4 DEF Ongoing
  <2>2. Tail(c.last) \in Seq(EndSteps) /\ \A x : Has(Tail(c.last), x) => Has(c.last, x)
    BY <1>1, <2>1, HasTail
  <2>3. CASE d = c
    BY <2>3
  <2>4. CASE d = [c EXCEPT !.last = Tail(@)]
    BY <1>1, <2>2, <2>4 DEF CallRecords
  <2>5. QED
    BY <1>4, <2>3, <2>4 DEF Rest, Exit
<1>5. QED
  BY <1>3, <1>4

(* A call that is at a step has it first in its list, and neither an         *)
(* exception nor an abort has stopped the program.                           *)
LEMMA AtBusy ==
  ASSUME IInv, NEW t \in Threads, NEW step, At(t, step)
  PROVE  /\ call[t] \in CallRecords /\ Ongoing(call[t]) /\ ~raised /\ ~aborted
         /\ call[t].ud \in Uds
         /\ \/ call[t].todo # <<>> /\ Head(call[t].todo) = step
            \/ call[t].todo = <<>> /\ call[t].last # <<>> /\ Head(call[t].last) = step
<1>1. call[t] \in CallRecords
  BY DEF IInv, TypeOK
<1>2. QED
  BY <1>1 DEF At, Busy, Now, Ongoing, CallRecords

(* A call at any step but its first finds its descriptor.                    *)
LEMMA InTable ==
  ASSUME IInv, NEW t \in Threads, NEW step, At(t, step), step # "insert"
  PROVE  Conf(t) \in Confs
<1>1. Conf(t) # NoConf
  <2>1. ~Inserting(t)
    BY AtBusy DEF Inserting
  <2>2. Busy(t)
    BY DEF At
  <2>3. QED
    BY <2>1, <2>2 DEF IInv, Configured
<1>2. QED
  BY <1>1, AtBusy DEF IInv, TypeOK, Conf

(* A descriptor is not the empty entry of the table.                         *)
LEMMA ConfIsThere == ASSUME NEW conf \in Confs PROVE conf # NoConf
  BY DEF Confs, NoConf

(* A step of a call keeps the invariant when it puts a descriptor in the      *)
(* place of its own and leaves none of the others' calls.                     *)
Moves(t, conf, c) ==
  /\ call' = [call EXCEPT ![t] = c]
  /\ ibConfigs' = [ibConfigs EXCEPT ![call[t].ud] = conf]
  /\ known' \in {known, known \union {call[t].ud}}
Others == Array' /\ raised' \in BOOLEAN /\ usec_timeout' \in Nat /\ aborted' \in BOOLEAN

(* Such a step keeps the invariant.                                          *)
LEMMA Kept ==
  ASSUME IInv, NEW t \in Threads, NEW conf \in Confs, NEW c \in CallRecords,
         c.ud = call[t].ud, Has(c.todo, "insert") => Has(call[t].todo, "insert"),
         Moves(t, conf, c), Others
  PROVE  IInv'
<1>1. call[t].ud \in Uds
  BY DEF IInv, TypeOK, CallRecords
<1>2. /\ ibConfigs \in [Uds -> Confs \union {NoConf}] /\ call \in [Threads -> CallRecords]
      /\ known \subseteq Uds
  BY DEF IInv, TypeOK
<1>3. TypeOK'
  BY <1>1, <1>2 DEF Moves, Others, Array, TypeOK
<1>4. \A ud \in Uds : ibConfigs[ud] # NoConf => ibConfigs'[ud] # NoConf
  BY <1>1, <1>2, ConfIsThere DEF Moves
<1>5. ibConfigs'[call[t].ud] # NoConf
  BY <1>1, <1>2, ConfIsThere DEF Moves
<1>6. \A ud \in known' : ibConfigs'[ud] # NoConf
  BY <1>2, <1>4, <1>5 DEF Moves, IInv, Configured
<1>7. ASSUME NEW u \in Threads
      PROVE  /\ Busy(u)' => Conf(u)' # NoConf \/ Inserting(u)'
             /\ Has(call'[u].todo, "insert") => call'[u].ud \in Devices
  <2>1. CASE u = t
    <3>1. call'[u] = c
      BY <1>2, <2>1 DEF Moves
    <3>2. Conf(u)' # NoConf
      BY <1>5, <3>1 DEF Conf
    <3>3. QED
      BY <2>1, <3>1, <3>2 DEF IInv, Configured
  <2>2. CASE u # t
    <3>1. call'[u] = call[u] /\ call[u].ud \in Uds
      BY <1>2, <2>2 DEF Moves, CallRecords
    <3>2. Conf(u) # NoConf => Conf(u)' # NoConf
      BY <1>4, <3>1 DEF Conf
    <3>3. (Busy(u)' <=> Busy(u)) /\ (Inserting(u)' <=> Inserting(u))
      BY <3>1 DEF Busy, Inserting
    <3>4. QED
      BY <3>1, <3>2, <3>3 DEF IInv, Configured
  <2>3. QED
    BY <2>1, <2>2
<1>8. QED
  BY <1>3, <1>6, <1>7 DEF IInv, Configured

(* Most steps let the call go on and ...                                     *)
LEMMA KeptGoing ==
  ASSUME IInv, NEW t \in Threads, NEW step, At(t, step), GoesOn(t),
         NEW conf \in Confs, ibConfigs' = [ibConfigs EXCEPT ![call[t].ud] = conf],
         known' \in {known, known \union {call[t].ud}}, Others
  PROVE  IInv'
<1>1. PICK c \in {call[t], Rest(call[t]), Exit(call[t])} : call' = [call EXCEPT ![t] = c]
  BY GoesTo DEF IInv
<1>2. /\ c \in CallRecords /\ c.ud = call[t].ud
      /\ Has(c.todo, "insert") => Has(call[t].todo, "insert")
  BY AtBusy, RestType
<1>3. Moves(t, conf, c)
  BY <1>1 DEF Moves
<1>4. QED
  BY <1>2, <1>3, Kept

(* ... leave the descriptor as it is.                                        *)
LEMMA KeptConf ==
  ASSUME IInv, NEW t \in Threads, NEW step, At(t, step), step # "insert", GoesOn(t),
         ibConfigs' = ibConfigs, known' \in {known, known \union {call[t].ud}}, Others
  PROVE  IInv'
<1>1. Conf(t) \in Confs
  BY InTable
<1>2. ibConfigs' = [ibConfigs EXCEPT ![call[t].ud] = Conf(t)]
  BY AtBusy DEF IInv, TypeOK, Conf
<1>3. QED
  BY <1>1, <1>2, KeptGoing

-----------------------------------------------------------------------------
(* Every step of the library is a step of the table's clients, and keeps the *)
(* invariant.                                                                *)
Good == Client /\ IInv'

(* Steps without an ioctl that leave the descriptor alone.                   *)
LEMMA QuietSteps ==
  ASSUME IInv, NEW t \in Threads,
         \/ return_ud(t) \/ LookForAio(t) \/ AssertUnlocked(t) \/ set_timeout(t)
  PROVE  Good
<1>1. Array /\ raised \in BOOLEAN /\ usec_timeout \in Nat /\ aborted \in BOOLEAN
  BY DEF IInv, TypeOK, Array
<1>2. UNCHANGED link => Client /\ Array' /\ raised' \in BOOLEAN
  BY <1>1 DEF Array, link, Client
<1>3. CASE return_ud(t)
  BY <1>1, <1>2, <1>3, KeptConf DEF return_ud, GoesOn, Good, Others
<1>4. CASE LookForAio(t)
  BY <1>1, <1>2, <1>4, KeptConf DEF LookForAio, GoesOn, Good, Others
<1>5. CASE AssertUnlocked(t)
  BY <1>1, <1>2, <1>5, KeptConf DEF AssertUnlocked, GoesOn, Good, Others
<1>6. CASE set_timeout(t)
  <2>1. PICK step \in {"IBTMO", "IBTMO_spoll"} : At(t, step)
    BY <1>6 DEF set_timeout
  <2>2. Conf(t) \in Confs
    BY <2>1, InTable
  <2>3. usec_timeout' \in Nat
    BY <1>6, <2>2 DEF set_timeout, Confs, spoll_usec_timeout
  <2>4. Others
    BY <1>1, <1>2, <1>6, <2>3 DEF set_timeout, Others
  <2>5. QED
    BY <1>2, <1>6, <2>1, <2>4, KeptConf DEF set_timeout, GoesOn, Good
<1>7. QED
  BY <1>3, <1>4, <1>5, <1>6

(* Steps without an ioctl that change the descriptor.                        *)
LEMMA ConfType ==
  ASSUME NEW old \in Confs
  PROVE  /\ \A b \in BOOLEAN : [old EXCEPT !.has_lock = b] \in Confs
         /\ \A b \in BOOLEAN : [old EXCEPT !.in_progress = b] \in Confs
         /\ \A usec \in Nat : [old EXCEPT !.usec_timeout = usec] \in Confs
         /\ \A pad \in Pads : [old EXCEPT !.pad = pad] \in Confs
         /\ \A u \in Threads \union {NoThread} : [old EXCEPT !.lock = u] \in Confs
         /\ \A u \in Threads \union {NoThread}, b \in BOOLEAN :
              [old EXCEPT !.lock = u, !.in_progress = b] \in Confs
         /\ \A h \in -1 .. MaxOpen : [old EXCEPT !.handle = h] \in Confs
         /\ \A h \in -1 .. MaxOpen, b \in BOOLEAN :
              [old EXCEPT !.handle = h, !.board_is_open = b] \in Confs
  BY DEF Confs

(* What init_ibconf fills in is a descriptor.                                *)
LEMMA FreshType ==
  ASSUME NEW pad \in Pads, NEW usec \in Nat, NEW b \in BOOLEAN
  PROVE  init_ibconf(pad, usec, b) \in Confs
  BY LibraryAssumption DEF init_ibconf, Confs

(* The steps that change the library's own descriptor, and ask nothing of    *)
(* the driver or only its exclusive use, keep the invariant and are steps    *)
(* of a client of GpibLink.                                                  *)
LEMMA ConfSteps ==
  ASSUME IInv, NEW t \in Threads,
         \/ insert_descriptor(t) \/ conf_lock_board(t) \/ conf_unlock_board(t)
         \/ internal_ibtmo(t) \/ AioBegin(t) \/ AioEnd(t) \/ internal_ibstop(t)
         \/ CollectAio(t)
  PROVE  Good
<1>1. Array /\ raised \in BOOLEAN /\ usec_timeout \in Nat /\ aborted \in BOOLEAN
  BY DEF IInv, TypeOK, Array
<1>2. UNCHANGED link => Client /\ Array' /\ raised' \in BOOLEAN
  BY <1>1 DEF Array, link, Client
<1>3. call[t].pad \in Pads /\ call[t].usec \in Nat
  BY DEF IInv, TypeOK, CallRecords
<1>4. ASSUME NEW step, At(t, step), NEW conf \in Confs, Assign(t, conf), Advance(t),
             UNCHANGED <<link, usec_timeout, known>>, aborted' \in BOOLEAN
      PROVE  Good
  BY <1>1, <1>2, <1>4, KeptGoing DEF Assign, GoesOn, Good, Others
<1>5. CASE insert_descriptor(t)
  <2>1. init_ibconf(call[t].pad, call[t].usec, FALSE) \in Confs
    BY <1>3, FreshType
  <2>2. QED
    BY <1>1, <1>4, <1>5, <2>1 DEF insert_descriptor
<1>6. ASSUME NEW step, At(t, step), step # "insert" PROVE Conf(t) \in Confs
  BY <1>6, InTable
<1>7. CASE conf_lock_board(t)
  <2>1. [Conf(t) EXCEPT !.has_lock = TRUE] \in Confs
    BY <1>6, <1>7, ConfType DEF conf_lock_board
  <2>2. QED
    BY <1>1, <1>4, <1>7, <2>1 DEF conf_lock_board
<1>8. CASE conf_unlock_board(t)
  <2>1. PICK step \in {"unlock", "unlock_held"} : At(t, step)
    BY <1>8 DEF conf_unlock_board
  <2>2. [Conf(t) EXCEPT !.has_lock = FALSE] \in Confs
    BY <2>1, <1>6, ConfType
  <2>3. CASE UNCHANGED <<ibConfigs, call>>
    BY <1>1, <1>2, <1>8, <2>1, <2>3, KeptConf DEF conf_unlock_board, GoesOn, Good, Others
  <2>4. CASE Assign(t, [Conf(t) EXCEPT !.has_lock = FALSE]) /\ Advance(t) /\ UNCHANGED aborted
    BY <1>1, <1>4, <1>8, <2>1, <2>2, <2>4 DEF conf_unlock_board
  <2>5. QED
    BY <1>8, <2>3, <2>4 DEF conf_unlock_board
<1>9. CASE internal_ibtmo(t)
  <2>1. [Conf(t) EXCEPT !.usec_timeout = call[t].usec] \in Confs
    BY <1>3, <1>6, <1>9, ConfType DEF internal_ibtmo
  <2>2. QED
    BY <1>1, <1>4, <1>9, <2>1 DEF internal_ibtmo
<1>10. CASE AioBegin(t)
  <2>1. [Conf(t) EXCEPT !.lock = t, !.in_progress = TRUE] \in Confs
    BY <1>6, <1>10, ConfType DEF AioBegin
  <2>2. QED
    BY <1>1, <1>4, <1>10, <2>1 DEF AioBegin
<1>11. CASE AioEnd(t)
  <2>1. [Conf(t) EXCEPT !.lock = NoThread, !.in_progress = FALSE] \in Confs
    BY <1>6, <1>11, ConfType DEF AioEnd
  <2>2. QED
    BY <1>1, <1>4, <1>11, <2>1 DEF AioEnd
<1>12. CASE internal_ibstop(t)
  <2>1. (IF Conf(t).in_progress THEN t ELSE NoThread) \in Threads \union {NoThread}
    OBVIOUS
  <2>2. [Conf(t) EXCEPT !.lock = IF Conf(t).in_progress THEN t ELSE NoThread] \in Confs
    BY <1>6, <1>12, <2>1, ConfType DEF internal_ibstop
  <2>3. QED
    BY <1>1, <1>4, <1>12, <2>2 DEF internal_ibstop
<1>13. CASE CollectAio(t)
  <2>1. [Conf(t) EXCEPT !.in_progress = FALSE] \in Confs
    BY <1>6, <1>13, ConfType DEF CollectAio
  <2>2. QED
    BY <1>1, <1>4, <1>13, <2>1 DEF CollectAio
<1>14. QED
  BY <1>5, <1>7, <1>8, <1>9, <1>10, <1>11, <1>12, <1>13

(* Steps with an ioctl.                                                      *)
LEMMA IoctlSteps ==
  ASSUME IInv, NEW t \in Threads,
         \/ is_cic(t) \/ my_wait(t) \/ StatusOutOfCharge(t) \/ send_setup(t)
         \/ InternalReceiveSetup(t) \/ Transfer(t) \/ serial_poll(t) \/ ChangePrimary(t)
  PROVE  Good
<1>1. Array /\ raised \in BOOLEAN /\ usec_timeout \in Nat /\ aborted \in BOOLEAN
  BY DEF IInv, TypeOK, Array
<1>2. UNCHANGED link => Client /\ Array' /\ raised' \in BOOLEAN
  BY <1>1 DEF Array, link, Client
<1>3. call[t].pad \in Pads /\ MaxOpen \in Nat
  BY LibraryAssumption DEF IInv, TypeOK, CallRecords
<1>4. ASSUME NEW step, At(t, step), step # "insert" PROVE Conf(t) \in Confs
  BY <1>4, InTable
<1>5. ASSUME NEW step, At(t, step), step # "insert", Client, Array', raised' \in BOOLEAN,
             GoesOn(t), UNCHANGED <<usec_timeout, ibConfigs, known, aborted>>
      PROVE  Good
  BY <1>1, <1>5, KeptConf DEF Good, Others
<1>6. ASSUME NEW h, Keeps(h) PROVE raised' \in BOOLEAN
  BY <1>6 DEF Keeps
<1>7. CASE is_cic(t)
  <2>1. PICK step \in {"cic", "own_cic"} : At(t, step)
    BY <1>7 DEF is_cic
  <2>2. CASE Advance(t) /\ UNCHANGED link
    BY <1>2, <1>5, <1>7, <2>1, <2>2 DEF is_cic, GoesOn
  <2>3. CASE Link!wait_ioctl(0, "none") /\ GoesOn(t)
    <3>1. 0 \in -1 .. MaxOpen
      BY <1>3
    <3>2. Client /\ Array' /\ Keeps(0)
      BY <1>1, <2>3, <3>1, WaitStep
    <3>3. QED
      BY <1>5, <1>6, <1>7, <2>1, <2>3, <3>2 DEF is_cic
  <2>4. QED
    BY <1>7, <2>2, <2>3 DEF is_cic, GoesOn
<1>8. CASE my_wait(t)
  <2>1. PICK step \in {"status", "status_set_CMPL", "status_clear_CMPL"},
             mask \in {"none", "set_CMPL", "clear_CMPL"} :
             At(t, step) /\ Link!wait_ioctl(Conf(t).handle, mask)
    BY <1>8 DEF my_wait
  <2>2. Conf(t).handle \in -1 .. MaxOpen
    BY <1>4, <2>1 DEF Confs
  <2>3. Client /\ Array' /\ Keeps(Conf(t).handle)
    BY <1>1, <2>1, <2>2, WaitStep
  <2>4. QED
    BY <1>5, <1>6, <1>8, <2>1, <2>3 DEF my_wait, GoesOn
<1>9. ASSUME NEW step, At(t, step), step # "insert",
             Link!transfer_ioctl(Conf(t).handle), Outcome(t),
             UNCHANGED <<usec_timeout, ibConfigs, known, aborted>>
      PROVE  Good
  <2>1. Conf(t).handle \in -1 .. MaxOpen
    BY <1>4, <1>9 DEF Confs
  <2>2. Client /\ Array' /\ Keeps(Conf(t).handle)
    BY <1>1, <1>9, <2>1, TransferStep
  <2>3. QED
    BY <1>5, <1>6, <1>9, <2>2, OutcomeGoesOn
<1>10. CASE send_setup(t)
  BY <1>9, <1>10 DEF send_setup, Command
<1>11. CASE InternalReceiveSetup(t)
  <2>1. CASE Fail(t) /\ UNCHANGED <<link, bus, blind>>
    BY <1>2, <1>5, <1>11, <2>1 DEF InternalReceiveSetup, GoesOn
  <2>2. QED
    BY <1>9, <1>11, <2>1 DEF InternalReceiveSetup, Command
<1>12. CASE Transfer(t)
  BY <1>9, <1>12 DEF Transfer
<1>13. CASE serial_poll(t)
  <2>1. Conf(t).pad \in Pads /\ Conf(t).sad \in Sads
    BY <1>4, <1>13, LibraryAssumption DEF serial_poll, Confs
  <2>2. Client /\ Array' /\ \A h : Keeps(h)
    BY <1>1, <1>13, <2>1, PollStep DEF serial_poll
  <2>3. QED
    BY <1>5, <1>6, <1>13, <2>2, OutcomeGoesOn DEF serial_poll
<1>14. CASE ChangePrimary(t)
  <2>1. Conf(t).handle \in -1 .. MaxOpen
    BY <1>4, <1>14 DEF ChangePrimary, Confs
  <2>2. Client /\ Array' /\ Keeps(Conf(t).handle)
    BY <1>1, <1>3, <1>14, <2>1, PadStep DEF ChangePrimary
  <2>3. QED
    BY <1>5, <1>6, <1>14, <2>2, OutcomeGoesOn DEF ChangePrimary
<1>15. CASE StatusOutOfCharge(t)
  <2>1. PICK step \in {"status", "status_set_CMPL", "status_clear_CMPL"} : At(t, step)
    BY <1>15 DEF StatusOutOfCharge
  <2>2. QED
    BY <1>2, <1>5, <1>15, <2>1 DEF StatusOutOfCharge, GoesOn
<1>16. QED
  BY <1>7, <1>8, <1>10, <1>11, <1>12, <1>13, <1>14, <1>15

(* Steps with an ioctl that change the descriptor by its reply.              *)
LEMMA TableSteps ==
  ASSUME IInv, NEW t \in Threads,
         conf_online(t) \/ ChangeSecondary(t) \/ close_gpib_handle(t)
  PROVE  Good
<1>1. Array /\ raised \in BOOLEAN /\ usec_timeout \in Nat /\ aborted \in BOOLEAN
  BY DEF IInv, TypeOK, Array
<1>2. UNCHANGED link => Client /\ Array' /\ raised' \in BOOLEAN
  BY <1>1 DEF Array, link, Client
<1>3. call[t].pad \in Pads /\ MaxOpen \in Nat
  BY LibraryAssumption DEF IInv, TypeOK, CallRecords
<1>4. PICK step \in {"online", "IBSAD", "IBCLOSEDEV"} : At(t, step)
  BY DEF conf_online, ChangeSecondary, close_gpib_handle
<1>5. Conf(t) \in Confs
  BY <1>4, InTable
<1>6. /\ Conf(t).handle \in -1 .. MaxOpen /\ Conf(t).pad \in Pads /\ Conf(t).sad \in Sads
      /\ Interface(t) \in BOOLEAN
  BY <1>5, LibraryAssumption DEF Confs, Interface
<1>7. ASSUME UNCHANGED ibConfigs, Client, Array', raised' \in BOOLEAN, GoesOn(t),
             UNCHANGED <<usec_timeout, known, aborted>>
      PROVE  Good
  BY <1>1, <1>4, <1>7, KeptConf DEF Good, Others
<1>8. ASSUME NEW conf \in Confs, Assign(t, conf), Client, Array', raised' \in BOOLEAN,
             GoesOn(t), UNCHANGED <<usec_timeout, known, aborted>>
      PROVE  Good
  BY <1>1, <1>4, <1>8, KeptGoing DEF Assign, Good, Others
<1>9. CASE conf_online(t)
  <2>1. CASE Conf(t).board_is_open
    BY <1>2, <1>7, <1>9, <2>1 DEF conf_online, GoesOn
  <2>2. CASE ~Conf(t).board_is_open
    <3>1. Link!open_dev_ioctl(Conf(t).pad, Conf(t).sad, Interface(t))
      BY <1>9, <2>2 DEF conf_online
    <3>2. /\ Client /\ Array' /\ raised' \in BOOLEAN
          /\ reply'.handle \in 0 .. Len(m_descriptors') - 1
      BY <1>1, <1>6, <3>1, OpenStep
    <3>3. reply'.handle \in -1 .. MaxOpen
      BY <1>3, <3>2 DEF Array
    <3>4. [Conf(t) EXCEPT !.handle = reply'.handle, !.board_is_open = TRUE] \in Confs
      BY <1>5, <3>3, ConfType
    <3>5. QED
      BY <1>8, <1>9, <2>2, <3>2, <3>4 DEF conf_online, GoesOn
  <2>3. QED
    BY <2>1, <2>2
<1>10. CASE ChangeSecondary(t)
  <2>1. Client /\ Array' /\ Keeps(Conf(t).handle)
    BY <1>1, <1>6, <1>10, SadStep DEF ChangeSecondary
  <2>2. [Conf(t) EXCEPT !.pad = call[t].pad] \in Confs
    BY <1>3, <1>5, ConfType
  <2>3. QED
    BY <1>7, <1>8, <1>10, <2>1, <2>2, OutcomeGoesOn DEF ChangeSecondary, Keeps
<1>11. CASE close_gpib_handle(t)
  <2>1. CASE Conf(t).handle < 0
    BY <1>2, <1>7, <1>11, <2>1 DEF close_gpib_handle, GoesOn
  <2>2. CASE ~(Conf(t).handle < 0)
    <3>1. Client /\ Array' /\ raised' \in BOOLEAN
      BY <1>1, <1>6, <1>11, <2>2, CloseStep DEF close_gpib_handle
    <3>2. -1 \in -1 .. MaxOpen
      BY <1>3
    <3>3. [Conf(t) EXCEPT !.handle = -1] \in Confs
      BY <1>5, <3>2, ConfType
    <3>4. QED
      BY <1>7, <1>8, <1>11, <2>2, <3>1, <3>3, OutcomeGoesOn DEF close_gpib_handle
  <2>3. QED
    BY <2>1, <2>2
<1>12. QED
  BY <1>9, <1>10, <1>11

(* ibwait's answer ends the call, or leaves the result to collect.           *)
LEMMA IbwaitStep ==
  ASSUME IInv, NEW t \in Threads, IbwaitAnswer(t)
  PROVE  Good
<1>1. Array /\ raised \in BOOLEAN /\ usec_timeout \in Nat /\ aborted \in BOOLEAN
  BY DEF IInv, TypeOK, Array
<1>2. At(t, "wait") /\ (UNCHANGED link \/ Link!wait_ioctl(Conf(t).handle, "none"))
      /\ UNCHANGED <<usec_timeout, bus, ibConfigs, known, aborted>>
  BY DEF IbwaitAnswer
<1>3. Conf(t) \in Confs /\ call[t] \in CallRecords /\ call[t].ud \in Uds
  BY <1>2, InTable, AtBusy
<1>4. Conf(t).handle \in -1 .. MaxOpen
  BY <1>3 DEF Confs
<1>5. Client /\ Array' /\ raised' \in BOOLEAN
  <2>1. UNCHANGED link => Client /\ Array' /\ raised' \in BOOLEAN
    BY <1>1 DEF Array, link, Client
  <2>2. QED
    BY <1>1, <1>2, <1>4, <2>1, WaitStep DEF Keeps
<1>6. Others
  BY <1>1, <1>2, <1>5 DEF Others
<1>7. CASE GoesOn(t)
  BY <1>2, <1>5, <1>6, <1>7, KeptConf DEF Good
<1>8. ASSUME NEW last \in {<<"collect">>, <<>>},
             call' = [call EXCEPT ![t].todo = <<>>, ![t].last = last]
      PROVE  Good
  <2> DEFINE c == [call[t] EXCEPT !.todo = <<>>, !.last = last]
  <2>1. last \in Seq(EndSteps) /\ <<>> \in Seq(WorkSteps \union {"insert"})
    <3>1. <<"collect">> \in Seq(EndSteps) /\ <<>> \in Seq(EndSteps)
      BY DEF EndSteps
    <3>2. <<>> \in Seq(WorkSteps \union {"insert"})
      OBVIOUS
    <3>3. QED
      BY <1>8, <3>1, <3>2
  <2>2. c \in CallRecords /\ c.ud = call[t].ud /\ c.todo = <<>>
    BY <1>3, <2>1 DEF CallRecords
  <2>3. call' = [call EXCEPT ![t] = c]
    BY <1>8
  <2>4. ibConfigs' = [ibConfigs EXCEPT ![call[t].ud] = Conf(t)]
    BY <1>2, <1>3 DEF IInv, TypeOK, Conf
  <2>5. Moves(t, Conf(t), c)
    BY <1>2, <2>3, <2>4 DEF Moves
  <2>6. ~Has(c.todo, "insert")
    BY <2>2 DEF Has
  <2> HIDE DEF c
  <2>7. IInv'
    BY <1>3, <1>6, <2>2, <2>5, <2>6, Kept
  <2>8. QED
    BY <1>5, <2>7 DEF Good
<1>9. QED
  BY <1>7, <1>8, OutcomeGoesOn DEF IbwaitAnswer, GoesOn

(* A thread that begins a call takes up a descriptor the program knows, or   *)
(* one that is free.                                                         *)
LEMMA BeginStep ==
  ASSUME IInv, NEW t \in Threads, NEW c \in CallRecords, ~Busy(t),
         call' = [call EXCEPT ![t] = c],
         UNCHANGED <<link, usec_timeout, bus, ibConfigs, known, aborted>>,
         \/ c.ud \in known /\ ~Has(c.todo, "insert")
         \/ c.ud \in Devices /\ c.todo # <<>> /\ Head(c.todo) = "insert"
  PROVE  Good
<1>1. /\ Array /\ call \in [Threads -> CallRecords]
  BY DEF IInv, TypeOK, Array
<1>2. Client
  BY DEF Client
<1>3. TypeOK'
  BY <1>1 DEF IInv, TypeOK, link
<1>4. \A ud \in known' : ibConfigs'[ud] # NoConf
  BY DEF IInv, Configured
<1>5. ASSUME NEW u \in Threads
      PROVE  /\ Busy(u)' => Conf(u)' # NoConf \/ Inserting(u)'
             /\ Has(call'[u].todo, "insert") => call'[u].ud \in Devices
  <2>1. CASE u = t
    <3>1. call'[u] = c
      BY <1>1, <2>1
    <3>2. CASE c.ud \in known /\ ~Has(c.todo, "insert")
      <4>1. ibConfigs[c.ud] # NoConf
        BY <3>2 DEF IInv, Configured
      <4>2. QED
        BY <3>1, <3>2, <4>1 DEF Conf
    <3>3. CASE c.ud \in Devices /\ c.todo # <<>> /\ Head(c.todo) = "insert"
      BY <3>1, <3>3 DEF Inserting
    <3>4. QED
      BY <3>2, <3>3
  <2>2. CASE u # t
    <3>1. call'[u] = call[u]
      BY <1>1, <2>2
    <3>2. /\ Conf(u)' = Conf(u) /\ (Busy(u)' <=> Busy(u))
          /\ (Inserting(u)' <=> Inserting(u))
      BY <3>1 DEF Busy, Inserting, Conf
    <3>3. QED
      BY <3>1, <3>2 DEF IInv, Configured
  <2>3. QED
    BY <2>1, <2>2
<1>6. QED
  BY <1>2, <1>3, <1>4, <1>5 DEF IInv, Configured, Good

(* A call begins with lists of steps of the right kind, and only ibdev puts  *)
(* a descriptor in the table.                                                *)
LEMMA BeginCallRecord ==
  ASSUME IInv, NEW t \in Threads, NEW op, NEW ud, NEW usec,
         NEW pad \in {0} \union DevicePads \union SadArgs,
         BeginCall(t, op, ud, pad, usec)
  PROVE  /\ NewCall(ud, pad, usec, StepsOf(op, ibConfigs[ud])) \in CallRecords
         /\ ~Has(StepsOf(op, ibConfigs[ud]).todo, "insert")
<1>1. /\ op \in LibraryCalls /\ ud \in known /\ ud \in Uds /\ pad \in Pads /\ usec \in Nat
  BY LibraryAssumption DEF BeginCall, IInv, TypeOK
<1>2. ibConfigs[ud].is_interface \in BOOLEAN
  BY <1>1 DEF IInv, TypeOK, Configured, Confs
<1>3. /\ StepsOf(op, ibConfigs[ud]).todo \in Seq(WorkSteps)
      /\ StepsOf(op, ibConfigs[ud]).last \in Seq(EndSteps \ {"return_ud"})
  BY <1>1, <1>2, CallLists
<1>4. /\ StepsOf(op, ibConfigs[ud]).todo \in Seq(WorkSteps \union {"insert"})
      /\ StepsOf(op, ibConfigs[ud]).last \in Seq(EndSteps)
  BY <1>3
<1>5. ~Has(StepsOf(op, ibConfigs[ud]).todo, "insert")
  <2>1. "insert" \notin WorkSteps
    BY DEF WorkSteps
  <2>2. QED
    BY <1>3, <2>1, HasOnly
<1>6. QED
  BY <1>1, <1>4, <1>5 DEF NewCall, CallRecords

(* The beginning of a call, of an ibdev or of the first configuration keeps  *)
(* the invariant and asks nothing of the driver.                             *)
LEMMA BeginSteps ==
  ASSUME IInv, NEW t \in Threads, Begin(t)
  PROVE  Good
<1>1. CASE \E op \in Calls, ud \in Uses[t], pad \in {0} \union DevicePads \union SadArgs,
              usec \in {0} \union Timeouts : BeginCall(t, op, ud, pad, usec)
  <2>1. PICK op \in Calls, ud \in Uses[t], pad \in {0} \union DevicePads \union SadArgs,
             usec \in {0} \union Timeouts : BeginCall(t, op, ud, pad, usec)
    BY <1>1
  <2> DEFINE steps == StepsOf(op, ibConfigs[ud])
             c == NewCall(ud, pad, usec, steps)
  <2>2. c \in CallRecords /\ ~Has(steps.todo, "insert")
    BY <2>1, BeginCallRecord
  <2>3. /\ ~Busy(t) /\ call' = [call EXCEPT ![t] = c] /\ ud \in known
        /\ UNCHANGED <<link, usec_timeout, bus, ibConfigs, known, aborted>>
    BY <2>1 DEF BeginCall, Ready
  <2>4. c.ud = ud /\ c.todo = steps.todo
    BY DEF NewCall
  <2> HIDE DEF c, steps
  <2>5. QED
    BY <2>2, <2>3, <2>4, BeginStep
<1>2. CASE \E pad \in DevicePads, usec \in Timeouts : BeginIbdev(t, pad, usec)
  <2>1. PICK pad \in DevicePads, usec \in Timeouts : BeginIbdev(t, pad, usec)
    BY <1>2
  <2>2. PICK ud \in Free : call' = [call EXCEPT ![t] = NewCall(ud, pad, usec, ibdev)]
    BY <2>1 DEF BeginIbdev
  <2> DEFINE c == NewCall(ud, pad, usec, ibdev)
  <2>3. ud \in Devices /\ ud \in Uds /\ pad \in Pads /\ usec \in Nat
    BY LibraryAssumption DEF Free, Devices, Uds
  <2>4. ibdev.todo \in Seq(WorkSteps \union {"insert"}) /\ ibdev.last \in Seq(EndSteps)
    BY FirstLists DEF WorkSteps, EndSteps
  <2>5. c \in CallRecords
    BY <2>3, <2>4 DEF NewCall, CallRecords
  <2>6. c.ud = ud /\ c.todo # <<>> /\ Head(c.todo) = "insert"
    BY IbdevInserts DEF NewCall
  <2>7. ~Busy(t) /\ UNCHANGED <<link, usec_timeout, bus, ibConfigs, known, aborted>>
    BY <2>1 DEF BeginIbdev, Ready
  <2> HIDE DEF c
  <2>8. QED
    BY <2>2, <2>3, <2>5, <2>6, <2>7, BeginStep DEF c
<1>3. QED
  BY <1>1, <1>2 DEF Begin

-----------------------------------------------------------------------------
(* The library starts in the invariant, with the board's descriptor in place *)
(* and one thread that configures it.                                        *)
LEMMA InitGood == ASSUME Init PROVE IInv /\ Link!Init
<1>1. Link!Init
  BY SMT DEF Init
<1>2. m_descriptors = <<>> /\ raised = FALSE
  BY <1>1 DEF Link!Init
<1>3. Array
  BY <1>2, LibraryAssumption DEF Array
<1>4. ibConfigs \in [Uds -> Confs \union {NoConf}] /\ ibConfigs[0] # NoConf /\ 0 \in Uds
  <2> DEFINE usec == 3000000
  <2>0. usec \in Nat
    BY SMT
  <2>1. ibConfigs = [ud \in Uds |-> IF ud = 0 THEN init_ibconf(0, usec, TRUE) ELSE NoConf]
    BY SMT DEF Init
  <2> HIDE DEF usec
  <2> DEFINE board == init_ibconf(0, usec, TRUE)
  <2>2. 0 \in Pads /\ TRUE \in BOOLEAN
    BY LibraryAssumption
  <2>3. board \in Confs
    BY <2>0, <2>2, FreshType
  <2>4. board # NoConf
    BY <2>3, ConfIsThere
  <2>5. 0 \in Uds
    BY LibraryAssumption DEF Uds
  <2> HIDE DEF board
  <2>6. QED
    BY <2>1, <2>3, <2>4, <2>5 DEF board
<1>5. ASSUME NEW t \in Threads
      PROVE  call[t] \in CallRecords /\ call[t].ud = 0 /\ ~Has(call[t].todo, "insert")
  <2>1. 0 \in Uds /\ 0 \in Pads /\ 0 \in Nat
    BY LibraryAssumption DEF Uds
  <2>2. CASE t = Boot
    <3>1. call[t] = NewCall(0, 0, 0, configure_board)
      BY <2>2, SMT DEF Init
    <3>2. /\ configure_board.todo \in Seq({"online", "IBPAD", "IBSAD"})
          /\ configure_board.last \in Seq({"return_ud"})
      BY FirstLists
    <3>3. /\ configure_board.todo \in Seq(WorkSteps \union {"insert"})
          /\ configure_board.last \in Seq(EndSteps)
      BY <3>2 DEF WorkSteps, EndSteps
    <3>4. ~Has(configure_board.todo, "insert")
      BY <3>2, HasOnly
    <3>5. QED
      BY <2>1, <3>1, <3>3, <3>4 DEF NewCall, CallRecords
  <2>3. CASE t # Boot
    <3>1. call[t] = NewCall(0, 0, 0, Steps(<<>>, <<>>))
      BY <2>3, SMT DEF Init
    <3>2. <<>> \in Seq(WorkSteps \union {"insert"}) /\ <<>> \in Seq(EndSteps)
      OBVIOUS
    <3>3. QED
      BY <2>1, <3>1, <3>2 DEF NewCall, CallRecords, Steps, Has
  <2>4. QED
    BY <2>2, <2>3
<1>6. call \in [Threads -> CallRecords]
  <2>1. DOMAIN call = Threads /\ call = [t \in Threads |-> call[t]]
    BY SMT DEF Init
  <2>2. QED
    BY <1>5, <2>1
<1>7. TypeOK
  <2>1. usec_timeout = 0 /\ known = {} /\ aborted = FALSE
    BY SMT DEF Init
  <2>2. QED
    BY <1>2, <1>3, <1>4, <1>6, <2>1 DEF TypeOK, Array
<1>8. Configured
  <2>1. known = {}
    BY SMT DEF Init
  <2>2. QED
    BY <1>4, <1>5, <2>1 DEF Configured, Conf
<1>9. QED
  BY <1>1, <1>7, <1>8 DEF IInv

(* So does each step of a call, with a request of a client of GpibLink.      *)
LEMMA StepGood ==
  ASSUME IInv, NEW t \in Threads, Step(t)
  PROVE  Good
  BY QuietSteps, ConfSteps, IoctlSteps, TableSteps, IbwaitStep DEF Step

(* So does every step of the library.                                        *)
LEMMA NextGood == ASSUME IInv, [Next]_vars PROVE Good
<1>1. CASE Next
  BY <1>1, BeginSteps, StepGood DEF Next
<1>2. CASE UNCHANGED vars
  <2>1. IInv' /\ UNCHANGED link
    BY <1>2 DEF vars, link, IInv, TypeOK, Configured, Busy, Inserting, Conf
  <2>2. QED
    BY <2>1 DEF Good, Client
<1>3. QED
  BY <1>1, <1>2

(* In every state the library's table, calls and handles are what the steps   *)
(* of a call take them for: a call finds its descriptor in the table from    *)
(* its first step to its last, whatever other threads do with it.            *)
THEOREM LibraryInvariance == Spec => []IInv
<1>1. Init => IInv
  BY InitGood
<1>2. IInv /\ [Next]_vars => IInv'
  BY NextGood DEF Good
<1>3. QED
  BY <1>1, <1>2, PTL DEF Spec

(* The calls of the library, whatever the threads and however their steps   *)
(* interleave, are steps of the clients of GpibLink, so that what is proved  *)
(* there for all clients holds for the library.                              *)
LEMMA LibraryIsClient == Spec => Link!Spec
<1>1. Init => Link!Init
  BY InitGood
<1>2. IInv /\ [Next]_vars => [Link!Next]_(Link!vars)
  BY NextGood DEF Good, Client, link, Link!vars
<1>3. QED
  BY <1>1, <1>2, LibraryInvariance, PTL DEF Spec, Link!Spec

-----------------------------------------------------------------------------
(* NoRaise, where no thread calls ibonl.  A handle stays good as long as no  *)
(* descriptor is closed; handle 0, which every call asks, is good once the   *)
(* board has been configured, and until then no other call is made.          *)
Sound(conf, n) == conf.handle < n /\ (conf.board_is_open => conf.handle >= 0)
HandlesGood ==
  \A ud \in Uds : ibConfigs[ud] # NoConf => Sound(ibConfigs[ud], Len(m_descriptors))

Starting(c, conf) ==
  /\ c.ud = 0
  /\ c.todo \in Seq({"online", "IBPAD", "IBSAD"}) /\ c.last \in Seq({"return_ud"})
  /\ conf.board_is_open \/ (c.todo # <<>> /\ Head(c.todo) = "online")
Started ==
  IF 0 \in known THEN Len(m_descriptors) >= 1
  ELSE \A t \in Threads : Busy(t) => Starting(call[t], Conf(t))

NoClose == \A t \in Threads : ~Has(call[t].last, "IBCLOSEDEV")

HandleInv == HandlesGood /\ Started /\ NoClose /\ ~raised

(* A call that configures the board goes on as one.                          *)
LEMMA RestStarting ==
  ASSUME NEW c \in CallRecords, Ongoing(c), NEW d \in {c, Rest(c), Exit(c)}, NEW conf,
         Starting(c, conf)
  PROVE  /\ d.ud = 0
         /\ d.todo \in Seq({"online", "IBPAD", "IBSAD"}) /\ d.last \in Seq({"return_ud"})
<1>1. /\ c.todo \in Seq({"online", "IBPAD", "IBSAD"}) /\ c.last \in Seq({"return_ud"})
      /\ <<>> \in Seq({"online", "IBPAD", "IBSAD"})
  BY DEF Starting
<1>2. c.todo # <<>> => Tail(c.todo) \in Seq({"online", "IBPAD", "IBSAD"})
  BY <1>1
<1>3. c.last # <<>> => Tail(c.last) \in Seq({"return_ud"})
  BY <1>1
<1>4. d.todo \in {c.todo, <<>>} \/ (c.todo # <<>> /\ d.todo = Tail(c.todo))
  BY DEF Rest, Exit, CallRecords
<1>5. d.last = c.last \/ (c.last # <<>> /\ d.last = Tail(c.last))
  BY DEF Rest, Exit, CallRecords, Ongoing
<1>6. d.ud = c.ud
  BY DEF Rest, Exit, CallRecords
<1>7. QED
  BY <1>1, <1>2, <1>3, <1>4, <1>5, <1>6 DEF Starting

(* A step of a call keeps the handles good when the descriptor it leaves     *)
(* has a handle inside the array, is open if it was, and is open after       *)
(* going on line, and when the array is not shorter.                         *)
LEMMA HandlesKept ==
  ASSUME IInv, IInv', HandleInv, NEW t \in Threads, NEW step, At(t, step),
         NEW conf \in Confs, NEW c \in CallRecords, Moves(t, conf, c), c.ud = call[t].ud,
         Len(m_descriptors') >= Len(m_descriptors), ~raised',
         Sound(conf, Len(m_descriptors')), ~Has(c.last, "IBCLOSEDEV"),
         step = "online" => conf.board_is_open,
         step # "insert" => (Conf(t).board_is_open => conf.board_is_open),
         step # "return_ud" => known' = known,
         0 \notin known => c \in {call[t], Rest(call[t]), Exit(call[t])}
  PROVE  HandleInv'
<1>1. /\ ibConfigs \in [Uds -> Confs \union {NoConf}] /\ call \in [Threads -> CallRecords]
      /\ known \subseteq Uds /\ call[t].ud \in Uds
      /\ Len(m_descriptors) \in Nat /\ Len(m_descriptors') \in Nat
  <2>1. /\ ibConfigs \in [Uds -> Confs \union {NoConf}] /\ call \in [Threads -> CallRecords]
        /\ known \subseteq Uds
    BY DEF IInv, TypeOK
  <2>2. call[t].ud \in Uds
    BY <2>1 DEF CallRecords
  <2>3. m_descriptors \in Seq(Link!Descriptor) /\ m_descriptors' \in Seq(Link!Descriptor)
    BY DEF IInv, TypeOK
  <2>4. Len(m_descriptors) \in Nat /\ Len(m_descriptors') \in Nat
    BY <2>3
  <2>5. QED
    BY <2>1, <2>2, <2>4
<1>2. HandlesGood'
  <2>1. ASSUME NEW ud \in Uds, ibConfigs'[ud] # NoConf
        PROVE  Sound(ibConfigs'[ud], Len(m_descriptors'))
    <3>1. CASE ud = call[t].ud
      BY <1>1, <3>1 DEF Moves
    <3>2. CASE ud # call[t].ud
      <4>1. ibConfigs'[ud] = ibConfigs[ud] /\ ibConfigs[ud] \in Confs
        BY <1>1, <2>1, <3>2 DEF Moves
      <4>2. ibConfigs[ud].handle \in Int
        BY <4>1, LibraryAssumption DEF Confs
      <4>3. QED
        BY <1>1, <2>1, <4>1, <4>2 DEF HandleInv, HandlesGood, Sound
    <3>3. QED
      BY <3>1, <3>2
  <2>2. QED
    BY <2>1 DEF HandlesGood
<1>3. NoClose'
  BY <1>1 DEF HandleInv, NoClose, Moves
<1>4. Started'
  <2>1. CASE 0 \in known
    <3>1. 0 \in known' /\ Len(m_descriptors) >= 1
      BY <2>1 DEF Moves, HandleInv, Started
    <3>2. QED
      BY <1>1, <3>1 DEF Started
  <2>2. CASE 0 \notin known
    <3>1. Starting(call[t], Conf(t)) /\ call[t].ud = 0
      BY <2>2 DEF At, HandleInv, Started, Starting
    <3>2. /\ call[t] \in CallRecords /\ Ongoing(call[t])
          /\ \/ call[t].todo # <<>> /\ Head(call[t].todo) = step
             \/ call[t].todo = <<>> /\ call[t].last # <<>> /\ Head(call[t].last) = step
      BY AtBusy
    <3>3. /\ step \in {"online", "IBPAD", "IBSAD", "return_ud"}
          /\ step = "online" \/ Conf(t).board_is_open
          /\ call[t].todo \in Seq({"online", "IBPAD", "IBSAD"})
      BY <3>1, <3>2 DEF Starting
    <3>4. conf.board_is_open
      BY <3>3
    <3>5. Len(m_descriptors') >= 1
      <4>1. conf.handle \in Int /\ conf.handle >= 0 /\ conf.handle < Len(m_descriptors')
        BY <3>4, LibraryAssumption DEF Sound, Confs
      <4>2. QED
        BY <1>1, <4>1
    <3>6. ASSUME NEW u \in Threads, Busy(u)' PROVE Starting(call'[u], Conf(u)')
      <4>1. CASE u = t
        <5>1. call'[u] = c /\ Conf(u)' = conf
          BY <1>1, <4>1 DEF Moves, Conf
        <5>2. c.ud = 0 /\ c.todo \in Seq({"online", "IBPAD", "IBSAD"})
              /\ c.last \in Seq({"return_ud"})
          BY <2>2, <3>1, <3>2, RestStarting
        <5>3. QED
          BY <3>4, <5>1, <5>2 DEF Starting
      <4>2. CASE u # t
        <5>1. call'[u] = call[u]
          BY <1>1, <4>2 DEF Moves
        <5>2. Busy(u)
          BY <3>6, <5>1 DEF Busy
        <5>3. Starting(call[u], Conf(u))
          BY <2>2, <5>2 DEF HandleInv, Started
        <5>4. Conf(u)' = conf
          BY <1>1, <3>1, <5>1, <5>3 DEF Moves, Conf, Starting
        <5>5. QED
          BY <3>4, <5>1, <5>3, <5>4 DEF Starting
      <4>3. QED
        BY <4>1, <4>2
    <3>7. QED
      BY <3>5, <3>6 DEF Started
  <2>3. QED
    BY <2>1, <2>2
<1>5. QED
  BY <1>2, <1>3, <1>4 DEF HandleInv

(* ... the step goes on with the call.                                       *)
LEMMA HandlesGoOn ==
  ASSUME IInv, IInv', HandleInv, NEW t \in Threads, NEW step, At(t, step), GoesOn(t),
         NEW conf \in Confs, ibConfigs' = [ibConfigs EXCEPT ![call[t].ud] = conf],
         known' \in {known, known \union {call[t].ud}},
         Len(m_descriptors') >= Len(m_descriptors), ~raised',
         Sound(conf, Len(m_descriptors')),
         step = "online" => conf.board_is_open,
         step # "insert" => (Conf(t).board_is_open => conf.board_is_open),
         step # "return_ud" => known' = known
  PROVE  HandleInv'
<1>1. PICK c \in {call[t], Rest(call[t]), Exit(call[t])} : call' = [call EXCEPT ![t] = c]
  BY GoesTo DEF IInv
<1>2. /\ c \in CallRecords /\ c.ud = call[t].ud
      /\ Has(c.last, "IBCLOSEDEV") => Has(call[t].last, "IBCLOSEDEV")
  BY AtBusy, RestType
<1>3. ~Has(c.last, "IBCLOSEDEV")
  BY <1>2 DEF HandleInv, NoClose
<1>4. Moves(t, conf, c)
  BY <1>1 DEF Moves
<1>5. QED
  BY <1>1, <1>2, <1>3, <1>4, HandlesKept

(* Most steps do not touch the handle, ...                                   *)
SameHandle(conf, old) ==
  conf.handle = old.handle /\ conf.board_is_open = old.board_is_open

(* So does a step that goes on with its call and leaves handle and           *)
(* board_is_open of its descriptor as they were.                             *)
LEMMA HandleSame ==
  ASSUME IInv, IInv', HandleInv, NEW t \in Threads, NEW step, At(t, step), GoesOn(t),
         step \notin {"insert", "online"},
         NEW conf \in Confs, ibConfigs' = [ibConfigs EXCEPT ![call[t].ud] = conf],
         known' \in {known, known \union {call[t].ud}},
         Len(m_descriptors') = Len(m_descriptors), ~raised',
         SameHandle(conf, Conf(t)),
         step # "return_ud" => known' = known
  PROVE  HandleInv'
<1>1. Conf(t) \in Confs /\ call[t].ud \in Uds
  BY InTable, AtBusy
<1>2. Sound(Conf(t), Len(m_descriptors))
  BY <1>1, ConfIsThere DEF HandleInv, HandlesGood, Conf
<1>3. Len(m_descriptors') >= Len(m_descriptors)
  BY DEF IInv, TypeOK
<1>4. QED
  BY <1>2, <1>3, HandlesGoOn DEF Sound, SameHandle

(* ... or the descriptor at all.                                             *)
LEMMA ConfSame ==
  ASSUME IInv, IInv', HandleInv, NEW t \in Threads, NEW step, At(t, step), GoesOn(t),
         step \notin {"insert", "online"}, ibConfigs' = ibConfigs,
         known' \in {known, known \union {call[t].ud}},
         Len(m_descriptors') = Len(m_descriptors), ~raised',
         step # "return_ud" => known' = known
  PROVE  HandleInv'
<1>1. Conf(t) \in Confs
  BY InTable
<1>2. ibConfigs' = [ibConfigs EXCEPT ![call[t].ud] = Conf(t)]
  BY AtBusy DEF IInv, TypeOK, Conf
<1>3. SameHandle(Conf(t), Conf(t))
  BY DEF SameHandle
<1>4. QED
  BY <1>1, <1>2, <1>3, HandleSame

(* An ioctl with a good handle, or a poll, does not end the process.         *)
LEMMA HandleRange ==
  ASSUME IInv, HandleInv, NEW t \in Threads, NEW step, At(t, step), step # "insert"
  PROVE  /\ Conf(t) \in Confs
         /\ Conf(t).handle \in -1 .. MaxOpen /\ Conf(t).handle < Len(m_descriptors)
         /\ Len(m_descriptors) \in Nat
<1>1. Conf(t) \in Confs /\ call[t].ud \in Uds
  BY InTable, AtBusy
<1>2. Sound(Conf(t), Len(m_descriptors))
  BY <1>1, ConfIsThere DEF HandleInv, HandlesGood, Conf
<1>3. QED
  BY <1>1, <1>2 DEF Sound, Confs, IInv, TypeOK

(* A request with a handle inside the array does not raise.                  *)
LEMMA NoRaiseWithin ==
  ASSUME IInv, HandleInv, NEW h \in -1 .. MaxOpen, h < Len(m_descriptors), Keeps(h)
  PROVE  ~raised' /\ Len(m_descriptors') = Len(m_descriptors)
  BY LibraryAssumption DEF Keeps, HandleInv, IInv, TypeOK

(* The steps without an ioctl change other fields of a descriptor.           *)
LEMMA ConfHandle ==
  ASSUME NEW old \in Confs
  PROVE  /\ \A b : SameHandle([old EXCEPT !.has_lock = b], old)
         /\ \A b : SameHandle([old EXCEPT !.in_progress = b], old)
         /\ \A usec : SameHandle([old EXCEPT !.usec_timeout = usec], old)
         /\ \A pad : SameHandle([old EXCEPT !.pad = pad], old)
         /\ \A u : SameHandle([old EXCEPT !.lock = u], old)
         /\ \A u, b : SameHandle([old EXCEPT !.lock = u, !.in_progress = b], old)
  BY DEF SameHandle, Confs

(* The steps that ask nothing of an array of descriptors keep the handles    *)
(* good.                                                                     *)
LEMMA QuietHandles ==
  ASSUME IInv, IInv', HandleInv, NEW t \in Threads,
         \/ return_ud(t) \/ LookForAio(t) \/ AssertUnlocked(t) \/ set_timeout(t)
         \/ insert_descriptor(t) \/ conf_lock_board(t) \/ conf_unlock_board(t)
         \/ internal_ibtmo(t) \/ AioBegin(t) \/ AioEnd(t) \/ internal_ibstop(t)
         \/ CollectAio(t)
  PROVE  HandleInv'
<1>1. UNCHANGED link => ~raised' /\ Len(m_descriptors') = Len(m_descriptors)
  BY DEF link, HandleInv
<1>2. ASSUME NEW step, At(t, step), step \notin {"insert", "online"}, UNCHANGED link,
             UNCHANGED ibConfigs, GoesOn(t),
             known' \in {known, known \union {call[t].ud}},
             step # "return_ud" => known' = known
      PROVE  HandleInv'
  BY <1>1, <1>2, ConfSame
<1>3. ASSUME NEW step, At(t, step), step \notin {"insert", "online"}, UNCHANGED link,
             Advance(t), NEW conf, Assign(t, conf), Conf(t) \in Confs => conf \in Confs,
             Conf(t) \in Confs => SameHandle(conf, Conf(t)), UNCHANGED known
      PROVE  HandleInv'
  <2>1. Conf(t) \in Confs
    BY <1>3, InTable
  <2>2. QED
    BY <1>1, <1>3, <2>1, HandleSame DEF Assign, GoesOn
<1>4. CASE return_ud(t)
  BY <1>2, <1>4 DEF return_ud, GoesOn
<1>5. CASE LookForAio(t)
  BY <1>2, <1>5 DEF LookForAio, GoesOn
<1>6. CASE AssertUnlocked(t)
  BY <1>2, <1>6 DEF AssertUnlocked, GoesOn
<1>7. CASE set_timeout(t)
  BY <1>2, <1>7 DEF set_timeout, GoesOn
<1>8. CASE insert_descriptor(t)
  <2> DEFINE conf == init_ibconf(call[t].pad, call[t].usec, FALSE)
  <2>1. call[t].pad \in Pads /\ call[t].usec \in Nat
    BY DEF IInv, TypeOK, CallRecords
  <2>2. conf \in Confs
    BY <2>1, FreshType
  <2>3. conf.handle = -1 /\ conf.board_is_open = FALSE
    BY DEF init_ibconf
  <2>4. At(t, "insert") /\ Advance(t) /\ UNCHANGED <<link, known>>
        /\ ibConfigs' = [ibConfigs EXCEPT ![call[t].ud] = conf]
    BY <1>8 DEF insert_descriptor, Assign
  <2> HIDE DEF conf
  <2>5. Sound(conf, Len(m_descriptors')) /\ Len(m_descriptors') >= Len(m_descriptors)
    BY <1>1, <2>3, <2>4 DEF Sound, IInv, TypeOK
  <2>6. GoesOn(t) /\ ~raised' /\ known' = known
    BY <1>1, <2>4 DEF GoesOn
  <2> DEFINE step == "insert"
  <2>7. step # "online" /\ At(t, step)
    BY <2>4
  <2> HIDE DEF step
  <2>8. step = "insert"
    BY DEF step
  <2>9. /\ known' \in {known, known \union {call[t].ud}}
        /\ step = "online" => conf.board_is_open
        /\ step # "insert" => (Conf(t).board_is_open => conf.board_is_open)
        /\ step # "return_ud" => known' = known
    BY <2>6, <2>7, <2>8
  <2>10. /\ ibConfigs' = [ibConfigs EXCEPT ![call[t].ud] = conf]
         /\ Len(m_descriptors') >= Len(m_descriptors) /\ Sound(conf, Len(m_descriptors'))
    BY <2>4, <2>5
  <2>11. QED
    BY <2>2, <2>6, <2>7, <2>9, <2>10, HandlesGoOn
<1>9. CASE conf_lock_board(t)
  <2> DEFINE conf == [Conf(t) EXCEPT !.has_lock = TRUE]
  <2>1. Conf(t) \in Confs => conf \in Confs /\ SameHandle(conf, Conf(t))
    BY ConfType, ConfHandle
  <2>2. QED
    BY <1>3, <1>9, <2>1 DEF conf_lock_board
<1>10. CASE conf_unlock_board(t)
  <2> DEFINE conf == [Conf(t) EXCEPT !.has_lock = FALSE]
  <2>1. Conf(t) \in Confs => conf \in Confs /\ SameHandle(conf, Conf(t))
    BY ConfType, ConfHandle
  <2>2. PICK step \in {"unlock", "unlock_held"} : At(t, step)
    BY <1>10 DEF conf_unlock_board
  <2>3. CASE UNCHANGED <<ibConfigs, call>>
    BY <1>2, <1>10, <2>2, <2>3 DEF conf_unlock_board, GoesOn
  <2>4. CASE Assign(t, conf) /\ Advance(t)
    BY <1>3, <1>10, <2>1, <2>2, <2>4 DEF conf_unlock_board
  <2>5. QED
    BY <1>10, <2>3, <2>4 DEF conf_unlock_board
<1>11. CASE internal_ibtmo(t)
  <2> DEFINE conf == [Conf(t) EXCEPT !.usec_timeout = call[t].usec]
  <2>1. Conf(t) \in Confs => conf \in Confs /\ SameHandle(conf, Conf(t))
    <3>1. call[t].usec \in Nat
      BY DEF IInv, TypeOK, CallRecords
    <3>2. QED
      BY <3>1, ConfType, ConfHandle
  <2>2. QED
    BY <1>3, <1>11, <2>1 DEF internal_ibtmo
<1>12. CASE AioBegin(t)
  <2> DEFINE conf == [Conf(t) EXCEPT !.lock = t, !.in_progress = TRUE]
  <2>1. Conf(t) \in Confs => conf \in Confs /\ SameHandle(conf, Conf(t))
    BY ConfType, ConfHandle
  <2>2. QED
    BY <1>3, <1>12, <2>1 DEF AioBegin
<1>13. CASE AioEnd(t)
  <2> DEFINE conf == [Conf(t) EXCEPT !.lock = NoThread, !.in_progress = FALSE]
  <2>1. Conf(t) \in Confs => conf \in Confs /\ SameHandle(conf, Conf(t))
    BY ConfType, ConfHandle
  <2>2. QED
    BY <1>3, <1>13, <2>1 DEF AioEnd
<1>14. CASE internal_ibstop(t)
  <2> DEFINE holder == IF Conf(t).in_progress THEN t ELSE NoThread
             conf == [Conf(t) EXCEPT !.lock = holder]
  <2>1. holder \in Threads \union {NoThread}
    OBVIOUS
  <2>2. At(t, "stop") /\ Assign(t, conf) /\ Advance(t) /\ UNCHANGED <<link, known>>
    BY <1>14 DEF internal_ibstop
  <2> HIDE DEF holder
  <2>3. Conf(t) \in Confs => conf \in Confs /\ SameHandle(conf, Conf(t))
    BY <2>1, ConfType, ConfHandle
  <2> HIDE DEF conf
  <2>4. QED
    BY <1>3, <2>2, <2>3
<1>15. CASE CollectAio(t)
  <2> DEFINE conf == [Conf(t) EXCEPT !.in_progress = FALSE]
  <2>1. Conf(t) \in Confs => conf \in Confs /\ SameHandle(conf, Conf(t))
    BY ConfType, ConfHandle
  <2>2. QED
    BY <1>3, <1>15, <2>1 DEF CollectAio
<1>16. QED
  BY <1>4, <1>5, <1>6, <1>7, <1>8, <1>9, <1>10, <1>11, <1>12, <1>13, <1>14, <1>15

(* The steps with an ioctl: handle 0 is in the table for the calls that ask  *)
(* it.                                                                       *)
LEMMA HandleZero ==
  ASSUME IInv, HandleInv, NEW t \in Threads, NEW step, At(t, step),
         step \notin {"online", "IBPAD", "IBSAD", "return_ud"}
  PROVE  0 \in known /\ 0 < Len(m_descriptors)
<1>1. CASE 0 \in known
  BY <1>1 DEF HandleInv, Started, IInv, TypeOK
<1>2. CASE 0 \notin known
  <2>1. Starting(call[t], Conf(t))
    BY <1>2 DEF HandleInv, Started, At
  <2>2. QED
    BY <2>1, AtBusy DEF Starting
<1>3. QED
  BY <1>1, <1>2

(* The steps that use a handle keep the handles good: the call has been on   *)
(* line, so that the handle is inside the array.                             *)
LEMMA IoctlHandles ==
  ASSUME IInv, IInv', HandleInv, NEW t \in Threads,
         \/ is_cic(t) \/ my_wait(t) \/ StatusOutOfCharge(t) \/ send_setup(t)
         \/ InternalReceiveSetup(t) \/ Transfer(t) \/ serial_poll(t)
         \/ ChangePrimary(t) \/ IbwaitAnswer(t)
  PROVE  HandleInv'
<1>1. /\ Array /\ raised \in BOOLEAN /\ MaxOpen \in Nat
      /\ UNCHANGED link => ~raised' /\ Len(m_descriptors') = Len(m_descriptors)
  BY LibraryAssumption DEF IInv, TypeOK, Array, link, HandleInv
<1>2. ASSUME NEW step, At(t, step), step \notin {"insert", "online", "return_ud"},
             UNCHANGED <<ibConfigs, known>>, GoesOn(t),
             Len(m_descriptors') = Len(m_descriptors), ~raised'
      PROVE  HandleInv'
  BY <1>2, ConfSame
<1>3. ASSUME NEW step, At(t, step), step \notin {"insert", "online", "return_ud"}
      PROVE  /\ Conf(t) \in Confs /\ Conf(t).handle \in -1 .. MaxOpen
             /\ Keeps(Conf(t).handle) =>
                  ~raised' /\ Len(m_descriptors') = Len(m_descriptors)
  BY <1>3, HandleRange, NoRaiseWithin
<1>4. CASE is_cic(t)
  <2>1. PICK step \in {"cic", "own_cic"} : At(t, step)
    BY <1>4 DEF is_cic
  <2>2. CASE Advance(t) /\ UNCHANGED link
    BY <1>1, <1>2, <1>4, <2>1, <2>2 DEF is_cic, GoesOn
  <2>3. CASE Link!wait_ioctl(0, "none") /\ GoesOn(t)
    <3>1. 0 \in -1 .. MaxOpen /\ 0 < Len(m_descriptors)
      BY <1>1, <2>1, HandleZero
    <3>2. Keeps(0)
      BY <1>1, <2>3, <3>1, WaitStep
    <3>3. QED
      BY <1>2, <1>4, <2>1, <2>3, <3>1, <3>2, NoRaiseWithin DEF is_cic
  <2>4. QED
    BY <1>4, <2>2, <2>3 DEF is_cic, GoesOn
<1>5. CASE my_wait(t)
  <2>1. PICK step \in {"status", "status_set_CMPL", "status_clear_CMPL"},
             mask \in {"none", "set_CMPL", "clear_CMPL"} :
             At(t, step) /\ Link!wait_ioctl(Conf(t).handle, mask)
    BY <1>5 DEF my_wait
  <2>2. Keeps(Conf(t).handle)
    BY <1>1, <1>3, <2>1, WaitStep
  <2>3. QED
    BY <1>2, <1>3, <1>5, <2>1, <2>2 DEF my_wait, GoesOn
<1>6. ASSUME NEW step, At(t, step), step \notin {"insert", "online", "return_ud"},
             Link!transfer_ioctl(Conf(t).handle), Outcome(t), UNCHANGED <<ibConfigs, known>>
      PROVE  HandleInv'
  <2>1. Keeps(Conf(t).handle)
    BY <1>1, <1>3, <1>6, TransferStep
  <2>2. QED
    BY <1>2, <1>3, <1>6, <2>1, OutcomeGoesOn
<1>7. CASE send_setup(t)
  BY <1>6, <1>7 DEF send_setup, Command
<1>8. CASE InternalReceiveSetup(t)
  <2>1. CASE Fail(t) /\ UNCHANGED <<link, bus, blind>>
    BY <1>1, <1>2, <1>8, <2>1 DEF InternalReceiveSetup, GoesOn
  <2>2. QED
    BY <1>6, <1>8, <2>1 DEF InternalReceiveSetup, Command
<1>9. CASE Transfer(t)
  BY <1>6, <1>9 DEF Transfer
<1>10. CASE serial_poll(t)
  <2>1. Conf(t).pad \in Pads /\ Conf(t).sad \in Sads
    BY <1>3, <1>10, LibraryAssumption DEF serial_poll, Confs
  <2>2. Keeps(Conf(t).handle)
    BY <1>1, <1>10, <2>1, PollStep DEF serial_poll
  <2>3. QED
    BY <1>2, <1>3, <1>10, <2>2, OutcomeGoesOn DEF serial_poll
<1>11. CASE ChangePrimary(t)
  <2>1. call[t].pad \in Pads
    BY DEF IInv, TypeOK, CallRecords
  <2>2. Keeps(Conf(t).handle)
    BY <1>1, <1>3, <1>11, <2>1, PadStep DEF ChangePrimary
  <2>3. QED
    BY <1>2, <1>3, <1>11, <2>2, OutcomeGoesOn DEF ChangePrimary
<1>12. CASE IbwaitAnswer(t)
  <2>1. At(t, "wait") /\ (UNCHANGED link \/ Link!wait_ioctl(Conf(t).handle, "none"))
        /\ UNCHANGED <<ibConfigs, known>>
    BY <1>12 DEF IbwaitAnswer
  <2>2. UNCHANGED link \/ Keeps(Conf(t).handle)
    BY <1>1, <1>3, <2>1, WaitStep
  <2>3. ~raised' /\ Len(m_descriptors') = Len(m_descriptors)
    BY <1>1, <1>3, <2>1, <2>2
  <2>4. CASE GoesOn(t)
    BY <1>2, <2>1, <2>3, <2>4
  <2>5. ASSUME NEW last \in {<<"collect">>, <<>>},
               call' = [call EXCEPT ![t].todo = <<>>, ![t].last = last]
        PROVE  HandleInv'
    <3> DEFINE c == [call[t] EXCEPT !.todo = <<>>, !.last = last]
    <3>1. call[t] \in CallRecords /\ call \in [Threads -> CallRecords]
      BY DEF IInv, TypeOK
    <3>2. c.ud = call[t].ud /\ c.last = last /\ call' = [call EXCEPT ![t] = c]
      BY <2>5, <3>1 DEF CallRecords
    <3>3. call'[t] = c /\ call' \in [Threads -> CallRecords]
      BY <3>1, <3>2 DEF IInv, TypeOK
    <3> HIDE DEF c
    <3>4. ~Has(last, "IBCLOSEDEV")
      BY <2>5 DEF Has
    <3>5. c \in CallRecords /\ ~Has(c.last, "IBCLOSEDEV")
      BY <3>2, <3>3, <3>4
    <3>6. 0 \in known
      BY <2>1, HandleZero
    <3>7. Conf(t) \in Confs /\ ibConfigs' = [ibConfigs EXCEPT ![call[t].ud] = Conf(t)]
      BY <1>3, <2>1, AtBusy DEF IInv, TypeOK, Conf
    <3>8. Sound(Conf(t), Len(m_descriptors))
      BY <2>1, <3>7, ConfIsThere, AtBusy DEF HandleInv, HandlesGood, Conf
    <3>9. Len(m_descriptors') >= Len(m_descriptors)
      BY <2>3 DEF IInv, TypeOK
    <3>10. Moves(t, Conf(t), c)
      BY <2>1, <3>2, <3>7 DEF Moves
    <3>11. QED
      BY <2>1, <2>3, <3>2, <3>5, <3>6, <3>7, <3>8, <3>9, <3>10, HandlesKept
  <2>6. QED
    BY <1>12, <2>4, <2>5, OutcomeGoesOn DEF IbwaitAnswer, GoesOn
<1>13. CASE StatusOutOfCharge(t)
  <2>1. PICK step \in {"status", "status_set_CMPL", "status_clear_CMPL"} : At(t, step)
    BY <1>13 DEF StatusOutOfCharge
  <2>2. QED
    BY <1>1, <1>2, <1>13, <2>1 DEF StatusOutOfCharge, GoesOn
<1>14. QED
  BY <1>4, <1>5, <1>7, <1>8, <1>9, <1>10, <1>11, <1>12, <1>13

(* The steps that change the descriptor by the reply; without ibonl none     *)
(* closes a handle.                                                          *)
LEMMA TableHandles ==
  ASSUME IInv, IInv', HandleInv, NEW t \in Threads,
         conf_online(t) \/ ChangeSecondary(t) \/ close_gpib_handle(t)
  PROVE  HandleInv'
<1>1. /\ Array /\ raised \in BOOLEAN /\ MaxOpen \in Nat /\ Len(m_descriptors) \in Nat
      /\ UNCHANGED link => ~raised' /\ Len(m_descriptors') = Len(m_descriptors)
  BY LibraryAssumption DEF IInv, TypeOK, Array, link, HandleInv
<1>2. CASE conf_online(t)
  <2> DEFINE step == "online"
  <2>1. At(t, step) /\ Advance(t) /\ UNCHANGED known
    BY <1>2 DEF conf_online
  <2> HIDE DEF step
  <2>2. step = "online"
    BY DEF step
  <2>3. /\ Conf(t) \in Confs /\ Conf(t).handle \in -1 .. MaxOpen
        /\ Conf(t).handle < Len(m_descriptors)
    BY <2>1, <2>2, HandleRange
  <2>4. Conf(t).board_is_open => Conf(t).handle >= 0
    BY <2>1, <2>3, ConfIsThere, AtBusy DEF HandleInv, HandlesGood, Conf, Sound
  <2>5. CASE Conf(t).board_is_open
    <3>1. UNCHANGED <<link, ibConfigs>>
      BY <1>2, <2>5 DEF conf_online
    <3>2. ibConfigs' = [ibConfigs EXCEPT ![call[t].ud] = Conf(t)]
      BY <2>1, <3>1, AtBusy DEF IInv, TypeOK, Conf
    <3>3. ~raised' /\ Len(m_descriptors') = Len(m_descriptors)
      BY <1>1, <3>1
    <3>4. Sound(Conf(t), Len(m_descriptors')) /\ Len(m_descriptors') >= Len(m_descriptors)
      BY <1>1, <2>3, <2>4, <3>3 DEF Sound
    <3>5. QED
      BY <2>1, <2>2, <2>3, <2>5, <3>2, <3>3, <3>4, HandlesGoOn DEF GoesOn
  <2>6. CASE ~Conf(t).board_is_open
    <3> DEFINE conf == [Conf(t) EXCEPT !.handle = reply'.handle, !.board_is_open = TRUE]
    <3>1. Link!open_dev_ioctl(Conf(t).pad, Conf(t).sad, Interface(t)) /\ Assign(t, conf)
      BY <1>2, <2>6 DEF conf_online
    <3>2. Conf(t).pad \in Pads /\ Conf(t).sad \in Sads /\ Interface(t) \in BOOLEAN
      BY <2>3, LibraryAssumption DEF Confs, Interface
    <3>3. /\ Array' /\ Len(m_descriptors') >= Len(m_descriptors)
          /\ reply'.handle \in 0 .. Len(m_descriptors') - 1
          /\ ~raised'
      BY <1>1, <3>1, <3>2, OpenStep
    <3>4. /\ reply'.handle \in -1 .. MaxOpen /\ reply'.handle < Len(m_descriptors')
          /\ reply'.handle >= 0
      BY <1>1, <3>3 DEF Array
    <3>5. conf \in Confs
      BY <2>3, <3>4, ConfType
    <3>6. conf.handle = reply'.handle /\ conf.board_is_open = TRUE
      BY <2>3 DEF Confs
    <3> HIDE DEF conf
    <3>7. Sound(conf, Len(m_descriptors'))
      BY <3>4, <3>6 DEF Sound
    <3>8. QED
      BY <2>1, <2>2, <3>1, <3>3, <3>5, <3>6, <3>7, HandlesGoOn DEF GoesOn, Assign
  <2>7. QED
    BY <2>5, <2>6
<1>3. CASE ChangeSecondary(t)
  <2> DEFINE step == "IBSAD"
  <2>1. At(t, step) /\ Outcome(t) /\ UNCHANGED known /\ Link!sad_ioctl(Conf(t).handle, Conf(t).sad)
    BY <1>3 DEF ChangeSecondary
  <2> HIDE DEF step
  <2>2. step \notin {"insert", "online", "return_ud"}
    BY DEF step
  <2>3. /\ Conf(t) \in Confs /\ Conf(t).handle \in -1 .. MaxOpen
        /\ Conf(t).handle < Len(m_descriptors)
    BY <2>1, <2>2, HandleRange
  <2>4. Conf(t).sad \in Sads
    BY <2>3, LibraryAssumption DEF Confs
  <2>5. ~raised' /\ Len(m_descriptors') = Len(m_descriptors)
    BY <1>1, <2>1, <2>3, <2>4, SadStep, NoRaiseWithin
  <2>6. CASE UNCHANGED ibConfigs
    BY <2>1, <2>2, <2>5, <2>6, ConfSame, OutcomeGoesOn
  <2>7. CASE Assign(t, [Conf(t) EXCEPT !.pad = call[t].pad])
    <3>1. call[t].pad \in Pads
      BY DEF IInv, TypeOK, CallRecords
    <3>2. /\ [Conf(t) EXCEPT !.pad = call[t].pad] \in Confs
          /\ SameHandle([Conf(t) EXCEPT !.pad = call[t].pad], Conf(t))
      BY <2>3, <3>1, ConfType, ConfHandle
    <3>3. QED
      BY <2>1, <2>2, <2>5, <2>7, <3>2, HandleSame, OutcomeGoesOn DEF Assign
  <2>8. QED
    BY <1>3, <2>6, <2>7 DEF ChangeSecondary
<1>4. ~close_gpib_handle(t)
  <2>1. ASSUME At(t, "IBCLOSEDEV") PROVE FALSE
    <3>1. call[t] \in CallRecords /\ ~Has(call[t].last, "IBCLOSEDEV")
      BY DEF IInv, TypeOK, HandleInv, NoClose
    <3>2. CASE call[t].todo # <<>>
      <4>1. Head(call[t].todo) \in WorkSteps \union {"insert"}
        BY <3>1, <3>2 DEF CallRecords
      <4>2. Head(call[t].todo) = "IBCLOSEDEV"
        BY <2>1, <3>2, AtBusy
      <4>3. QED
        BY <4>1, <4>2 DEF WorkSteps
    <3>3. CASE call[t].todo = <<>>
      <4>1. call[t].last # <<>> /\ Head(call[t].last) = "IBCLOSEDEV"
        BY <2>1, <3>3, AtBusy
      <4>2. QED
        BY <3>1, <4>1, HasTail DEF CallRecords
    <3>4. QED
      BY <3>2, <3>3
  <2>2. QED
    BY <2>1 DEF close_gpib_handle
<1>5. QED
  BY <1>2, <1>3, <1>4

(* A call begins only when the board has been configured, and none but ibonl *)
(* closes.                                                                   *)
LEMMA BeginHandles ==
  ASSUME "ibonl" \notin Calls, IInv, IInv', HandleInv, NEW t \in Threads, Begin(t)
  PROVE  HandleInv'
<1>1. ASSUME NEW c, ~Has(c.last, "IBCLOSEDEV"), 0 \in known,
             call' = [call EXCEPT ![t] = c], UNCHANGED <<link, ibConfigs, known>>
      PROVE  HandleInv'
  BY <1>1 DEF HandleInv, HandlesGood, Started, NoClose, link, IInv, TypeOK
<1>2. CASE \E op \in Calls, ud \in Uses[t], pad \in {0} \union DevicePads \union SadArgs,
              usec \in {0} \union Timeouts : BeginCall(t, op, ud, pad, usec)
  <2>1. PICK op \in Calls, ud \in Uses[t], pad \in {0} \union DevicePads \union SadArgs,
             usec \in {0} \union Timeouts : BeginCall(t, op, ud, pad, usec)
    BY <1>2
  <2> DEFINE steps == StepsOf(op, ibConfigs[ud])
             c == NewCall(ud, pad, usec, steps)
  <2>2. op \in LibraryCalls /\ op # "ibonl" /\ ud \in known /\ ud \in Uds
    BY <2>1, LibraryAssumption DEF BeginCall, IInv, TypeOK
  <2>3. ibConfigs[ud].is_interface \in BOOLEAN
    BY <2>2 DEF IInv, TypeOK, Configured, Confs
  <2>4. steps.last \in Seq(EndSteps \ {"return_ud", "IBCLOSEDEV", "unlock_held"})
    BY <2>2, <2>3, CallLists
  <2>5. ~Has(steps.last, "IBCLOSEDEV")
    BY <2>4, HasOnly
  <2>6. /\ call' = [call EXCEPT ![t] = c] /\ UNCHANGED <<link, ibConfigs, known>>
        /\ 0 \in known
    BY <2>1 DEF BeginCall, Ready
  <2>7. c.last = steps.last
    BY DEF NewCall
  <2> HIDE DEF c, steps
  <2>8. QED
    BY <1>1, <2>5, <2>6, <2>7
<1>3. CASE \E pad \in DevicePads, usec \in Timeouts : BeginIbdev(t, pad, usec)
  <2>1. PICK pad \in DevicePads, usec \in Timeouts : BeginIbdev(t, pad, usec)
    BY <1>3
  <2>2. PICK ud \in Free : call' = [call EXCEPT ![t] = NewCall(ud, pad, usec, ibdev)]
    BY <2>1 DEF BeginIbdev
  <2>3. ~Has(ibdev.last, "IBCLOSEDEV")
    BY FirstLists, HasOnly
  <2>4. NewCall(ud, pad, usec, ibdev).last = ibdev.last
    BY DEF NewCall
  <2>5. UNCHANGED <<link, ibConfigs, known>> /\ 0 \in known
    BY <2>1 DEF BeginIbdev, Ready
  <2>6. QED
    BY <1>1, <2>2, <2>3, <2>4, <2>5
<1>4. QED
  BY <1>2, <1>3 DEF Begin

(* The handles are good before the first call.                               *)
LEMMA InitHandles == ASSUME Init PROVE HandleInv
<1>1. Link!Init /\ known = {}
  BY SMT DEF Init
<1>2. m_descriptors = <<>> /\ raised = FALSE /\ Len(m_descriptors) = 0
  BY <1>1 DEF Link!Init
<1>3. HandlesGood
  <2> DEFINE usec == 3000000
  <2>1. ibConfigs = [ud \in Uds |-> IF ud = 0 THEN init_ibconf(0, usec, TRUE) ELSE NoConf]
    BY SMT DEF Init
  <2> HIDE DEF usec
  <2>2. init_ibconf(0, usec, TRUE).handle = -1 /\ init_ibconf(0, usec, TRUE).board_is_open = FALSE
    BY DEF init_ibconf
  <2>3. Sound(init_ibconf(0, usec, TRUE), 0)
    <3> DEFINE board == init_ibconf(0, usec, TRUE)
    <3>1. board.handle = -1 /\ board.board_is_open = FALSE
      BY <2>2
    <3> HIDE DEF board
    <3>2. board.handle < 0
      BY <3>1
    <3>3. Sound(board, 0)
      BY <3>1, <3>2 DEF Sound
    <3>4. QED
      BY <3>3 DEF board
  <2>4. QED
    BY <1>2, <2>1, <2>3 DEF HandlesGood
<1>4. ASSUME NEW t \in Threads
      PROVE  /\ ~Has(call[t].last, "IBCLOSEDEV")
             /\ Busy(t) => Starting(call[t], Conf(t))
  <2>1. CASE t = Boot
    <3>1. call[t] = NewCall(0, 0, 0, configure_board)
      BY <2>1, SMT DEF Init
    <3>2. /\ configure_board.todo \in Seq({"online", "IBPAD", "IBSAD"})
          /\ configure_board.last \in Seq({"return_ud"})
      BY FirstLists
    <3>3. configure_board.todo # <<>> /\ Head(configure_board.todo) = "online"
      BY DEF configure_board, Steps
    <3>4. call[t].ud = 0 /\ call[t].todo = configure_board.todo
          /\ call[t].last = configure_board.last
      BY <3>1 DEF NewCall
    <3>5. ~Has(configure_board.last, "IBCLOSEDEV")
      BY <3>2, HasOnly
    <3>6. QED
      BY <3>2, <3>3, <3>4, <3>5 DEF Starting
  <2>2. CASE t # Boot
    <3>1. call[t] = NewCall(0, 0, 0, Steps(<<>>, <<>>))
      BY <2>2, SMT DEF Init
    <3>2. call[t].todo = <<>> /\ call[t].last = <<>>
      BY <3>1 DEF NewCall, Steps
    <3>3. QED
      BY <3>2 DEF Busy, Has
  <2>3. QED
    BY <2>1, <2>2
<1>5. QED
  BY <1>1, <1>2, <1>3, <1>4 DEF HandleInv, Started, NoClose

(* NoRaise, in a program that does not close descriptors with ibonl: however *)
(* many threads open, share and readdress descriptors, no call hands the     *)
(* link thread a handle that is not in its table, so the exception of        *)
(* handle_to_descriptor is not met.                                          *)
THEOREM LibraryHandlesGood == ASSUME "ibonl" \notin Calls PROVE Spec => []NoRaise
<1>1. Init => HandleInv
  BY InitHandles
<1>2. IInv /\ IInv' /\ HandleInv /\ [Next]_vars => HandleInv'
  <2> SUFFICES ASSUME IInv, IInv', HandleInv, [Next]_vars PROVE HandleInv'
    OBVIOUS
  <2>1. CASE Next
    <3>1. PICK t \in Threads : Begin(t) \/ Step(t)
      BY <2>1 DEF Next
    <3>2. CASE Begin(t)
      BY <3>2, BeginHandles
    <3>3. CASE Step(t)
      BY <3>3, QuietHandles, IoctlHandles, TableHandles DEF Step
    <3>4. QED
      BY <3>1, <3>2, <3>3
  <2>2. CASE UNCHANGED vars
    BY <2>2 DEF vars, link, HandleInv, HandlesGood, Started, NoClose, Busy, Conf
  <2>3. QED
    BY <2>1, <2>2
<1>3. HandleInv => NoRaise
  BY DEF HandleInv, NoRaise
<1>4. QED
  BY <1>1, <1>2, <1>3, LibraryInvariance, PTL DEF Spec

-----------------------------------------------------------------------------
(* NoAbort and LocksComeBack, where threads use different descriptors.       *)

(* No b comes after an element of A.                                         *)
NoneAfter(s, A, b) ==
  \A i \in DOMAIN s, j \in DOMAIN s : i < j /\ s[i] \in A => s[j] # b

(* The rest of a list keeps its order, and has no b after a first one in A.  *)
LEMMA NoneAfterTail ==
  ASSUME NEW S, NEW s \in Seq(S), s # <<>>, NEW A, NEW b, NoneAfter(s, A, b)
  PROVE  /\ NoneAfter(Tail(s), A, b)
         /\ Head(s) \in A => ~Has(Tail(s), b)
<1>1. Len(s) \in Nat /\ Len(s) # 0 /\ DOMAIN s = 1 .. Len(s) /\ Head(s) = s[1]
  OBVIOUS
<1>2. DOMAIN Tail(s) = 1 .. Len(s) - 1 /\ \A i \in 1 .. Len(s) - 1 : Tail(s)[i] = s[i + 1]
  BY <1>1
<1>3. ASSUME NEW i \in 1 .. Len(s) - 1, NEW j \in 1 .. Len(s) - 1, i < j, Tail(s)[i] \in A
      PROVE  Tail(s)[j] # b
  <2>1. i + 1 \in 1 .. Len(s) /\ j + 1 \in 1 .. Len(s) /\ i + 1 < j + 1
    BY <1>1, <1>3
  <2>2. s[i + 1] \in A
    BY <1>2, <1>3
  <2>3. s[j + 1] # b
    BY <1>1, <2>1, <2>2 DEF NoneAfter
  <2>4. QED
    BY <1>2, <2>3
<1>4. ASSUME Head(s) \in A, NEW j \in 1 .. Len(s) - 1 PROVE Tail(s)[j] # b
  <2>1. 1 \in 1 .. Len(s) /\ j + 1 \in 1 .. Len(s) /\ 1 < j + 1
    BY <1>1, <1>4
  <2>2. s[j + 1] # b
    BY <1>1, <1>4, <2>1 DEF NoneAfter
  <2>3. QED
    BY <1>2, <2>2
<1>5. QED
  BY <1>2, <1>3, <1>4 DEF NoneAfter, Has

(* Two lists keep the order, when it cannot be broken between them.          *)
LEMMA NoneAfterBoth ==
  ASSUME NEW S, NEW s \in Seq(S), NEW u \in Seq(S), NEW A, NEW b,
         NoneAfter(s, A, b), NoneAfter(u, A, b),
         (\A a \in A : ~Has(s, a)) \/ ~Has(u, b)
  PROVE  NoneAfter(s \o u, A, b)
<1>1. /\ Len(s \o u) = Len(s) + Len(u)
      /\ Len(s) \in Nat /\ Len(u) \in Nat
      /\ DOMAIN (s \o u) = 1 .. Len(s) + Len(u)
      /\ DOMAIN s = 1 .. Len(s) /\ DOMAIN u = 1 .. Len(u)
      /\ \A i \in 1 .. Len(s) : (s \o u)[i] = s[i]
      /\ \A i \in 1 .. Len(u) : (s \o u)[Len(s) + i] = u[i]
  OBVIOUS
<1> DEFINE m == Len(s)
<1>2. ASSUME NEW i \in 1 .. Len(s) + Len(u), NEW j \in 1 .. Len(s) + Len(u), i < j,
             (s \o u)[i] \in A, (s \o u)[j] = b
      PROVE  FALSE
  <2>1. CASE j <= Len(s)
    <3>1. i \in 1 .. Len(s) /\ j \in 1 .. Len(s)
      BY <1>1, <1>2, <2>1
    <3>2. s[i] \in A /\ s[j] = b
      BY <1>1, <1>2, <3>1
    <3>3. QED
      BY <1>1, <1>2, <3>1, <3>2 DEF NoneAfter
  <2>2. CASE i <= Len(s) /\ j > Len(s)
    <3>1. i \in 1 .. Len(s) /\ j - Len(s) \in 1 .. Len(u) /\ j = Len(s) + (j - Len(s))
      BY <1>1, <1>2, <2>2
    <3>2. s[i] \in A /\ u[j - Len(s)] = b
      BY <1>1, <1>2, <3>1
    <3>3. QED
      BY <1>1, <3>1, <3>2 DEF Has
  <2>3. CASE i > Len(s)
    <3>1. /\ i - Len(s) \in 1 .. Len(u) /\ i = Len(s) + (i - Len(s))
          /\ j - Len(s) \in 1 .. Len(u) /\ j = Len(s) + (j - Len(s))
          /\ i - Len(s) < j - Len(s)
      BY <1>1, <1>2, <2>3
    <3>2. u[i - Len(s)] \in A /\ u[j - Len(s)] = b
      BY <1>1, <1>2, <3>1
    <3>3. QED
      BY <1>1, <3>1, <3>2 DEF NoneAfter
  <2>4. QED
    BY <1>1, <1>2, <2>1, <2>2, <2>3
<1>3. QED
  BY <1>1, <1>2 DEF NoneAfter

(* A list without the one or without the other.                              *)
LEMMA NoneAfterNone ==
  ASSUME NEW s, NEW A, NEW b, (\A a \in A : ~Has(s, a)) \/ ~Has(s, b)
  PROVE  NoneAfter(s, A, b)
  BY DEF NoneAfter, Has

Releases == {"unlock", "unlock_held"}
Unlocks(s) == Has(s, "unlock") \/ Has(s, "unlock_held")

(* The order of a call's steps: it asserts that its descriptor is not locked *)
(* before it locks it, and if it locks it then it unlocks it at the end,     *)
(* once if with unlock_held.  Until then ibonl has no step that can fail.    *)
(* What it begins of asynchronous I/O it ends.  ibwait, which may skip its   *)
(* end, neither locks nor begins.  ibdev returns last.                       *)
Shape(todo, last) ==
  /\ NoneAfter(todo, {"lock"}, "assert")
  /\ Has(todo, "lock") => Unlocks(last)
  /\ NoneAfter(last, Releases, "unlock_held")
  /\ Has(last, "unlock_held") => todo \in Seq({"online", "stop", "assert", "lock"})
  /\ Has(todo, "aio_begin") => Has(last, "aio_end")
  /\ Has(todo, "wait") => ~Unlocks(last) /\ ~Has(last, "aio_end")
  /\ \A x : NoneAfter(last, {"return_ud"}, x)

Formed(steps) ==
  /\ Shape(steps.todo, steps.last)
  /\ Has(steps.last, "unlock_held") => Has(steps.todo, "lock")

(* The end of a call that has locked unlocks.                                *)
LEMMA ExitUnlocks ==
  /\ general_exit_library(TRUE) \in Seq({"own_cic", "status", "unlock"})
  /\ Has(general_exit_library(TRUE), "unlock")
<1> DEFINE E == {"own_cic", "status", "unlock"}
           check == ibstatus("status")
           end == <<"unlock">>
<1>1. check \in Seq(E) /\ end \in Seq(E)
  BY DEF ibstatus
<1>2. Has(end, "unlock")
  <2>1. 1 \in DOMAIN end /\ end[1] = "unlock"
    OBVIOUS
  <2>2. QED
    BY <2>1 DEF Has
<1>3. general_exit_library(TRUE) = check \o end
  BY DEF general_exit_library
<1> HIDE DEF E, check, end
<1>4. check \o end \in Seq(E) /\ Has(check \o end, "unlock")
  BY <1>1, <1>2, HasBoth
<1>5. QED
  BY <1>3, <1>4 DEF E

(* The calls that lock and unlock.                                           *)
LEMMA LockedFormed ==
  ASSUME NEW body \in Seq(Plain)
  PROVE  Formed(Locked(body))
<1> DEFINE T == {"online", "eoip", "assert", "lock"} \union Plain
           E == {"own_cic", "status", "unlock"}
           exit == general_exit_library(TRUE)
<1>1. enter_library \in Seq(T) /\ body \in Seq(T)
  BY DEF enter_library, general_enter_library
<1>2. exit \in Seq(E) /\ Has(exit, "unlock")
  BY ExitUnlocks
<1>3. NoneAfter(enter_library, {"lock"}, "assert")
  BY DEF enter_library, general_enter_library, NoneAfter
<1>4. ~Has(body, "assert")
  <2>1. "assert" \notin Plain
    BY DEF Plain
  <2>2. QED
    BY <2>1, HasOnly
<1>5. Locked(body).todo = enter_library \o body /\ Locked(body).last = exit
  BY DEF Locked, Steps
<1>6. "aio_begin" \notin T /\ "wait" \notin T /\ "unlock_held" \notin E /\ "return_ud" \notin E
  BY DEF Plain
<1> HIDE DEF T, E, exit
<1>7. Locked(body).todo \in Seq(T) /\ NoneAfter(Locked(body).todo, {"lock"}, "assert")
  BY <1>1, <1>3, <1>4, <1>5, HasBoth, NoneAfterBoth, NoneAfterNone
<1>8. /\ ~Has(Locked(body).todo, "aio_begin") /\ ~Has(Locked(body).todo, "wait")
      /\ ~Has(exit, "unlock_held") /\ ~Has(exit, "return_ud")
  BY <1>2, <1>6, <1>7, HasOnly
<1>9. NoneAfter(exit, Releases, "unlock_held") /\ \A x : NoneAfter(exit, {"return_ud"}, x)
  BY <1>8, NoneAfterNone
<1>10. QED
  BY <1>2, <1>5, <1>7, <1>8, <1>9 DEF Formed, Shape, Unlocks

(* The calls that do not lock: what ends them is not what those have.        *)
LEMMA OtherFormed ==
  ASSUME NEW S, NEW todo \in Seq(S \ {"lock", "wait"}), NEW last \in Seq(EndSteps \ {"unlock_held", "return_ud"}),
         Has(todo, "aio_begin") => Has(last, "aio_end")
  PROVE  Formed(Steps(todo, last))
<1>1. ~Has(todo, "lock") /\ ~Has(todo, "wait")
  BY HasOnly
<1>2. ~Has(last, "unlock_held") /\ ~Has(last, "return_ud")
  BY HasOnly
<1>3. /\ NoneAfter(todo, {"lock"}, "assert") /\ NoneAfter(last, Releases, "unlock_held")
      /\ \A x : NoneAfter(last, {"return_ud"}, x)
  BY <1>1, <1>2, NoneAfterNone
<1>4. QED
  BY <1>1, <1>2, <1>3 DEF Formed, Shape, Steps

(* The lists of a call that does not lock have the right form.               *)
LEMMA WaitFormed ==
  ASSUME NEW body \in Seq({"set_timeout", "own_cic", "wait"})
  PROVE  Formed(Unlocked(body))
<1> DEFINE T == {"online", "set_timeout", "own_cic", "wait"}
           E == {"own_cic", "status"}
<1>1. Unlocked(body).todo \in Seq(T) /\ Unlocked(body).last \in Seq(E)
  BY UnlockedLists
<1>2. ~Has(Unlocked(body).todo, "lock") /\ ~Has(Unlocked(body).todo, "aio_begin")
  BY <1>1, HasOnly
<1>3. \A x \in {"unlock", "unlock_held", "aio_end", "return_ud"} : ~Has(Unlocked(body).last, x)
  BY <1>1, HasOnly
<1>4. /\ NoneAfter(Unlocked(body).todo, {"lock"}, "assert")
      /\ NoneAfter(Unlocked(body).last, Releases, "unlock_held")
      /\ \A x : NoneAfter(Unlocked(body).last, {"return_ud"}, x)
  BY <1>2, <1>3, NoneAfterNone
<1>5. QED
  BY <1>2, <1>3, <1>4 DEF Formed, Shape, Unlocks

(* So have those of ibloc, which locks for a device only.                    *)
LEMMA IblocFormed ==
  ASSUME NEW conf, conf.is_interface \in BOOLEAN
  PROVE  Formed(ibloc(conf))
<1> DEFINE T == {"online", "assert", "lock", "IBTMO", "cic", "listen"}
           first == <<"online">>
           two == <<"assert", "lock">>
           command == my_ibcmd("listen")
           work == IF conf.is_interface THEN <<>> ELSE two \o command
           todo == ibloc(conf).todo
           last == ibloc(conf).last
<1>1. todo \in Seq(T) /\ last \in Seq({"own_cic", "status", "unlock"})
  BY IblocLists
<1>2. todo = first \o work /\ last = general_exit_library(TRUE)
  BY DEF ibloc, Steps
<1>3. first \in Seq(T) /\ two \in Seq(T) /\ command \in Seq(T \ {"assert"}) /\ <<>> \in Seq(T)
  BY DEF my_ibcmd
<1>4. NoneAfter(two, {"lock"}, "assert")
  BY DEF NoneAfter
<1>5. ~Has(first, "lock") /\ ~Has(<<>>, "lock")
  BY DEF Has
<1>6. NoneAfter(work, {"lock"}, "assert") /\ work \in Seq(T)
  <2>1. ~Has(command, "assert") /\ command \in Seq(T)
    BY <1>3, HasOnly
  <2>2. NoneAfter(command, {"lock"}, "assert") /\ NoneAfter(<<>>, {"lock"}, "assert")
    BY <1>5, <2>1, NoneAfterNone
  <2> HIDE DEF T, two, command
  <2>3. NoneAfter(two \o command, {"lock"}, "assert")
    BY <1>3, <1>4, <2>1, <2>2, NoneAfterBoth
  <2>4. two \o command \in Seq(T)
    BY <1>3, <2>1, HasBoth
  <2>5. QED
    BY <1>3, <2>2, <2>3, <2>4
<1>7. NoneAfter(first, {"lock"}, "assert")
  BY <1>5, NoneAfterNone
<1> HIDE DEF first, work, todo, last
<1>8. NoneAfter(todo, {"lock"}, "assert")
  <2> HIDE DEF T
  <2>1. QED
    BY <1>2, <1>3, <1>5, <1>6, <1>7, NoneAfterBoth
<1>9. ~Has(todo, "aio_begin") /\ ~Has(todo, "wait")
  BY <1>1, HasOnly
<1>10. Has(last, "unlock") /\ ~Has(last, "unlock_held") /\ ~Has(last, "return_ud")
  <2>1. Has(last, "unlock")
    BY <1>2, ExitUnlocks
  <2>2. ~Has(last, "unlock_held") /\ ~Has(last, "return_ud")
    BY <1>1, HasOnly
  <2>3. QED
    BY <2>1, <2>2
<1>11. NoneAfter(last, Releases, "unlock_held") /\ \A x : NoneAfter(last, {"return_ud"}, x)
  BY <1>10, NoneAfterNone
<1>12. QED
  BY <1>8, <1>9, <1>10, <1>11 DEF Formed, Shape, Unlocks, todo, last

(* So have those of ibonl, which gives back by itself what it locked.        *)
LEMMA IbonlFormed == Formed(ibonl)
<1> DEFINE E == {"own_cic", "status_set_CMPL", "IBCLOSEDEV", "unlock_held"}
           todo == ibonl.todo
           last == ibonl.last
           check == ibstatus("status_set_CMPL")
           end == <<"IBCLOSEDEV", "unlock_held">>
<1>1. todo \in Seq({"online", "stop", "assert", "lock"}) /\ last \in Seq(E)
  BY EndLists
<1>2. todo = <<"online", "stop", "assert", "lock">> /\ last = check \o end
  BY DEF ibonl, Steps
<1>3. NoneAfter(todo, {"lock"}, "assert") /\ Has(todo, "lock")
  <2> DEFINE list == <<"online", "stop", "assert", "lock">>
  <2>1. NoneAfter(list, {"lock"}, "assert")
    BY DEF NoneAfter
  <2>2. 4 \in DOMAIN list /\ list[4] = "lock"
    OBVIOUS
  <2>3. Has(list, "lock")
    BY <2>2 DEF Has
  <2>4. QED
    BY <1>2, <2>1, <2>3
<1>4. check \in Seq(E) /\ end \in Seq(E) /\ check \in Seq({"own_cic", "status_set_CMPL"})
  BY DEF ibstatus
<1>5. NoneAfter(end, Releases, "unlock_held")
  BY DEF NoneAfter, Releases
<1>6. Has(end, "unlock_held")
  <2>1. 2 \in DOMAIN end /\ end[2] = "unlock_held"
    OBVIOUS
  <2>2. QED
    BY <2>1 DEF Has
<1>7. \A x \in Releases : ~Has(check, x)
  BY <1>4, HasOnly DEF Releases
<1>8. NoneAfter(check, Releases, "unlock_held")
  BY <1>7, NoneAfterNone
<1>9. ~Has(todo, "aio_begin") /\ ~Has(todo, "wait") /\ ~Has(last, "return_ud")
  BY <1>1, HasOnly
<1>10. \A x : NoneAfter(last, {"return_ud"}, x)
  BY <1>9, NoneAfterNone
<1> HIDE DEF E, todo, last, check, end
<1>11. NoneAfter(last, Releases, "unlock_held") /\ Has(last, "unlock_held")
  BY <1>2, <1>4, <1>5, <1>6, <1>7, <1>8, NoneAfterBoth, HasBoth
<1>12. QED
  BY <1>1, <1>3, <1>9, <1>10, <1>11 DEF Formed, Shape, Unlocks, todo, last

(* So have those of ibdev, which locks and unlocks the descriptor it made.   *)
LEMMA IbdevFormed == Formed(ibdev)
<1> DEFINE T == {"insert", "online", "eoip", "assert", "lock"}
           E == {"own_cic", "status", "unlock", "return_ud"}
           todo == ibdev.todo
           last == ibdev.last
           first == <<"insert">>
           exit == general_exit_library(TRUE)
           end == <<"return_ud">>
<1>1. todo \in Seq(T) /\ last \in Seq(E)
  BY FirstLists
<1>2. todo = first \o enter_library /\ last = exit \o end
  BY DEF ibdev, Steps
<1>3. /\ first \in Seq(T) /\ enter_library \in Seq(T)
      /\ NoneAfter(enter_library, {"lock"}, "assert")
  BY DEF enter_library, general_enter_library, NoneAfter
<1>4. ~Has(first, "lock")
  BY DEF Has
<1>5. /\ exit \in Seq({"own_cic", "status", "unlock"}) /\ Has(exit, "unlock")
  BY ExitUnlocks
<1>6. exit \in Seq(E) /\ end \in Seq(E)
  <2>1. end \in Seq(E)
    OBVIOUS
  <2> HIDE DEF exit, end
  <2>2. exit \in Seq(E)
    BY <1>5
  <2>3. QED
    BY <2>1, <2>2
<1>7. ~Has(exit, "return_ud") /\ ~Has(last, "unlock_held")
      /\ ~Has(todo, "aio_begin") /\ ~Has(todo, "wait")
  <2> HIDE DEF exit, last, todo
  <2>1. ~Has(exit, "return_ud")
    BY <1>5, HasOnly
  <2>2. ~Has(last, "unlock_held")
    BY <1>1, HasOnly
  <2>3. ~Has(todo, "aio_begin") /\ ~Has(todo, "wait")
    BY <1>1, HasOnly
  <2>4. QED
    BY <2>1, <2>2, <2>3
<1>8. ASSUME NEW x PROVE NoneAfter(end, {"return_ud"}, x)
  BY DEF NoneAfter
<1> HIDE DEF T, E, todo, last, first, exit, end
<1>9. NoneAfter(first, {"lock"}, "assert")
  BY <1>4, NoneAfterNone
<1>10. NoneAfter(todo, {"lock"}, "assert")
  BY <1>2, <1>3, <1>4, <1>9, NoneAfterBoth
<1>11. Has(last, "unlock")
  BY <1>2, <1>5, <1>6, HasBoth
<1>12. ASSUME NEW x PROVE NoneAfter(last, {"return_ud"}, x)
  <2>1. NoneAfter(exit, {"return_ud"}, x)
    BY <1>7, NoneAfterNone
  <2>2. NoneAfter(end, {"return_ud"}, x)
    BY <1>8
  <2>3. QED
    BY <1>2, <1>6, <1>7, <2>1, <2>2, NoneAfterBoth
<1>13. NoneAfter(last, Releases, "unlock_held")
  BY <1>7, NoneAfterNone
<1>14. QED
  BY <1>7, <1>10, <1>11, <1>12, <1>13 DEF Formed, Shape, Unlocks, todo, last

(* So have those of the first configuration, which locks nothing.            *)
LEMMA BootFormed == Formed(configure_board)
<1> DEFINE todo == configure_board.todo
           last == configure_board.last
<1>1. todo \in Seq({"online", "IBPAD", "IBSAD"}) /\ last \in Seq({"return_ud"})
  BY FirstLists
<1>2. /\ ~Has(todo, "lock") /\ ~Has(todo, "aio_begin") /\ ~Has(todo, "wait")
      /\ ~Has(last, "unlock_held")
  <2> HIDE DEF todo, last
  <2>1. ~Has(todo, "lock") /\ ~Has(todo, "aio_begin") /\ ~Has(todo, "wait")
    BY <1>1, HasOnly
  <2>2. ~Has(last, "unlock_held")
    BY <1>1, HasOnly
  <2>3. QED
    BY <2>1, <2>2
<1>3. /\ NoneAfter(todo, {"lock"}, "assert") /\ NoneAfter(last, Releases, "unlock_held")
  BY <1>2, NoneAfterNone
<1>4. \A x : NoneAfter(last, {"return_ud"}, x)
  <2>1. last = <<"return_ud">>
    BY DEF configure_board, Steps
  <2>2. \A x : NoneAfter(<<"return_ud">>, {"return_ud"}, x)
    BY DEF NoneAfter
  <2>3. QED
    BY <2>1, <2>2
<1> HIDE DEF todo, last
<1>5. QED
  BY <1>2, <1>3, <1>4 DEF Formed, Shape, todo, last

(* Every call of a program is made in this order.                            *)
LEMMA CallFormed ==
  ASSUME NEW op \in LibraryCalls, NEW conf, conf.is_interface \in BOOLEAN
  PROVE  Formed(StepsOf(op, conf))
<1>1. CASE op \in LockedCalls
  BY <1>1, LockedSteps, LockedFormed
<1>2. CASE op \in AioCalls
  <2> DEFINE steps == StepsOf(op, conf)
  <2>1. /\ steps.todo \in Seq(WorkSteps \ {"wait", "lock", "assert", "stop"})
        /\ steps.last \in Seq({"own_cic", "status", "status_set_CMPL", "aio_end"})
        /\ Has(steps.last, "aio_end")
    BY <1>2, AioSteps
  <2>2. steps.todo \in Seq(WorkSteps \ {"lock", "wait"})
    BY <2>1
  <2>3. steps.last \in Seq(EndSteps \ {"unlock_held", "return_ud"})
    BY <2>1 DEF EndSteps
  <2> HIDE DEF steps
  <2>4. Formed(Steps(steps.todo, steps.last))
    BY <2>1, <2>2, <2>3, OtherFormed
  <2>5. QED
    BY <2>4 DEF Formed, Steps, steps
<1>3. CASE op \in {"ibtmo", "ibwait"}
  <2>1. /\ <<"set_timeout">> \in Seq({"set_timeout", "own_cic", "wait"})
        /\ <<"own_cic", "wait">> \in Seq({"set_timeout", "own_cic", "wait"})
    OBVIOUS
  <2>2. QED
    BY <1>3, <2>1, OtherSteps, WaitFormed
<1>4. CASE op = "ibloc"
  BY <1>4, IblocFormed, OtherSteps
<1>5. CASE op = "ibstop"
  <2>1. ibstop.todo \in Seq({"online", "stop"}) /\ ibstop.last \in Seq({"own_cic", "status_set_CMPL"})
    BY EndLists
  <2>2. ibstop.todo \in Seq({"online", "stop"} \ {"lock", "wait"}) /\ ~Has(ibstop.todo, "aio_begin")
    BY <2>1, HasOnly
  <2>3. ibstop.last \in Seq(EndSteps \ {"unlock_held", "return_ud"})
    BY <2>1 DEF EndSteps
  <2>4. Formed(Steps(ibstop.todo, ibstop.last))
    BY <2>2, <2>3, OtherFormed
  <2>5. QED
    BY <1>5, <2>4, OtherSteps DEF Formed, Steps
<1>6. CASE op = "ibonl"
  BY <1>6, IbonlFormed, OtherSteps
<1>7. QED
  BY <1>1, <1>2, <1>3, <1>4, <1>5, <1>6 DEF LibraryCalls, LockedCalls, AioCalls

(* What is left of a call keeps this order.                                  *)
LEMMA RestShape ==
  ASSUME NEW c \in CallRecords, Ongoing(c), Shape(c.todo, c.last),
         NEW d \in {c, Rest(c), Exit(c)}
  PROVE  Shape(d.todo, d.last)
<1>1. /\ c.todo \in Seq(WorkSteps \union {"insert"}) /\ c.last \in Seq(EndSteps)
  BY DEF CallRecords
<1>2. \A A, b : NoneAfter(<<>>, A, b)
  BY DEF NoneAfter
<1>3. \A x : ~Has(<<>>, x)
  BY DEF Has
<1>4. <<>> \in Seq({"online", "stop", "assert", "lock"})
  OBVIOUS
<1>5. Shape(<<>>, c.last)
  BY <1>2, <1>3, <1>4 DEF Shape
<1>6. CASE c.todo # <<>>
  <2>1. Shape(Tail(c.todo), c.last)
    <3>1. NoneAfter(Tail(c.todo), {"lock"}, "assert")
      BY <1>1, <1>6, NoneAfterTail DEF Shape
    <3>2. \A x : Has(Tail(c.todo), x) => Has(c.todo, x)
      BY <1>1, <1>6, HasTail
    <3>3. Has(c.last, "unlock_held") => Tail(c.todo) \in Seq({"online", "stop", "assert", "lock"})
      BY <1>6 DEF Shape
    <3>4. QED
      BY <3>1, <3>2, <3>3 DEF Shape
  <2>2. CASE d = c
    BY <2>2
  <2>3. CASE d = [c EXCEPT !.todo = Tail(c.todo)]
    <3>1. d.todo = Tail(c.todo) /\ d.last = c.last
      BY <2>3 DEF CallRecords
    <3>2. QED
      BY <2>1, <3>1
  <2>4. CASE d = [c EXCEPT !.todo = <<>>]
    <3>1. d.todo = <<>> /\ d.last = c.last
      BY <2>4 DEF CallRecords
    <3>2. QED
      BY <1>5, <3>1
  <2>5. QED
    BY <1>6, <2>2, <2>3, <2>4 DEF Rest, Exit
<1>7. CASE c.todo = <<>>
  <2>1. c.last # <<>>
    BY <1>7 DEF Ongoing
  <2>2. Shape(<<>>, Tail(c.last))
    <3>1. NoneAfter(Tail(c.last), Releases, "unlock_held")
      BY <1>1, <2>1, NoneAfterTail DEF Shape
    <3>2. ASSUME NEW x PROVE NoneAfter(Tail(c.last), {"return_ud"}, x)
      <4>1. NoneAfter(c.last, {"return_ud"}, x)
        BY DEF Shape
      <4>2. QED
        BY <1>1, <2>1, <4>1, NoneAfterTail
    <3>3. QED
      BY <1>2, <1>3, <1>4, <3>1, <3>2 DEF Shape
  <2>3. CASE d = c
    BY <2>3
  <2>4. CASE d = [c EXCEPT !.last = Tail(c.last)]
    <3>1. d.todo = <<>> /\ d.last = Tail(c.last)
      BY <1>7, <2>4 DEF CallRecords
    <3>2. QED
      BY <2>2, <3>1
  <2>5. QED
    BY <1>7, <2>3, <2>4 DEF Rest, Exit
<1>8. QED
  BY <1>6, <1>7

(* The threads make calls on descriptors of their own, and one opens.        *)
Apart ==
  /\ \A t, u \in Threads : t # u => Uses[t] \intersect Uses[u] = {}
  /\ \A t, u \in Openers : t = u

(* The descriptor of a call is its thread's, or no other thread knows it.    *)
Owned(t) ==
  IF call[t].ud \in known THEN call[t].ud \in Uses[t]
  ELSE (call[t].ud \in Devices /\ t \in Openers) \/ (call[t].ud = 0 /\ t = Boot)

(* The locks a call holds, and will give back.                               *)
Locking(c, conf) ==
  /\ Has(c.todo, "assert") => ~conf.has_lock
  /\ conf.has_lock => Unlocks(c.last)
  /\ Has(c.last, "unlock_held") => Has(c.todo, "lock") \/ conf.has_lock
  /\ conf.in_progress => Has(c.last, "aio_end")
  /\ conf.in_progress \/ conf.lock = NoThread
  /\ conf.in_progress => conf.lock # NoThread

Clean(conf) == ~conf.has_lock /\ ~conf.in_progress /\ conf.lock = NoThread

LockInv ==
  /\ \A t \in Threads :
       /\ Shape(call[t].todo, call[t].last)
       /\ Busy(t) => Owned(t) /\ (Inserting(t) \/ Locking(call[t], Conf(t)))
  /\ \A ud \in Uds :
       (ibConfigs[ud] # NoConf /\ \A t \in Threads : Busy(t) => call[t].ud # ud) =>
         Clean(ibConfigs[ud])
  /\ ~aborted

(* No two calls are on one descriptor.                                       *)
LEMMA Alone ==
  ASSUME Apart, LockInv, NEW t \in Threads, NEW u \in Threads, t # u, Busy(t), Busy(u)
  PROVE  call[t].ud # call[u].ud
<1>1. Owned(t) /\ Owned(u)
  BY DEF LockInv
<1>2. 0 \notin Devices
  BY LibraryAssumption DEF Devices
<1>3. QED
  BY <1>1, <1>2 DEF Owned, Apart

(* A step of a call that keeps the call's own part of the invariant.         *)
LEMMA LocksKept ==
  ASSUME Apart, IInv, LockInv, NEW t \in Threads, NEW step, At(t, step),
         NEW conf \in Confs, NEW c \in CallRecords, Moves(t, conf, c), c.ud = call[t].ud,
         Shape(c.todo, c.last), Locking(c, conf),
         step # "return_ud" => known' = known, step = "return_ud" => ~Ongoing(c),
         ~aborted'
  PROVE  LockInv'
<1>1. /\ ibConfigs \in [Uds -> Confs \union {NoConf}] /\ call \in [Threads -> CallRecords]
      /\ known \subseteq Uds /\ call[t].ud \in Uds
  BY DEF IInv, TypeOK, CallRecords
<1>2. Busy(t)
  BY DEF At
<1>3. /\ call'[t] = c /\ Conf(t)' = conf /\ (Busy(t)' <=> Ongoing(c))
      /\ ibConfigs'[call[t].ud] = conf
  BY <1>1 DEF Moves, Conf, Busy, Ongoing
<1>4. ASSUME NEW u \in Threads, u # t
      PROVE  /\ call'[u] = call[u] /\ (Busy(u)' <=> Busy(u)) /\ (Inserting(u)' <=> Inserting(u))
             /\ call[u].ud \in Uds
  <2>1. call'[u] = call[u] /\ call[u].ud \in Uds
    BY <1>1, <1>4 DEF Moves, CallRecords
  <2>2. QED
    BY <2>1 DEF Busy, Inserting
<1>5. ASSUME NEW u \in Threads
      PROVE  /\ Shape(call'[u].todo, call'[u].last)
             /\ Busy(u)' => Owned(u)' /\ (Inserting(u)' \/ Locking(call'[u], Conf(u)'))
  <2>1. CASE u = t
    <3>1. ASSUME Busy(t)' PROVE Owned(t)'
      <4>1. known' = known
        BY <1>3, <3>1
      <4>2. Owned(t)
        BY <1>2 DEF LockInv
      <4>3. QED
        BY <1>3, <4>1, <4>2 DEF Owned
    <3>2. QED
      BY <1>3, <2>1, <3>1
  <2>2. CASE u # t
    <3>1. Shape(call'[u].todo, call'[u].last)
      BY <1>4, <2>2 DEF LockInv
    <3>2. ASSUME Busy(u)
          PROVE  Owned(u)' /\ (Inserting(u)' \/ Locking(call'[u], Conf(u)'))
      <4>1. call[u].ud # call[t].ud /\ call[u].ud \in Uds
        BY <1>2, <1>4, <2>2, <3>2, Alone
      <4>2. Conf(u)' = Conf(u)
        BY <1>1, <1>4, <2>2, <4>1 DEF Moves, Conf
      <4>3. call[u].ud \in known' <=> call[u].ud \in known
        BY <4>1 DEF Moves
      <4>4. Owned(u) /\ (Inserting(u) \/ Locking(call[u], Conf(u)))
        BY <3>2 DEF LockInv
      <4>5. Owned(u)'
        BY <1>4, <2>2, <4>3, <4>4 DEF Owned
      <4>6. QED
        BY <1>4, <2>2, <4>2, <4>4, <4>5
    <3>3. QED
      BY <1>4, <2>2, <3>1, <3>2
  <2>3. QED
    BY <2>1, <2>2
<1>6. ASSUME NEW ud \in Uds, ibConfigs'[ud] # NoConf,
             \A u \in Threads : Busy(u)' => call'[u].ud # ud
      PROVE  Clean(ibConfigs'[ud])
  <2>1. CASE ud = call[t].ud
    <3>1. ~Ongoing(c)
      BY <1>3, <1>6, <2>1
    <3>2. \A x : ~Has(c.last, x)
      BY <3>1 DEF Ongoing, Has
    <3>3. QED
      BY <1>3, <2>1, <3>2 DEF Locking, Clean, Unlocks
  <2>2. CASE ud # call[t].ud
    <3>1. ibConfigs'[ud] = ibConfigs[ud]
      BY <1>1, <2>2 DEF Moves
    <3>2. ASSUME NEW u \in Threads, Busy(u) PROVE call[u].ud # ud
      BY <1>4, <1>6, <2>2, <3>2
    <3>3. QED
      BY <1>6, <3>1, <3>2 DEF LockInv
  <2>3. QED
    BY <2>1, <2>2
<1>7. QED
  BY <1>5, <1>6 DEF LockInv

(* What a call has before a step and after it.                               *)
LEMMA RestHas ==
  ASSUME NEW c \in CallRecords, NEW step,
         \/ c.todo # <<>> /\ Head(c.todo) = step
         \/ c.todo = <<>> /\ c.last # <<>> /\ Head(c.last) = step
  PROVE  /\ c.todo # <<>> =>
              /\ Rest(c).last = c.last /\ Rest(c).todo = Tail(c.todo)
              /\ Exit(c).last = c.last /\ Exit(c).todo = <<>>
              /\ \A x : Has(c.todo, x) <=> x = step \/ Has(Rest(c).todo, x)
         /\ c.todo = <<>> =>
              /\ Exit(c) = Rest(c) /\ Rest(c).todo = <<>> /\ Rest(c).last = Tail(c.last)
              /\ \A x : ~Has(Rest(c).todo, x)
              /\ \A x : Has(c.last, x) <=> x = step \/ Has(Rest(c).last, x)
<1>1. c.todo \in Seq(WorkSteps \union {"insert"}) /\ c.last \in Seq(EndSteps)
  BY DEF CallRecords
<1>2. \A x : ~Has(<<>>, x)
  BY DEF Has
<1>3. CASE c.todo # <<>>
  <2>1. /\ Rest(c).last = c.last /\ Rest(c).todo = Tail(c.todo)
        /\ Exit(c).last = c.last /\ Exit(c).todo = <<>>
    BY <1>3 DEF Rest, Exit, CallRecords
  <2>2. \A x : Has(c.todo, x) <=> x = step \/ Has(Tail(c.todo), x)
    BY <1>1, <1>3, HasTail
  <2>3. QED
    BY <1>3, <2>1, <2>2
<1>4. CASE c.todo = <<>>
  <2>1. Exit(c) = Rest(c) /\ Rest(c).todo = <<>> /\ Rest(c).last = Tail(c.last)
    BY <1>4 DEF Rest, Exit, CallRecords
  <2>2. \A x : Has(c.last, x) <=> x = step \/ Has(Tail(c.last), x)
    BY <1>1, <1>4, HasTail
  <2>3. QED
    BY <1>2, <1>4, <2>1, <2>2
<1>5. QED
  BY <1>3, <1>4

(* A step that neither takes nor gives back a lock.                          *)
SameLocks(conf, old) ==
  /\ conf.has_lock = old.has_lock /\ conf.in_progress = old.in_progress
  /\ conf.lock = old.lock

(* A step that neither locks nor unlocks leaves a call and its descriptor    *)
(* in agreement, if it may not fail where that would skip the lock that the  *)
(* exit gives back.                                                          *)
LEMMA RestLocking ==
  ASSUME NEW c \in CallRecords, Shape(c.todo, c.last), NEW step,
         \/ c.todo # <<>> /\ Head(c.todo) = step
         \/ c.todo = <<>> /\ c.last # <<>> /\ Head(c.last) = step,
         step \notin {"lock", "unlock", "unlock_held", "aio_end"},
         NEW d \in {c, Rest(c), Exit(c)},
         d \in {c, Rest(c)} \/ step \notin {"online", "stop", "assert"},
         NEW old, NEW conf, Locking(c, old), SameLocks(conf, old)
  PROVE  Locking(d, conf)
<1>1. \A x : Has(d.todo, x) => Has(c.todo, x)
  BY RestType DEF Ongoing
<1>2. \A x : x # step /\ Has(c.last, x) => Has(d.last, x)
  BY RestHas
<1>3. ASSUME Has(c.last, "unlock_held"), Has(c.todo, "lock") PROVE Has(d.todo, "lock")
  <2>1. c.todo # <<>> /\ Head(c.todo) = step
    BY <1>3 DEF Has
  <2>2. c.todo \in Seq({"online", "stop", "assert", "lock"})
    BY <1>3 DEF Shape
  <2>3. step \in {"online", "stop", "assert", "lock"}
    BY <2>1, <2>2
  <2>4. d \in {c, Rest(c)}
    BY <2>3
  <2>5. QED
    BY <1>3, <2>1, <2>4, RestHas
<1>4. Has(c.last, "unlock_held") => Has(d.last, "unlock_held")
  BY <1>2
<1>5. \A x : Has(d.last, x) => Has(c.last, x)
  BY RestType DEF Ongoing
<1>6. QED
  BY <1>1, <1>2, <1>3, <1>5 DEF Locking, SameLocks, Unlocks

(* Such a step of a thread keeps the locks in order for all.                 *)
LEMMA LocksGoOn ==
  ASSUME Apart, IInv, LockInv, NEW t \in Threads, NEW step, At(t, step),
         step \notin {"insert", "lock", "unlock", "unlock_held", "aio_end", "return_ud"},
         Advance(t) \/ UNCHANGED call \/ (Fail(t) /\ step \notin {"online", "stop", "assert"}),
         NEW conf \in Confs, ibConfigs' = [ibConfigs EXCEPT ![call[t].ud] = conf],
         SameLocks(conf, Conf(t)), UNCHANGED known, ~aborted'
  PROVE  LockInv'
<1>1. PICK d \in {call[t], Rest(call[t]), Exit(call[t])} :
        /\ call' = [call EXCEPT ![t] = d]
        /\ d \in {call[t], Rest(call[t])} \/ step \notin {"online", "stop", "assert"}
  <2>1. call = [call EXCEPT ![t] = call[t]]
    BY DEF IInv, TypeOK
  <2>2. Advance(t) => call' = [call EXCEPT ![t] = Rest(call[t])]
    BY DEF Advance
  <2>3. Fail(t) => call' = [call EXCEPT ![t] = Exit(call[t])]
    BY DEF Fail
  <2>4. QED
    BY <2>1, <2>2, <2>3
<1>2. /\ call[t] \in CallRecords /\ Ongoing(call[t])
      /\ \/ call[t].todo # <<>> /\ Head(call[t].todo) = step
         \/ call[t].todo = <<>> /\ call[t].last # <<>> /\ Head(call[t].last) = step
  BY AtBusy
<1>3. Shape(call[t].todo, call[t].last) /\ Locking(call[t], Conf(t))
  BY <1>2 DEF LockInv, At, Inserting
<1>4. d \in CallRecords /\ d.ud = call[t].ud
  BY <1>2, RestType
<1>5. Shape(d.todo, d.last)
  BY <1>2, <1>3, RestShape
<1>6. Locking(d, conf)
  BY <1>1, <1>2, <1>3, RestLocking
<1>7. Moves(t, conf, d)
  BY <1>1 DEF Moves
<1>8. QED
  BY <1>4, <1>5, <1>6, <1>7, LocksKept

(* So does one that leaves the table as it is.                               *)
LEMMA LocksSame ==
  ASSUME Apart, IInv, LockInv, NEW t \in Threads, NEW step, At(t, step),
         step \notin {"insert", "lock", "unlock", "unlock_held", "aio_end", "return_ud"},
         Advance(t) \/ UNCHANGED call \/ (Fail(t) /\ step \notin {"online", "stop", "assert"}),
         UNCHANGED <<ibConfigs, known, aborted>>
  PROVE  LockInv'
<1>1. Conf(t) \in Confs
  BY InTable
<1>2. ibConfigs' = [ibConfigs EXCEPT ![call[t].ud] = Conf(t)]
  BY AtBusy DEF IInv, TypeOK, Conf
<1>3. SameLocks(Conf(t), Conf(t)) /\ ~aborted'
  BY AtBusy DEF SameLocks
<1>4. QED
  BY <1>1, <1>2, <1>3, LocksGoOn

(* The steps that take a lock or give it back.                               *)
LEMMA LockSteps ==
  ASSUME Apart, IInv, LockInv, NEW t \in Threads,
         \/ insert_descriptor(t) \/ return_ud(t) \/ conf_lock_board(t)
         \/ conf_unlock_board(t) \/ AioBegin(t) \/ AioEnd(t)
  PROVE  LockInv'
<1> DEFINE c == call[t]
           rest == Rest(c)
<1>1. ASSUME NEW step, At(t, step)
      PROVE  /\ c \in CallRecords /\ Ongoing(c) /\ ~aborted
             /\ \/ c.todo # <<>> /\ Head(c.todo) = step
                \/ c.todo = <<>> /\ c.last # <<>> /\ Head(c.last) = step
             /\ Shape(c.todo, c.last)
             /\ rest \in CallRecords /\ rest.ud = call[t].ud /\ Shape(rest.todo, rest.last)
             /\ step # "insert" => Locking(c, Conf(t)) /\ Conf(t) \in Confs
  <2>1. /\ c \in CallRecords /\ Ongoing(c) /\ ~aborted
        /\ \/ c.todo # <<>> /\ Head(c.todo) = step
           \/ c.todo = <<>> /\ c.last # <<>> /\ Head(c.last) = step
    BY <1>1, AtBusy
  <2>2. Shape(c.todo, c.last)
    BY DEF LockInv
  <2>3. step # "insert" => Locking(c, Conf(t)) /\ Conf(t) \in Confs
    BY <1>1, <2>1, InTable DEF LockInv, At, Inserting
  <2>4. rest \in CallRecords /\ rest.ud = call[t].ud
    BY <2>1, RestType
  <2>5. Shape(rest.todo, rest.last)
    BY <2>1, <2>2, RestShape
  <2>6. QED
    BY <2>1, <2>2, <2>3, <2>4, <2>5
<1>2. ASSUME NEW step, At(t, step), NEW conf \in Confs, Advance(t), Assign(t, conf),
             Locking(rest, conf), known' \in {known, known \union {call[t].ud}},
             step # "return_ud" => known' = known, step = "return_ud" => ~Ongoing(rest),
             UNCHANGED aborted
      PROVE  LockInv'
  <2>1. Moves(t, conf, rest) /\ ~aborted'
    BY <1>1, <1>2 DEF Moves, Advance, Assign
  <2> HIDE DEF c, rest
  <2>2. QED
    BY <1>1, <1>2, <2>1, LocksKept
<1>3. c.todo # <<>> => Head(c.todo) \in WorkSteps \union {"insert"}
  BY DEF IInv, TypeOK, CallRecords
<1>4. c.todo = <<>> /\ c.last # <<>> => Head(c.last) \in EndSteps
  BY DEF IInv, TypeOK, CallRecords
<1>0. ASSUME NEW step, At(t, step)
      PROVE  /\ c.todo # <<>> =>
                  /\ rest.last = c.last /\ rest.todo = Tail(c.todo)
                  /\ \A x : Has(c.todo, x) <=> x = step \/ Has(rest.todo, x)
             /\ c.todo = <<>> =>
                  /\ rest.todo = <<>> /\ rest.last = Tail(c.last)
                  /\ \A x : ~Has(rest.todo, x) /\ ~Has(c.todo, x)
                  /\ \A x : Has(c.last, x) <=> x = step \/ Has(rest.last, x)
  <2> HIDE DEF c
  <2>1. c.todo # <<>> =>
          /\ rest.last = c.last /\ rest.todo = Tail(c.todo)
          /\ \A x : Has(c.todo, x) <=> x = step \/ Has(rest.todo, x)
    <3>1. c \in CallRecords
          /\ \/ c.todo # <<>> /\ Head(c.todo) = step
             \/ c.todo = <<>> /\ c.last # <<>> /\ Head(c.last) = step
      BY <1>0, <1>1
    <3>2. QED
      BY <3>1, RestHas
  <2>2. c.todo = <<>> =>
          /\ rest.todo = <<>> /\ rest.last = Tail(c.last)
          /\ \A x : Has(c.last, x) <=> x = step \/ Has(rest.last, x)
    BY <1>0, <1>1, RestHas
  <2>3. c.todo = <<>> /\ rest.todo = <<>> => \A x : ~Has(rest.todo, x) /\ ~Has(c.todo, x)
    BY DEF Has
  <2> HIDE DEF rest
  <2>4. QED
    BY <2>1, <2>2, <2>3
<1>5. CASE insert_descriptor(t)
  <2> DEFINE conf == init_ibconf(call[t].pad, call[t].usec, FALSE)
             step == "insert"
  <2>1. At(t, step) /\ Advance(t) /\ Assign(t, conf) /\ UNCHANGED <<known, aborted>>
    BY <1>5 DEF insert_descriptor
  <2>2. conf \in Confs
    BY FreshType DEF IInv, TypeOK, CallRecords
  <2>3. conf.has_lock = FALSE /\ conf.in_progress = FALSE /\ conf.lock = NoThread
    BY DEF init_ibconf
  <2>4. c.todo # <<>> /\ Head(c.todo) = "insert"
    BY <1>1, <1>4, <2>1 DEF EndSteps
  <2>5. ~Has(c.last, "unlock_held")
    <3>1. ASSUME c.todo \in Seq({"online", "stop", "assert", "lock"}) PROVE FALSE
      BY <2>4, <3>1
    <3>2. QED
      BY <1>1, <2>1, <3>1 DEF Shape
  <2>6. ~Has(rest.last, "unlock_held")
    BY <1>1, <2>1, <2>5, RestHas
  <2> HIDE DEF conf
  <2>7. Locking(rest, conf)
    BY <2>3, <2>6 DEF Locking
  <2>8. step # "return_ud"
    OBVIOUS
  <2> HIDE DEF step, c, rest
  <2>9. QED
    BY <1>2, <2>1, <2>2, <2>7, <2>8
<1>6. CASE return_ud(t)
  <2> DEFINE step == "return_ud"
  <2>1. At(t, step) /\ Advance(t) /\ UNCHANGED <<ibConfigs, aborted>>
        /\ known' = known \union {call[t].ud}
    BY <1>6 DEF return_ud
  <2>2. c.todo = <<>> /\ c.last # <<>> /\ Head(c.last) = "return_ud"
    BY <1>1, <1>3, <2>1 DEF WorkSteps
  <2>3. Locking(c, Conf(t)) /\ Conf(t) \in Confs
    BY <1>1, <2>1
  <2>4. \A x : ~Has(Tail(c.last), x)
    <3>1. \A x : NoneAfter(c.last, {"return_ud"}, x)
      BY <1>1, <2>1 DEF Shape
    <3>2. c.last \in Seq(EndSteps)
      BY DEF IInv, TypeOK, CallRecords
    <3>3. QED
      BY <2>2, <3>1, <3>2, NoneAfterTail
  <2>5. rest.todo = <<>> /\ rest.last = Tail(c.last)
    BY <1>1, <2>1, <2>2, RestHas
  <2>6. Tail(c.last) = <<>>
    <3>1. c.last \in Seq(EndSteps)
      BY DEF IInv, TypeOK, CallRecords
    <3>2. Tail(c.last) \in Seq(EndSteps)
      BY <2>2, <3>1
    <3>3. CASE Tail(c.last) # <<>>
      BY <2>4, <3>2, <3>3, HasTail
    <3>4. QED
      BY <3>3
  <2>7. ~Ongoing(rest)
    BY <2>5, <2>6 DEF Ongoing
  <2>8. Locking(rest, Conf(t))
    <3>1. \A x : Has(c.last, x) => x = "return_ud"
      <4> HIDE DEF c, rest
      <4>1. QED
        BY <1>0, <2>1, <2>2, <2>4, <2>5
    <3>2. ~Unlocks(c.last) /\ ~Has(c.last, "aio_end")
      BY <3>1 DEF Unlocks
    <3>3. \A x : ~Has(rest.last, x)
      BY <2>4, <2>5
    <3>4. QED
      BY <2>3, <3>2, <3>3 DEF Locking
  <2>9. Assign(t, Conf(t))
    BY <1>1, <2>1 DEF Assign, IInv, TypeOK, Conf, CallRecords
  <2> HIDE DEF step, c, rest
  <2>10. QED
    BY <1>2, <2>1, <2>3, <2>7, <2>8, <2>9 DEF step
<1>7. CASE conf_lock_board(t)
  <2> DEFINE conf == [Conf(t) EXCEPT !.has_lock = TRUE]
             step == "lock"
  <2>1. At(t, step) /\ Advance(t) /\ Assign(t, conf) /\ UNCHANGED <<known, aborted>>
    BY <1>7 DEF conf_lock_board
  <2>2. Conf(t) \in Confs /\ Locking(c, Conf(t)) /\ Shape(c.todo, c.last)
    BY <1>1, <2>1
  <2>3. conf \in Confs
    BY <2>2, ConfType
  <2>4. conf.has_lock = TRUE /\ conf.in_progress = Conf(t).in_progress
        /\ conf.lock = Conf(t).lock
    BY <2>2 DEF Confs
  <2>5. c.todo # <<>> /\ Head(c.todo) = "lock"
    BY <1>1, <1>4, <2>1 DEF EndSteps
  <2>6. /\ rest.last = c.last /\ rest.todo = Tail(c.todo)
        /\ Has(c.todo, "lock")
    BY <1>1, <2>1, <2>5, RestHas
  <2>7. ~Has(rest.todo, "assert")
    <3>1. c.todo \in Seq(WorkSteps \union {"insert"})
      BY DEF IInv, TypeOK, CallRecords
    <3>2. QED
      BY <2>2, <2>5, <2>6, <3>1, NoneAfterTail DEF Shape
  <2>8. Unlocks(rest.last)
    BY <2>2, <2>6 DEF Shape
  <2> HIDE DEF conf
  <2>9. Locking(rest, conf)
    BY <2>2, <2>4, <2>6, <2>7, <2>8 DEF Locking
  <2>10. step # "return_ud"
    OBVIOUS
  <2> HIDE DEF step, c, rest
  <2>11. QED
    BY <1>2, <2>1, <2>3, <2>9, <2>10
<1>8. CASE conf_unlock_board(t)
  <2> DEFINE conf == [Conf(t) EXCEPT !.has_lock = FALSE]
  <2>1. PICK step \in {"unlock", "unlock_held"} : At(t, step)
    BY <1>8 DEF conf_unlock_board
  <2>2. Conf(t) \in Confs /\ Locking(c, Conf(t)) /\ Shape(c.todo, c.last)
    BY <1>1, <2>1
  <2>3. conf \in Confs
    BY <2>2, ConfType
  <2>4. conf.has_lock = FALSE /\ conf.in_progress = Conf(t).in_progress
        /\ conf.lock = Conf(t).lock
    BY <2>2 DEF Confs
  <2>5. c.todo = <<>> /\ c.last # <<>> /\ Head(c.last) = step
    BY <1>1, <1>3, <2>1 DEF WorkSteps
  <2>6. /\ rest.last = Tail(c.last) /\ ~Has(c.todo, "lock")
        /\ \A x : Has(c.last, x) <=> x = step \/ Has(rest.last, x)
    <3> HIDE DEF c, rest
    <3>1. QED
      BY <1>0, <2>1, <2>5
  <2>7. ~Has(rest.last, "unlock_held")
    <3>1. c.last \in Seq(EndSteps)
      BY DEF IInv, TypeOK, CallRecords
    <3>2. Head(c.last) \in Releases
      BY <2>1, <2>5 DEF Releases
    <3>3. QED
      BY <2>2, <2>5, <2>6, <3>1, <3>2, NoneAfterTail DEF Shape
  <2>8. step = "unlock_held" => Conf(t).has_lock
    BY <2>2, <2>6 DEF Locking
  <2>9. Now(t) = step
    BY <2>1 DEF At
  <2>10. Advance(t) /\ Assign(t, conf) /\ UNCHANGED <<known, aborted>>
    BY <1>8, <2>8, <2>9 DEF conf_unlock_board
  <2> HIDE DEF conf
  <2>11. Locking(rest, conf)
    BY <2>1, <2>2, <2>4, <2>6, <2>7, <2>5 DEF Locking, Has
  <2> HIDE DEF c, rest
  <2>12. QED
    BY <1>2, <2>1, <2>3, <2>10, <2>11
<1>9. CASE AioBegin(t)
  <2> DEFINE conf == [Conf(t) EXCEPT !.lock = t, !.in_progress = TRUE]
             step == "aio_begin"
  <2>1. At(t, step) /\ Advance(t) /\ Assign(t, conf) /\ UNCHANGED <<known, aborted>>
    BY <1>9 DEF AioBegin
  <2>2. Conf(t) \in Confs /\ Locking(c, Conf(t)) /\ Shape(c.todo, c.last)
    BY <1>1, <2>1
  <2>3. conf \in Confs
    BY <2>2, ConfType
  <2>4. conf.has_lock = Conf(t).has_lock /\ conf.in_progress = TRUE /\ conf.lock = t
    BY <2>2 DEF Confs
  <2>5. c.todo # <<>> /\ Head(c.todo) = "aio_begin"
    BY <1>1, <1>4, <2>1 DEF EndSteps
  <2>6. /\ rest.last = c.last /\ \A x : Has(c.todo, x) <=> x = step \/ Has(rest.todo, x)
    <3> HIDE DEF c, rest
    <3>1. QED
      BY <1>0, <2>1, <2>5
  <2>7. Has(c.last, "aio_end")
    BY <2>2, <2>6 DEF Shape
  <2>8. t # NoThread
    BY LibraryAssumption
  <2> HIDE DEF conf
  <2>9. Locking(rest, conf)
    BY <2>2, <2>4, <2>6, <2>7, <2>8 DEF Locking
  <2>10. step # "return_ud"
    OBVIOUS
  <2> HIDE DEF step, c, rest
  <2>11. QED
    BY <1>2, <2>1, <2>3, <2>9, <2>10
<1>10. CASE AioEnd(t)
  <2> DEFINE conf == [Conf(t) EXCEPT !.lock = NoThread, !.in_progress = FALSE]
             step == "aio_end"
  <2>1. At(t, step) /\ Advance(t) /\ Assign(t, conf) /\ UNCHANGED <<known, aborted>>
    BY <1>10 DEF AioEnd
  <2>2. Conf(t) \in Confs /\ Locking(c, Conf(t)) /\ Shape(c.todo, c.last)
    BY <1>1, <2>1
  <2>3. conf \in Confs
    BY <2>2, ConfType
  <2>4. conf.has_lock = Conf(t).has_lock /\ conf.in_progress = FALSE /\ conf.lock = NoThread
    BY <2>2 DEF Confs
  <2>5. c.todo = <<>> /\ c.last # <<>> /\ Head(c.last) = "aio_end"
    BY <1>1, <1>3, <2>1 DEF WorkSteps
  <2>6. /\ \A x : ~Has(rest.todo, x) /\ ~Has(c.todo, x)
        /\ \A x : Has(c.last, x) <=> x = step \/ Has(rest.last, x)
    <3> HIDE DEF c, rest
    <3>1. QED
      BY <1>0, <2>1, <2>5
  <2>7. Unlocks(c.last) => Unlocks(rest.last)
    BY <2>6 DEF Unlocks
  <2>8. Has(rest.last, "unlock_held") => Has(c.last, "unlock_held")
    BY <2>6
  <2> HIDE DEF conf
  <2>9. Locking(rest, conf)
    BY <2>2, <2>4, <2>6, <2>7, <2>8 DEF Locking
  <2>10. step # "return_ud"
    OBVIOUS
  <2> HIDE DEF step, c, rest
  <2>11. QED
    BY <1>2, <2>1, <2>3, <2>9, <2>10
<1>11. QED
  BY <1>5, <1>6, <1>7, <1>8, <1>9, <1>10

(* The steps that leave the locks alone, ...                                 *)
LEMMA ConfLocks ==
  ASSUME NEW old \in Confs
  PROVE  /\ \A usec : SameLocks([old EXCEPT !.usec_timeout = usec], old)
         /\ \A pad : SameLocks([old EXCEPT !.pad = pad], old)
         /\ \A h : SameLocks([old EXCEPT !.handle = h], old)
         /\ \A h, b : SameLocks([old EXCEPT !.handle = h, !.board_is_open = b], old)
         /\ \A u : old.lock = u => SameLocks([old EXCEPT !.lock = u], old)
         /\ \A b : old.in_progress = b => SameLocks([old EXCEPT !.in_progress = b], old)
  BY DEF SameLocks, Confs

(* The steps that do not lock or unlock keep the locks in order.             *)
LEMMA FreeSteps ==
  ASSUME Apart, IInv, LockInv, NEW t \in Threads,
         \/ conf_online(t) \/ LookForAio(t) \/ AssertUnlocked(t) \/ is_cic(t)
         \/ my_wait(t) \/ StatusOutOfCharge(t) \/ set_timeout(t) \/ send_setup(t)
         \/ InternalReceiveSetup(t) \/ Transfer(t) \/ serial_poll(t) \/ ChangePrimary(t) \/ ChangeSecondary(t)
         \/ internal_ibtmo(t) \/ close_gpib_handle(t) \/ internal_ibstop(t)
         \/ CollectAio(t)
  PROVE  LockInv'
<1> DEFINE goes(step) ==
             Advance(t) \/ UNCHANGED call \/ (Fail(t) /\ step \notin {"online", "stop", "assert"})
           takes == {"insert", "lock", "unlock", "unlock_held", "aio_end", "return_ud"}
<1>1. ASSUME NEW step, At(t, step), step \notin takes, goes(step),
             UNCHANGED <<ibConfigs, known, aborted>>
      PROVE  LockInv'
  BY <1>1, LocksSame
<1>2. Outcome(t) => Advance(t) \/ UNCHANGED call \/ Fail(t)
  BY DEF Outcome
<1>3. ASSUME NEW step, At(t, step), step # "insert"
      PROVE  Conf(t) \in Confs /\ Locking(call[t], Conf(t)) /\ ~aborted
             /\ call[t] \in CallRecords /\ call[t].ud \in Uds
             /\ \/ call[t].todo # <<>> /\ Head(call[t].todo) = step
                \/ call[t].todo = <<>> /\ call[t].last # <<>> /\ Head(call[t].last) = step
  BY <1>3, InTable, AtBusy DEF LockInv, At, Inserting
<1>4. ASSUME NEW step, At(t, step), step \notin takes, goes(step),
             NEW conf, Assign(t, conf), Conf(t) \in Confs => conf \in Confs,
             Conf(t) \in Confs => SameLocks(conf, Conf(t)), UNCHANGED <<known, aborted>>
      PROVE  LockInv'
  <2>1. Conf(t) \in Confs /\ ~aborted'
    BY <1>3, <1>4
  <2> HIDE DEF goes
  <2>2. QED
    BY <1>4, <2>1, LocksGoOn DEF Assign, goes
<1>5. call[t].pad \in Pads /\ call[t].usec \in Nat
  BY DEF IInv, TypeOK, CallRecords
<1>6. CASE conf_online(t)
  <2> DEFINE conf == [Conf(t) EXCEPT !.handle = reply'.handle, !.board_is_open = TRUE]
  <2>1. At(t, "online") /\ Advance(t) /\ UNCHANGED <<known, aborted>>
        /\ (UNCHANGED ibConfigs \/ (Assign(t, conf) /\
               Link!open_dev_ioctl(Conf(t).pad, Conf(t).sad, Interface(t))))
    BY <1>6 DEF conf_online
  <2>2. CASE UNCHANGED ibConfigs
    BY <1>1, <2>1, <2>2
  <2>3. CASE Assign(t, conf) /\ Link!open_dev_ioctl(Conf(t).pad, Conf(t).sad, Interface(t))
    <3>1. ASSUME Conf(t) \in Confs PROVE conf \in Confs /\ SameLocks(conf, Conf(t))
      <4>1. Array /\ MaxOpen \in Nat /\ Conf(t).pad \in Pads /\ Conf(t).sad \in Sads
            /\ Interface(t) \in BOOLEAN
        BY <3>1, LibraryAssumption DEF IInv, TypeOK, Array, Confs, Interface
      <4>2. Array' /\ reply'.handle \in 0 .. Len(m_descriptors') - 1
        BY <2>3, <4>1, OpenStep
      <4>3. reply'.handle \in -1 .. MaxOpen
        BY <4>1, <4>2 DEF Array
      <4>4. QED
        BY <3>1, <4>3, ConfType, ConfLocks
    <3> HIDE DEF conf
    <3>2. QED
      BY <1>4, <2>1, <2>3, <3>1
  <2>4. QED
    BY <2>1, <2>2, <2>3
<1>7. CASE LookForAio(t)
  BY <1>1, <1>7 DEF LookForAio
<1>8. CASE AssertUnlocked(t)
  <2>1. At(t, "assert") /\ UNCHANGED <<ibConfigs, known>>
    BY <1>8 DEF AssertUnlocked
  <2>2. Has(call[t].todo, "assert")
    <3>1. call[t] \in CallRecords
          /\ \/ call[t].todo # <<>> /\ Head(call[t].todo) = "assert"
             \/ call[t].todo = <<>> /\ call[t].last # <<>> /\ Head(call[t].last) = "assert"
      BY <1>3, <2>1
    <3>2. call[t].last # <<>> => Head(call[t].last) \in EndSteps
      BY <3>1 DEF CallRecords
    <3>3. call[t].todo # <<>>
      BY <3>1, <3>2 DEF EndSteps
    <3>4. QED
      BY <3>1, <3>3, RestHas
  <2>3. ~Conf(t).has_lock
    BY <1>3, <2>1, <2>2 DEF Locking
  <2>4. QED
    BY <1>1, <1>8, <2>1, <2>3 DEF AssertUnlocked
<1>9. CASE is_cic(t)
  <2>1. PICK step \in {"cic", "own_cic"} : At(t, step)
    BY <1>9 DEF is_cic
  <2>2. QED
    BY <1>1, <1>2, <1>9, <2>1 DEF is_cic
<1>10. CASE my_wait(t)
  <2>1. PICK step \in {"status", "status_set_CMPL", "status_clear_CMPL"} : At(t, step)
    BY <1>10 DEF my_wait
  <2>2. QED
    BY <1>1, <1>2, <1>10, <2>1 DEF my_wait
<1>11. CASE set_timeout(t)
  <2>1. PICK step \in {"IBTMO", "IBTMO_spoll"} : At(t, step)
    BY <1>11 DEF set_timeout
  <2>2. QED
    BY <1>1, <1>11, <2>1 DEF set_timeout
<1>12. CASE send_setup(t)
  BY <1>1, <1>2, <1>12 DEF send_setup, Command
<1>13. CASE InternalReceiveSetup(t)
  BY <1>1, <1>2, <1>13 DEF InternalReceiveSetup, Command
<1>14. CASE Transfer(t)
  <2>1. PICK step \in {"IBRD", "IBWRT"} : At(t, step)
    BY <1>14 DEF Transfer
  <2>2. QED
    BY <1>1, <1>2, <1>14, <2>1 DEF Transfer
<1>15. CASE serial_poll(t)
  BY <1>1, <1>2, <1>15 DEF serial_poll
<1>16. CASE ChangePrimary(t)
  BY <1>1, <1>2, <1>16 DEF ChangePrimary
<1>17. CASE ChangeSecondary(t)
  <2> DEFINE conf == [Conf(t) EXCEPT !.pad = call[t].pad]
  <2>1. /\ At(t, "IBSAD") /\ goes("IBSAD") /\ UNCHANGED <<known, aborted>>
        /\ UNCHANGED ibConfigs \/ Assign(t, conf)
    BY <1>2, <1>17 DEF ChangeSecondary
  <2>2. Conf(t) \in Confs => conf \in Confs /\ SameLocks(conf, Conf(t))
    BY <1>5, ConfType, ConfLocks
  <2> HIDE DEF conf, goes
  <2>3. QED
    BY <1>1, <1>4, <2>1, <2>2
<1>18. CASE internal_ibtmo(t)
  <2> DEFINE conf == [Conf(t) EXCEPT !.usec_timeout = call[t].usec]
  <2>1. At(t, "set_timeout") /\ goes("set_timeout") /\ UNCHANGED <<known, aborted>>
        /\ Assign(t, conf)
    BY <1>18 DEF internal_ibtmo
  <2>2. Conf(t) \in Confs => conf \in Confs /\ SameLocks(conf, Conf(t))
    BY <1>5, ConfType, ConfLocks
  <2> HIDE DEF conf, goes
  <2>3. QED
    BY <1>4, <2>1, <2>2
<1>19. CASE close_gpib_handle(t)
  <2> DEFINE conf == [Conf(t) EXCEPT !.handle = -1]
  <2>1. /\ At(t, "IBCLOSEDEV") /\ goes("IBCLOSEDEV") /\ UNCHANGED <<known, aborted>>
        /\ UNCHANGED ibConfigs \/ Assign(t, conf)
    BY <1>2, <1>19 DEF close_gpib_handle
  <2>2. Conf(t) \in Confs => conf \in Confs /\ SameLocks(conf, Conf(t))
    <3>1. -1 \in -1 .. MaxOpen
      BY LibraryAssumption
    <3>2. QED
      BY <3>1, ConfType, ConfLocks
  <2> HIDE DEF conf, goes
  <2>3. QED
    BY <1>1, <1>4, <2>1, <2>2
<1>20. CASE internal_ibstop(t)
  <2> DEFINE holder == IF Conf(t).in_progress THEN t ELSE NoThread
             conf == [Conf(t) EXCEPT !.lock = holder]
  <2>1. At(t, "stop") /\ goes("stop") /\ UNCHANGED <<known, aborted>>
        /\ Assign(t, conf) /\ Conf(t).lock = NoThread
    BY <1>20 DEF internal_ibstop
  <2>2. holder = NoThread
    BY <1>3, <2>1 DEF Locking
  <2> HIDE DEF holder
  <2>3. Conf(t) \in Confs => conf \in Confs /\ SameLocks(conf, Conf(t))
    BY <2>1, <2>2, ConfType, ConfLocks
  <2> HIDE DEF conf, goes
  <2>4. QED
    BY <1>4, <2>1, <2>3
<1>21. CASE CollectAio(t)
  <2> DEFINE conf == [Conf(t) EXCEPT !.in_progress = FALSE]
  <2>1. At(t, "collect") /\ goes("collect") /\ UNCHANGED <<known, aborted>>
        /\ Assign(t, conf) /\ Conf(t).lock = NoThread
    BY <1>21 DEF CollectAio
  <2>2. Conf(t) \in Confs => Conf(t).in_progress = FALSE
    BY <1>3, <2>1 DEF Locking, Confs
  <2>3. Conf(t) \in Confs => conf \in Confs /\ SameLocks(conf, Conf(t))
    BY <2>2, ConfType, ConfLocks
  <2> HIDE DEF conf, goes
  <2>4. QED
    BY <1>4, <2>1, <2>3
<1>22. CASE StatusOutOfCharge(t)
  <2>1. PICK step \in {"status", "status_set_CMPL", "status_clear_CMPL"} : At(t, step)
    BY <1>22 DEF StatusOutOfCharge
  <2>2. QED
    BY <1>1, <1>22, <2>1 DEF StatusOutOfCharge
<1>23. QED
  BY <1>6, <1>7, <1>8, <1>9, <1>10, <1>11, <1>12, <1>13, <1>14, <1>15, <1>16, <1>17,
     <1>18, <1>19, <1>20, <1>21, <1>22

(* ... and ibwait's answer, which skips the rest of a call that holds none.  *)
LEMMA IbwaitLocks ==
  ASSUME Apart, IInv, LockInv, NEW t \in Threads, IbwaitAnswer(t)
  PROVE  LockInv'
<1>1. At(t, "wait") /\ UNCHANGED <<ibConfigs, known, aborted>>
  BY DEF IbwaitAnswer
<1>2. CASE GoesOn(t)
  <2>1. Advance(t) \/ UNCHANGED call \/ Fail(t)
    BY <1>2 DEF GoesOn
  <2>2. QED
    BY <1>1, <2>1, LocksSame
<1>3. ASSUME NEW last \in {<<"collect">>, <<>>},
             call' = [call EXCEPT ![t].todo = <<>>, ![t].last = last]
      PROVE  LockInv'
  <2> DEFINE c == [call[t] EXCEPT !.todo = <<>>, !.last = last]
  <2>1. /\ call[t] \in CallRecords /\ call \in [Threads -> CallRecords] /\ ~aborted
        /\ call[t].ud \in Uds /\ Conf(t) \in Confs
        /\ \/ call[t].todo # <<>> /\ Head(call[t].todo) = "wait"
           \/ call[t].todo = <<>> /\ call[t].last # <<>> /\ Head(call[t].last) = "wait"
    BY <1>1, AtBusy, InTable DEF IInv, TypeOK
  <2>2. Shape(call[t].todo, call[t].last) /\ Locking(call[t], Conf(t))
    BY <1>1, <2>1 DEF LockInv, At, Inserting
  <2>3. Has(call[t].todo, "wait")
    <3>1. call[t].last # <<>> => Head(call[t].last) \in EndSteps
      BY <2>1 DEF CallRecords
    <3>2. call[t].todo # <<>>
      BY <2>1, <3>1 DEF EndSteps
    <3>3. QED
      BY <2>1, <3>2, RestHas
  <2>4. Clean(Conf(t))
    BY <2>2, <2>3 DEF Shape, Locking, Clean
  <2>5. \A x : Has(last, x) => x = "collect"
    BY <1>3 DEF Has
  <2>6. <<"collect">> \in Seq(EndSteps) /\ <<>> \in Seq(EndSteps)
        /\ <<>> \in Seq(WorkSteps \union {"insert"})
    BY DEF EndSteps
  <2>7. last \in Seq(EndSteps)
    BY <1>3, <2>6
  <2>8. c \in CallRecords /\ c.ud = call[t].ud /\ c.todo = <<>> /\ c.last = last
    BY <2>1, <2>6, <2>7 DEF CallRecords
  <2>9. call' = [call EXCEPT ![t] = c]
    BY <1>3, <2>1
  <2>10. ibConfigs' = [ibConfigs EXCEPT ![call[t].ud] = Conf(t)]
    BY <1>1, <2>1 DEF IInv, TypeOK, Conf
  <2>11. Moves(t, Conf(t), c)
    BY <1>1, <2>9, <2>10 DEF Moves
  <2>12. \A x : ~Has(<<>>, x)
    BY DEF Has
  <2>13. Shape(<<>>, last)
    <3>1. /\ NoneAfter(<<>>, {"lock"}, "assert") /\ NoneAfter(last, Releases, "unlock_held")
          /\ \A x : NoneAfter(last, {"return_ud"}, x)
      BY <2>5, <2>12, NoneAfterNone
    <3>2. ~Has(last, "unlock_held")
      BY <2>5
    <3>3. QED
      BY <2>12, <3>1, <3>2 DEF Shape
  <2> HIDE DEF c
  <2>14. Shape(c.todo, c.last)
    BY <2>8, <2>13
  <2>15. Locking(c, Conf(t))
    BY <2>4, <2>5, <2>8, <2>12 DEF Locking, Clean
  <2> DEFINE step == "wait"
  <2>16. At(t, step) /\ ~aborted' /\ known' = known
    BY <1>1, <2>1
  <2>17. step # "return_ud"
    OBVIOUS
  <2> HIDE DEF step
  <2>18. QED
    BY <2>1, <2>8, <2>11, <2>14, <2>15, <2>16, <2>17, LocksKept
<1>4. QED
  BY <1>2, <1>3, OutcomeGoesOn DEF IbwaitAnswer, GoesOn

(* A call begins on a descriptor that nobody uses, with no lock of it held.  *)
LEMMA BeginLocks ==
  ASSUME Apart, IInv, LockInv, NEW t \in Threads, Begin(t)
  PROVE  LockInv'
<1>1. ASSUME NEW c, Shape(c.todo, c.last), call' = [call EXCEPT ![t] = c], ~Busy(t),
             UNCHANGED <<ibConfigs, known, aborted>>, Owned(t)',
             \/ c.todo # <<>> /\ Head(c.todo) = "insert"
             \/ c.ud \in Uds /\ Locking(c, ibConfigs[c.ud])
      PROVE  LockInv'
  <2>1. call \in [Threads -> CallRecords]
    BY DEF IInv, TypeOK
  <2>2. ASSUME NEW u \in Threads
        PROVE  /\ Shape(call'[u].todo, call'[u].last)
               /\ Busy(u)' => Owned(u)' /\ (Inserting(u)' \/ Locking(call'[u], Conf(u)'))
    <3>1. CASE u = t
      <4>1. call'[t] = c
        BY <1>1, <2>1
      <4>2. Inserting(t)' \/ Locking(call'[t], Conf(t)')
        BY <1>1, <4>1 DEF Inserting, Conf
      <4>3. QED
        BY <1>1, <3>1, <4>1, <4>2
    <3>2. CASE u # t
      <4>1. call'[u] = call[u]
        BY <1>1, <2>1, <3>2
      <4>2. /\ Busy(u)' <=> Busy(u)
            /\ Inserting(u)' <=> Inserting(u)
            /\ Owned(u)' <=> Owned(u)
            /\ Conf(u)' = Conf(u)
        BY <1>1, <4>1 DEF Busy, Inserting, Owned, Conf
      <4>3. QED
        BY <4>1, <4>2 DEF LockInv
    <3>3. QED
      BY <3>1, <3>2
  <2>3. ASSUME NEW ud \in Uds, ibConfigs'[ud] # NoConf,
               \A u \in Threads : Busy(u)' => call'[u].ud # ud
        PROVE  Clean(ibConfigs'[ud])
    <3>1. ASSUME NEW u \in Threads, Busy(u) PROVE call[u].ud # ud
      <4>1. u # t
        BY <1>1, <3>1
      <4>2. call'[u] = call[u]
        BY <1>1, <2>1, <4>1
      <4>3. QED
        BY <2>3, <3>1, <4>2 DEF Busy
    <3>2. QED
      BY <1>1, <2>3, <3>1 DEF LockInv
  <2>4. QED
    BY <1>1, <2>2, <2>3 DEF LockInv
<1>2. CASE \E op \in Calls, ud \in Uses[t], pad \in {0} \union DevicePads \union SadArgs,
              usec \in {0} \union Timeouts : BeginCall(t, op, ud, pad, usec)
  <2>1. PICK op \in Calls, ud \in Uses[t], pad \in {0} \union DevicePads \union SadArgs,
             usec \in {0} \union Timeouts : BeginCall(t, op, ud, pad, usec)
    BY <1>2
  <2> DEFINE steps == StepsOf(op, ibConfigs[ud])
             c == NewCall(ud, pad, usec, steps)
  <2>2. op \in LibraryCalls /\ ud \in known /\ ud \in Uds
    BY <2>1, LibraryAssumption DEF BeginCall, IInv, TypeOK
  <2>3. ibConfigs[ud].is_interface \in BOOLEAN /\ ibConfigs[ud] # NoConf
    BY <2>2 DEF IInv, TypeOK, Configured, Confs
  <2>4. Formed(steps)
    BY <2>2, <2>3, CallFormed
  <2>5. /\ call' = [call EXCEPT ![t] = c] /\ UNCHANGED <<ibConfigs, known, aborted>>
        /\ ~Busy(t)
    BY <2>1 DEF BeginCall, Ready
  <2>6. c.ud = ud /\ c.todo = steps.todo /\ c.last = steps.last
    BY DEF NewCall
  <2>7. ASSUME NEW u \in Threads, Busy(u) PROVE call[u].ud # ud
    <3>1. u # t
      BY <2>5, <2>7
    <3>2. Owned(u)
      BY <2>7 DEF LockInv
    <3>3. QED
      BY <2>1, <2>2, <3>1, <3>2 DEF Owned, Apart
  <2>8. Clean(ibConfigs[ud])
    BY <2>2, <2>3, <2>7 DEF LockInv
  <2> HIDE DEF c, steps
  <2>9. call'[t] = c
    BY <2>5 DEF IInv, TypeOK
  <2>10. Owned(t)'
    BY <2>2, <2>5, <2>6, <2>9 DEF Owned
  <2>11. Locking(c, ibConfigs[ud])
    BY <2>4, <2>6, <2>8 DEF Locking, Clean, Formed
  <2>12. Shape(c.todo, c.last)
    BY <2>4, <2>6 DEF Formed
  <2>13. QED
    BY <1>1, <2>2, <2>5, <2>6, <2>10, <2>11, <2>12
<1>3. CASE \E pad \in DevicePads, usec \in Timeouts : BeginIbdev(t, pad, usec)
  <2>1. PICK pad \in DevicePads, usec \in Timeouts : BeginIbdev(t, pad, usec)
    BY <1>3
  <2>2. PICK ud \in Free : call' = [call EXCEPT ![t] = NewCall(ud, pad, usec, ibdev)]
    BY <2>1 DEF BeginIbdev
  <2> DEFINE c == NewCall(ud, pad, usec, ibdev)
  <2>3. /\ ~Busy(t) /\ t \in Openers /\ UNCHANGED <<ibConfigs, known, aborted>>
    BY <2>1 DEF BeginIbdev, Ready
  <2>4. ud \in Devices /\ ud \notin known
    BY DEF Free, IInv, Configured
  <2>5. c.ud = ud /\ c.todo = ibdev.todo /\ c.last = ibdev.last
    BY DEF NewCall
  <2>6. c.todo # <<>> /\ Head(c.todo) = "insert" /\ Shape(c.todo, c.last)
    BY <2>5, IbdevInserts, IbdevFormed DEF Formed
  <2>7. call' = [call EXCEPT ![t] = c]
    BY <2>2
  <2> HIDE DEF c
  <2>8. call'[t] = c
    BY <2>7 DEF IInv, TypeOK
  <2>9. Owned(t)'
    BY <2>3, <2>4, <2>5, <2>8 DEF Owned
  <2>10. QED
    BY <1>1, <2>3, <2>6, <2>7, <2>9
<1>4. QED
  BY <1>2, <1>3 DEF Begin

(* No lock is held before the first call.                                    *)
LEMMA InitLocks == ASSUME Init PROVE LockInv
<1>1. known = {} /\ aborted = FALSE
  BY SMT DEF Init
<1> DEFINE usec == 3000000
<1>2. ibConfigs = [ud \in Uds |-> IF ud = 0 THEN init_ibconf(0, usec, TRUE) ELSE NoConf]
  BY SMT DEF Init
<1> HIDE DEF usec
<1>3. Clean(init_ibconf(0, usec, TRUE))
  BY DEF Clean, init_ibconf
<1>4. ASSUME NEW ud \in Uds, ibConfigs[ud] # NoConf PROVE Clean(ibConfigs[ud])
  BY <1>2, <1>3, <1>4
<1>5. 0 \in Uds /\ ibConfigs[0] = init_ibconf(0, usec, TRUE)
  BY <1>2, LibraryAssumption DEF Uds
<1>6. ASSUME NEW t \in Threads
      PROVE  /\ Shape(call[t].todo, call[t].last)
             /\ Busy(t) => Owned(t) /\ Locking(call[t], Conf(t))
  <2>1. CASE t = Boot
    <3>1. call[t] = NewCall(0, 0, 0, configure_board)
      BY <2>1, SMT DEF Init
    <3>2. call[t].ud = 0 /\ call[t].todo = configure_board.todo
          /\ call[t].last = configure_board.last
      BY <3>1 DEF NewCall
    <3>3. Formed(configure_board)
      BY BootFormed
    <3>4. Owned(t)
      BY <1>1, <2>1, <3>2 DEF Owned
    <3>5. Clean(Conf(t))
      BY <1>3, <1>5, <3>2 DEF Conf
    <3>6. Locking(call[t], Conf(t))
      BY <3>2, <3>3, <3>5 DEF Formed, Locking, Clean
    <3>7. QED
      BY <3>2, <3>3, <3>4, <3>6 DEF Formed
  <2>2. CASE t # Boot
    <3>1. call[t] = NewCall(0, 0, 0, Steps(<<>>, <<>>))
      BY <2>2, SMT DEF Init
    <3>2. call[t].todo = <<>> /\ call[t].last = <<>>
      BY <3>1 DEF NewCall, Steps
    <3>3. Shape(<<>>, <<>>)
      <4>1. \A x : ~Has(<<>>, x)
        BY DEF Has
      <4>2. \A A, b : NoneAfter(<<>>, A, b)
        BY DEF NoneAfter
      <4>3. QED
        BY <4>1, <4>2 DEF Shape
    <3>4. QED
      BY <3>2, <3>3 DEF Busy
  <2>3. QED
    BY <2>1, <2>2
<1>7. QED
  BY <1>1, <1>4, <1>6 DEF LockInv

(* The locks of a descriptor are held by the call that is on it, which gives *)
(* them back on every way through its steps.                                 *)
THEOREM LibraryLocks == ASSUME Apart PROVE Spec => []LockInv
<1>1. Init => LockInv
  BY InitLocks
<1>2. IInv /\ LockInv /\ [Next]_vars => LockInv'
  <2> SUFFICES ASSUME IInv, LockInv, [Next]_vars PROVE LockInv'
    OBVIOUS
  <2>1. CASE Next
    <3>1. PICK t \in Threads : Begin(t) \/ Step(t)
      BY <2>1 DEF Next
    <3>2. CASE Begin(t)
      BY <3>2, BeginLocks
    <3>3. CASE Step(t)
      BY <3>3, LockSteps, FreeSteps, IbwaitLocks DEF Step
    <3>4. QED
      BY <3>1, <3>2, <3>3
  <2>2. CASE UNCHANGED vars
    BY <2>2 DEF vars, LockInv, Busy, Conf, Owned, Inserting
  <2>3. QED
    BY <2>1, <2>2
<1>3. QED
  BY <1>1, <1>2, LibraryInvariance, PTL DEF Spec

(* NoAbort: where threads keep to descriptors of their own and one of them   *)
(* opens, neither of the asserts of conf_lock_board and conf_unlock_board    *)
(* fails.                                                                    *)
THEOREM LibraryDoesNotAbort == ASSUME Apart PROVE Spec => []NoAbort
<1>1. LockInv => NoAbort
  BY DEF LockInv, NoAbort
<1>2. QED
  BY <1>1, LibraryLocks, PTL

(* LocksComeBack: no early return and no failing ioctl leaves the board's    *)
(* lock or that of the asynchronous I/O held after the call.                 *)
THEOREM LibraryLocksComeBack == ASSUME Apart PROVE Spec => []LocksComeBack
<1>1. LockInv => LocksComeBack
  BY DEF LockInv, LocksComeBack, Clean
<1>2. QED
  BY <1>1, LibraryLocks, PTL

-----------------------------------------------------------------------------
(* What is proved of GpibLink, for the table of this library: its theorems   *)
(* are about the same formulas with the names of another instance.           *)
Table == INSTANCE GpibLinkProofs

(* Both instances of GpibLink take the same steps.                           *)
LEMMA SameNext == Table!Next <=> Link!Next
<1> USE DEF
   Table!Running, Link!Running, Table!Raise, Link!Raise, Table!Refuse,
   Link!Refuse, Table!Ok, Link!Ok, Table!Failed, Link!Failed,
   Table!NoDescriptor, Link!NoDescriptor, Table!OutOfRange, Link!OutOfRange,
   Table!WithDescriptor, Link!WithDescriptor, Table!tables, Link!tables,
   Table!Address, Link!Address, Table!Addresses, Link!Addresses,
   Table!AddressOf, Link!AddressOf, Table!increment_open_device_count,
   Link!increment_open_device_count, Table!subtract_open_device_count,
   Link!subtract_open_device_count, Table!decrement_open_device_count,
   Link!decrement_open_device_count, Table!CanSubtract, Link!CanSubtract,
   Table!Absent, Link!Absent
<1>1. ASSUME NEW x, NEW y, NEW z
      PROVE  Table!open_dev_ioctl(x, y, z) <=> Link!open_dev_ioctl(x, y, z)
  BY DEF
    Table!open_dev_ioctl, Link!open_dev_ioctl, Table!OpenNew, Link!OpenNew,
    Table!OpenShared, Link!OpenShared, Table!DescriptorsAt, Link!DescriptorsAt
<1>2. ASSUME NEW x
      PROVE  Table!close_dev_ioctl(x) <=> Link!close_dev_ioctl(x)
  BY DEF
    Table!close_dev_ioctl, Link!close_dev_ioctl, Table!CloseAt, Link!CloseAt,
    Table!RemoveAt, Link!RemoveAt
<1>3. ASSUME NEW x, NEW y
      PROVE  Table!pad_ioctl(x, y) <=> Link!pad_ioctl(x, y)
  BY DEF
    Table!pad_ioctl, Link!pad_ioctl, Table!Readdress, Link!Readdress,
    Table!SetBoardAddress, Link!SetBoardAddress, Table!ibpad, Link!ibpad,
    Table!ibsad, Link!ibsad, Table!gpib_addr_max, Link!gpib_addr_max
<1>4. ASSUME NEW x, NEW y
      PROVE  Table!sad_ioctl(x, y) <=> Link!sad_ioctl(x, y)
  BY DEF
    Table!sad_ioctl, Link!sad_ioctl, Table!Readdress, Link!Readdress,
    Table!SetBoardAddress, Link!SetBoardAddress, Table!ibpad, Link!ibpad,
    Table!ibsad, Link!ibsad, Table!gpib_addr_max, Link!gpib_addr_max
<1>5. ASSUME NEW x
      PROVE  Table!transfer_ioctl(x) <=> Link!transfer_ioctl(x)
  BY DEF Table!transfer_ioctl, Link!transfer_ioctl
<1>6. ASSUME NEW x, NEW y
      PROVE  Table!wait_ioctl(x, y) <=> Link!wait_ioctl(x, y)
  BY DEF Table!wait_ioctl, Link!wait_ioctl
<1>7. ASSUME NEW x, NEW y
      PROVE  Table!serial_poll_ioctl(x, y) <=> Link!serial_poll_ioctl(x, y)
  BY DEF Table!serial_poll_ioctl, Link!serial_poll_ioctl
<1>8. ASSUME NEW x
      PROVE  Table!serial_poll_all(x) <=> Link!serial_poll_all(x)
  BY DEF
    Table!serial_poll_all, Link!serial_poll_all, Table!Pushed, Link!Pushed,
    Table!AtMost, Link!AtMost, Table!Cardinality, Link!Cardinality
<1>9. Table!close <=> Link!close
  BY DEF
    Table!close, Link!close, Table!cleanup_open_devices,
    Link!cleanup_open_devices, Table!Visited, Link!Visited, Table!Uncounted,
    Link!Uncounted, Table!Cardinality, Link!Cardinality
<1>10. Table!IoctlAfterClose <=> Link!IoctlAfterClose
  BY DEF Table!IoctlAfterClose, Link!IoctlAfterClose
<1>11. QED
  BY <1>1, <1>2, <1>3, <1>4, <1>5, <1>6, <1>7, <1>8, <1>9, <1>10 DEF
    Table!Next, Link!Next, Table!Handles, Link!Handles, Table!Masks, Link!Masks

(* So they have the same behaviours.                                         *)
LEMMA SameSpec == Link!Spec => Table!Spec
<1>1. Table!Init <=> Link!Init
  BY DEF
    Table!Init, Link!Init, Table!Absent, Link!Absent, Table!Ok, Link!Ok,
    Table!Address, Link!Address, Table!Addresses, Link!Addresses,
    Table!AddressOf, Link!AddressOf
<1>2. [Link!Next]_(Link!vars) <=> [Table!Next]_(Table!vars)
  BY SameNext DEF Table!vars, Link!vars, Table!tables, Link!tables
<1>3. QED
  BY <1>1, <1>2, PTL DEF Table!Spec, Link!Spec

(* In every state of the library, for any threads and calls, the table of    *)
(* the link thread is well typed, its reference counts are the numbers of    *)
(* open descriptors, and an address that nobody has open keeps nothing.      *)
THEOREM LibraryCounts ==
  Spec => [](Link!TypeOK /\ Link!RefCountsMatch /\ Link!NoOrphanBytes)
<1>1. Table!LinkAssumption
  BY LibraryAssumption DEF Table!LinkAssumption
<1>2. Table!TypeOK <=> Link!TypeOK
  BY DEF
    Table!TypeOK, Link!TypeOK, Table!Descriptor, Link!Descriptor, Table!Device,
    Link!Device, Table!Replies, Link!Replies, Table!Address, Link!Address,
    Table!Addresses, Link!Addresses, Table!AddressOf, Link!AddressOf
<1>3. Table!RefCountsMatch <=> Link!RefCountsMatch
  BY DEF
    Table!RefCountsMatch, Link!RefCountsMatch, Table!DescriptorsAt,
    Link!DescriptorsAt, Table!Cardinality, Link!Cardinality, Table!Address,
    Link!Address, Table!Addresses, Link!Addresses, Table!AddressOf,
    Link!AddressOf
<1>4. Table!NoOrphanBytes <=> Link!NoOrphanBytes
  BY DEF
    Table!NoOrphanBytes, Link!NoOrphanBytes, Table!DescriptorsAt,
    Link!DescriptorsAt, Table!Absent, Link!Absent, Table!Address, Link!Address,
    Table!Addresses, Link!Addresses, Table!AddressOf, Link!AddressOf
<1>5. Table!Spec => [](Table!TypeOK /\ Table!RefCountsMatch /\ Table!NoOrphanBytes)
  BY <1>1, Table!TypeCorrect, Table!RefCountsCorrect, Table!NoOrphans, PTL
<1>6. Spec => Table!Spec
  BY LibraryIsClient, SameSpec, PTL
<1>7. QED
  BY <1>2, <1>3, <1>4, <1>5, <1>6, PTL

-----------------------------------------------------------------------------
(* One thread meets its own device on the bus, whatever its calls before.    *)
Data == {"IBRD", "IBWRT"}
Setup(data) == IF data = "IBRD" THEN "talk" ELSE "listen"

(* What a call of the thread knows of the bus, and that the device at an      *)
(* address is the partner there, unless the call is blind.                   *)
Bus(t) == [bus |-> bus, blind |-> blind[t]]
Met(b, data, device) ==
  b.blind \/ device = (IF data = "IBRD" THEN b.bus.talk ELSE b.bus.listen)

(* In a list of steps the time limit comes right before data, and the        *)
(* addressing of a device before that; what is no longer in the list has     *)
(* left its mark in the time limit usec and in the bus b.                    *)
Prepared(s, conf, usec, b) ==
  \A k \in DOMAIN s : s[k] \in Data =>
    /\ IF k = 1 THEN usec = conf.usec_timeout ELSE s[k - 1] = "IBTMO"
    /\ ~conf.is_interface =>
         IF k <= 2 THEN Met(b, s[k], DeviceAt(conf)) ELSE s[k - 2] = Setup(s[k])
InsertsOnly(s) == Has(s, "insert") => \A x \in Data : ~Has(s, x)

BusInv ==
  /\ \A t \in Threads : /\ Prepared(call[t].todo, Conf(t), usec_timeout, Bus(t))
                        /\ InsertsOnly(call[t].todo)
  /\ blind \in [Threads -> BOOLEAN]

OneThread == Threads = {Boot}

(* What a step may do to a descriptor, to the time limit and to the bus, and *)
(* what addressing does when it succeeds.                                    *)
ConfMoves(step, old, conf) ==
  /\ step # "insert" => conf.is_interface = old.is_interface
  /\ step \notin {"insert", "set_timeout", "IBSAD"} =>
       conf.usec_timeout = old.usec_timeout /\ DeviceAt(conf) = DeviceAt(old)
TimeMoves(step, conf, usec, new) ==
  /\ step \notin {"IBTMO", "IBTMO_spoll"} => new = usec
  /\ step = "IBTMO" => new = conf.usec_timeout
BusMoves(step, b, new) == step \notin {"talk", "listen", "IBRSP"} => new = b
Aimed(step, conf, new) ==
  /\ step = "talk" => Met(new, "IBRD", DeviceAt(conf))
  /\ step = "listen" => Met(new, "IBWRT", DeviceAt(conf))

(* Such a step, at the head of list s, of which rest is left.                *)
RestMoves(s, step, rest, old, conf, usec, time, b, new) ==
  /\ s # <<>> /\ Head(s) = step /\ rest \in {s, Tail(s), <<>>}
  /\ Prepared(s, old, usec, b) /\ InsertsOnly(s)
  /\ ConfMoves(step, old, conf) /\ TimeMoves(step, conf, usec, time)
  /\ BusMoves(step, b, new) /\ (rest \in {s, <<>>} \/ Aimed(step, conf, new))

(* Such a step leaves the rest of the list prepared.                         *)
LEMMA PreparedRest ==
  ASSUME NEW s \in Seq(WorkSteps \union {"insert"}), NEW step, NEW rest, NEW old, NEW conf,
         NEW usec, NEW time, NEW b, NEW new,
         RestMoves(s, step, rest, old, conf, usec, time, b, new)
  PROVE  Prepared(rest, conf, time, new) /\ InsertsOnly(rest)
<1> USE DEF RestMoves
<1>1. /\ Len(s) \in Nat /\ DOMAIN s = 1 .. Len(s) /\ Len(s) # 0 /\ s[1] = step
  OBVIOUS
<1>2. /\ DOMAIN Tail(s) = 1 .. Len(s) - 1
      /\ \A i \in 1 .. Len(s) - 1 : Tail(s)[i] = s[i + 1]
  BY <1>1
<1>3. /\ \A x : Has(rest, x) => Has(s, x)
  BY HasTail DEF Has
<1>4. InsertsOnly(rest)
  BY <1>3 DEF InsertsOnly
<1>5. ASSUME NEW k \in DOMAIN s, s[k] \in Data
      PROVE  step # "insert"
  BY <1>1, <1>5 DEF InsertsOnly, Has
<1>6. CASE rest = s
  <2> SUFFICES ASSUME NEW k \in DOMAIN s, s[k] \in Data
               PROVE  /\ IF k = 1 THEN time = conf.usec_timeout ELSE s[k - 1] = "IBTMO"
                      /\ ~conf.is_interface =>
                           IF k <= 2 THEN Met(new, s[k], DeviceAt(conf))
                           ELSE s[k - 2] = Setup(s[k])
    BY <1>4, <1>6 DEF Prepared
  <2>1. /\ IF k = 1 THEN usec = old.usec_timeout ELSE s[k - 1] = "IBTMO"
        /\ ~old.is_interface =>
             IF k <= 2 THEN Met(b, s[k], DeviceAt(old)) ELSE s[k - 2] = Setup(s[k])
    BY DEF Prepared
  <2>2. step # "insert" /\ conf.is_interface = old.is_interface
    BY <1>5 DEF ConfMoves
  <2>3. CASE k = 1
    <3>1. step \in Data
      BY <1>1, <2>3
    <3>2. time = usec /\ new = b /\ conf.usec_timeout = old.usec_timeout
          /\ DeviceAt(conf) = DeviceAt(old)
      BY <3>1 DEF ConfMoves, TimeMoves, BusMoves, Data
    <3>3. QED
      BY <2>1, <2>2, <2>3, <3>2
  <2>4. CASE k = 2
    <3>1. step = "IBTMO"
      BY <1>1, <2>1, <2>4
    <3>2. new = b /\ DeviceAt(conf) = DeviceAt(old)
      BY <3>1 DEF ConfMoves, BusMoves
    <3>3. QED
      BY <2>1, <2>2, <2>4, <3>2
  <2>5. CASE k > 2
    BY <1>1, <2>1, <2>2, <2>5
  <2>6. QED
    BY <1>1, <2>3, <2>4, <2>5
<1>7. CASE rest = Tail(s) /\ rest \notin {s, <<>>}
  <2> SUFFICES ASSUME NEW i \in 1 .. Len(s) - 1, s[i + 1] \in Data
               PROVE  /\ IF i = 1 THEN time = conf.usec_timeout ELSE s[i] = "IBTMO"
                      /\ ~conf.is_interface =>
                           IF i <= 2 THEN Met(new, s[i + 1], DeviceAt(conf))
                           ELSE s[i - 1] = Setup(s[i + 1])
    <3> DEFINE n == Len(s) - 1
    <3>0. n \in Nat
      BY <1>1
    <3>1. DOMAIN rest = 1 .. n /\ n \in Nat
      BY <1>2, <1>7, <3>0, Zenon
    <3>2. ASSUME NEW i \in 1 .. n
          PROVE  /\ rest[i] = s[i + 1]
                 /\ i # 1 => rest[i - 1] = s[i]
                 /\ i > 2 => rest[i - 2] = s[i - 1]
      <4>1. i # 1 => i - 1 \in 1 .. n /\ (i - 1) + 1 = i
        BY <3>1
      <4>2. i > 2 => i - 2 \in 1 .. n /\ (i - 2) + 1 = i - 1
        BY <3>1
      <4>3. QED
        BY <1>2, <1>7, <4>1, <4>2
    <3>3. \A i \in 1 .. n : i <= 2 \/ i > 2
      BY <3>1
    <3> HIDE DEF n
    <3>4. ASSUME NEW i \in 1 .. n, rest[i] \in Data
          PROVE  /\ IF i = 1 THEN time = conf.usec_timeout ELSE rest[i - 1] = "IBTMO"
                 /\ ~conf.is_interface =>
                      IF i <= 2 THEN Met(new, rest[i], DeviceAt(conf))
                      ELSE rest[i - 2] = Setup(rest[i])
      BY <3>2, <3>3, <3>4 DEF n
    <3>5. QED
      BY <1>4, <3>1, <3>4 DEF Prepared
  <2> DEFINE k == i + 1
  <2>1. k \in DOMAIN s /\ k # 1 /\ k - 1 = i /\ k - 2 = i - 1
    BY <1>1
  <2>2. /\ s[i] = "IBTMO"
        /\ ~old.is_interface =>
             IF k <= 2 THEN Met(b, s[k], DeviceAt(old)) ELSE s[i - 1] = Setup(s[k])
    BY <2>1 DEF Prepared
  <2>3. step # "insert" /\ conf.is_interface = old.is_interface
    BY <1>5, <2>1 DEF ConfMoves
  <2>4. CASE i = 1
    <3>1. step = "IBTMO"
      BY <1>1, <2>2, <2>4
    <3>2. new = b /\ DeviceAt(conf) = DeviceAt(old) /\ time = conf.usec_timeout
      BY <3>1 DEF ConfMoves, BusMoves, TimeMoves
    <3>3. QED
      BY <2>2, <2>3, <2>4, <3>2
  <2>5. CASE i = 2
    <3>1. ~conf.is_interface => step = Setup(s[k])
      BY <1>1, <2>2, <2>3, <2>5
    <3>2. ~conf.is_interface => Met(new, s[k], DeviceAt(conf))
      BY <1>7, <3>1 DEF Setup, Aimed, Data
    <3>3. QED
      BY <2>2, <2>5, <3>2
  <2>6. CASE i > 2
    BY <1>1, <2>2, <2>3, <2>6
  <2>7. QED
    BY <1>1, <2>4, <2>5, <2>6
<1>8. CASE rest = <<>>
  BY <1>4, <1>8 DEF Prepared
<1>9. QED
  BY <1>6, <1>7, <1>8

(* A step of the thread keeps the invariant when it moves descriptor, time   *)
(* limit and bus as its step may, and goes on only if it aimed right.        *)
LEMMA BusKept ==
  ASSUME OneThread, IInv, BusInv, NEW t \in Threads, NEW step, At(t, step),
         NEW conf \in Confs, NEW d,
         d.ud = call[t].ud,
         \/ d.todo \in {call[t].todo, <<>>}
         \/ call[t].todo # <<>> /\ d.todo = Tail(call[t].todo),
         call' = [call EXCEPT ![t] = d], ibConfigs' = [ibConfigs EXCEPT ![call[t].ud] = conf],
         blind' \in [Threads -> BOOLEAN],
         ConfMoves(step, Conf(t), conf), TimeMoves(step, conf, usec_timeout, usec_timeout'),
         BusMoves(step, Bus(t), Bus(t)'),
         d.todo \in {call[t].todo, <<>>} \/ Aimed(step, conf, Bus(t)')
  PROVE  BusInv'
<1>1. /\ call \in [Threads -> CallRecords] /\ call[t].ud \in Uds
      /\ ibConfigs \in [Uds -> Confs \union {NoConf}] /\ \A u \in Threads : u = t
  BY AtBusy DEF IInv, TypeOK, OneThread
<1>2. call'[t] = d /\ Conf(t)' = conf
  BY <1>1 DEF Conf
<1>3. Prepared(d.todo, conf, usec_timeout', Bus(t)') /\ InsertsOnly(d.todo)
  <2>1. Prepared(call[t].todo, Conf(t), usec_timeout, Bus(t)) /\ InsertsOnly(call[t].todo)
    BY DEF BusInv
  <2>2. CASE call[t].todo # <<>>
    <3> DEFINE S == WorkSteps \union {"insert"}
    <3>1. call[t].todo \in Seq(S) /\ Head(call[t].todo) = step
      BY <1>1, <2>2, AtBusy DEF CallRecords
    <3>2. d.todo \in {call[t].todo, Tail(call[t].todo), <<>>}
      OBVIOUS
    <3> DEFINE s == call[t].todo
               rest == d.todo
               old == Conf(t)
    <3>3. s \in Seq(S) /\ RestMoves(s, step, rest, old, conf, usec_timeout, usec_timeout', Bus(t), Bus(t)')
      BY <2>1, <2>2, <3>1, <3>2 DEF RestMoves
    <3> HIDE DEF s, rest, old
    <3>4. Prepared(rest, conf, usec_timeout', Bus(t)') /\ InsertsOnly(rest)
      BY <3>3, PreparedRest
    <3>5. QED
      BY <3>4 DEF rest
  <2>3. CASE call[t].todo = <<>>
    <3>1. d.todo = <<>>
      BY <2>3
    <3>2. QED
      BY <3>1 DEF Prepared, InsertsOnly, Has
  <2>4. QED
    BY <2>2, <2>3
<1>4. QED
  BY <1>1, <1>2, <1>3 DEF BusInv

(* How a call that goes on is cut.                                           *)
LEMMA RestTodo ==
  ASSUME NEW c \in CallRecords, Ongoing(c), NEW d \in {c, Rest(c), Exit(c)}
  PROVE  /\ d.ud = c.ud
         /\ \/ d.todo \in {c.todo, <<>>}
            \/ c.todo # <<>> /\ d.todo = Tail(c.todo)
         /\ d = Exit(c) => d.todo \in {c.todo, <<>>}
  BY RestType DEF Rest, Exit, CallRecords

Cut(t) == Fail(t) \/ UNCHANGED call

(* Most steps go on with the call.                                           *)
LEMMA BusGoesOn ==
  ASSUME OneThread, IInv, BusInv, NEW t \in Threads, NEW step, At(t, step), GoesOn(t),
         NEW conf \in Confs, ibConfigs' = [ibConfigs EXCEPT ![call[t].ud] = conf],
         blind' \in [Threads -> BOOLEAN],
         ConfMoves(step, Conf(t), conf), TimeMoves(step, conf, usec_timeout, usec_timeout'),
         BusMoves(step, Bus(t), Bus(t)'), Cut(t) \/ Aimed(step, conf, Bus(t)')
  PROVE  BusInv'
<1>1. call \in [Threads -> CallRecords] /\ call[t] \in CallRecords /\ Ongoing(call[t])
  BY AtBusy DEF IInv, TypeOK
<1>2. PICK d \in {call[t], Rest(call[t]), Exit(call[t])} :
        /\ call' = [call EXCEPT ![t] = d]
        /\ Cut(t) => d.todo \in {call[t].todo, <<>>}
  <2>1. call = [call EXCEPT ![t] = call[t]]
    BY <1>1
  <2>2. Advance(t) => call' = [call EXCEPT ![t] = Rest(call[t])]
    BY DEF Advance
  <2>3. Fail(t) => call' = [call EXCEPT ![t] = Exit(call[t])]
    BY DEF Fail
  <2>4. Exit(call[t]).todo \in {call[t].todo, <<>>}
    BY <1>1, RestTodo
  <2>5. QED
    BY <2>1, <2>2, <2>3, <2>4 DEF GoesOn, Cut
<1>3. /\ d.ud = call[t].ud
      /\ \/ d.todo \in {call[t].todo, <<>>}
         \/ call[t].todo # <<>> /\ d.todo = Tail(call[t].todo)
  BY <1>1, RestTodo
<1>4. d.todo \in {call[t].todo, <<>>} \/ Aimed(step, conf, Bus(t)')
  BY <1>2
<1>5. QED
  BY <1>2, <1>3, <1>4, BusKept

(* A step that leaves the descriptor as it is.                               *)
LEMMA BusSameConf ==
  ASSUME OneThread, IInv, BusInv, NEW t \in Threads, NEW step, At(t, step), GoesOn(t),
         step # "insert", UNCHANGED ibConfigs, blind' \in [Threads -> BOOLEAN],
         TimeMoves(step, Conf(t), usec_timeout, usec_timeout'),
         BusMoves(step, Bus(t), Bus(t)'), Cut(t) \/ Aimed(step, Conf(t), Bus(t)')
  PROVE  BusInv'
<1>1. Conf(t) \in Confs /\ call[t].ud \in Uds
  BY InTable, AtBusy
<1>2. ibConfigs' = [ibConfigs EXCEPT ![call[t].ud] = Conf(t)]
  BY <1>1 DEF IInv, TypeOK, Conf
<1>3. ConfMoves(step, Conf(t), Conf(t))
  BY DEF ConfMoves
<1>4. QED
  BY <1>1, <1>2, <1>3, BusGoesOn

SameSettings(conf, old) ==
  conf.pad = old.pad /\ conf.sad = old.sad /\ conf.usec_timeout = old.usec_timeout
  /\ conf.is_interface = old.is_interface

(* A step that changes neither time limit nor bus, nor the settings of the   *)
(* descriptor that they come from.                                           *)
LEMMA BusSame ==
  ASSUME OneThread, IInv, BusInv, NEW t \in Threads, NEW step, At(t, step), GoesOn(t),
         step \notin {"insert", "IBTMO", "talk", "listen"},
         UNCHANGED <<usec_timeout, bus, blind>>,
         \/ UNCHANGED ibConfigs
         \/ \E conf \in Confs : Assign(t, conf) /\ SameSettings(conf, Conf(t))
  PROVE  BusInv'
<1>1. /\ \A conf : TimeMoves(step, conf, usec_timeout, usec_timeout')
      /\ BusMoves(step, Bus(t), Bus(t)') /\ \A conf : Aimed(step, conf, Bus(t)')
      /\ blind' \in [Threads -> BOOLEAN]
  BY DEF TimeMoves, BusMoves, Bus, Aimed, BusInv
<1>2. CASE UNCHANGED ibConfigs
  BY <1>1, <1>2, BusSameConf
<1>3. ASSUME NEW conf \in Confs, Assign(t, conf), SameSettings(conf, Conf(t))
      PROVE  BusInv'
  <2>1. Conf(t) \in Confs /\ call[t].ud \in Uds
    BY InTable, AtBusy
  <2>2. ConfMoves(step, Conf(t), conf)
    BY <1>3 DEF ConfMoves, SameSettings, DeviceAt
  <2>3. QED
    BY <1>1, <1>3, <2>2, BusGoesOn DEF Assign
<1>4. QED
  BY <1>2, <1>3

(* The steps without time limit, addressing or settings.                     *)
LEMMA BusQuiet ==
  ASSUME OneThread, IInv, BusInv, NEW t \in Threads,
         \/ return_ud(t) \/ LookForAio(t) \/ AssertUnlocked(t) \/ is_cic(t) \/ my_wait(t)
         \/ StatusOutOfCharge(t)
         \/ Transfer(t) \/ ChangePrimary(t) \/ conf_lock_board(t) \/ conf_unlock_board(t)
         \/ AioBegin(t) \/ AioEnd(t) \/ internal_ibstop(t) \/ CollectAio(t)
  PROVE  BusInv'
<1> DEFINE others == {"insert", "IBTMO", "talk", "listen"}
<1>1. ASSUME NEW step, At(t, step), GoesOn(t), step \notin others,
             UNCHANGED <<usec_timeout, bus, blind, ibConfigs>>
      PROVE  BusInv'
  BY <1>1, BusSame
<1>2. ASSUME NEW step, At(t, step), GoesOn(t), step \notin others,
             UNCHANGED <<usec_timeout, bus, blind>>,
             NEW conf, Assign(t, conf),
             Conf(t) \in Confs => conf \in Confs /\ SameSettings(conf, Conf(t))
      PROVE  BusInv'
  <2>1. Conf(t) \in Confs
    BY <1>2, InTable
  <2> HIDE DEF others
  <2>2. QED
    BY <1>2, <2>1, BusSame DEF others
<1>3. CASE return_ud(t)
  BY <1>1, <1>3 DEF return_ud, GoesOn
<1>4. CASE LookForAio(t)
  BY <1>1, <1>4 DEF LookForAio, GoesOn
<1>5. CASE AssertUnlocked(t)
  BY <1>1, <1>5 DEF AssertUnlocked, GoesOn
<1>6. CASE is_cic(t)
  <2>1. PICK step \in {"cic", "own_cic"} : At(t, step)
    BY <1>6 DEF is_cic
  <2>2. QED
    BY <1>1, <1>6, <2>1 DEF is_cic, GoesOn
<1>7. CASE my_wait(t)
  <2>1. PICK step \in {"status", "status_set_CMPL", "status_clear_CMPL"} : At(t, step)
    BY <1>7 DEF my_wait
  <2>2. QED
    BY <1>1, <1>7, <2>1 DEF my_wait, GoesOn
<1>8. CASE Transfer(t)
  <2>1. PICK step \in {"IBRD", "IBWRT"} : At(t, step)
    BY <1>8 DEF Transfer
  <2>2. QED
    BY <1>1, <1>8, <2>1, OutcomeGoesOn DEF Transfer
<1>9. CASE ChangePrimary(t)
  BY <1>1, <1>9, OutcomeGoesOn DEF ChangePrimary
<1>10. ASSUME NEW old \in Confs
       PROVE  /\ \A b : SameSettings([old EXCEPT !.has_lock = b], old)
              /\ \A b : SameSettings([old EXCEPT !.in_progress = b], old)
              /\ \A u : SameSettings([old EXCEPT !.lock = u], old)
              /\ \A u, b : SameSettings([old EXCEPT !.lock = u, !.in_progress = b], old)
  BY DEF SameSettings, Confs
<1> HIDE DEF others
<1>11. CASE conf_lock_board(t)
  BY <1>2, <1>10, <1>11, ConfType DEF conf_lock_board, GoesOn, others
<1>12. CASE conf_unlock_board(t)
  <2>1. PICK step \in {"unlock", "unlock_held"} : At(t, step)
    BY <1>12 DEF conf_unlock_board
  <2>2. step \notin others /\ GoesOn(t) /\ UNCHANGED <<usec_timeout, bus, blind>>
    BY <1>12 DEF conf_unlock_board, GoesOn, others
  <2>3. UNCHANGED ibConfigs \/ Assign(t, [Conf(t) EXCEPT !.has_lock = FALSE])
    BY <1>12 DEF conf_unlock_board
  <2>4. QED
    BY <1>1, <1>2, <1>10, <2>1, <2>2, <2>3, ConfType
<1>13. CASE AioBegin(t)
  BY <1>2, <1>10, <1>13, ConfType DEF AioBegin, GoesOn, others
<1>14. CASE AioEnd(t)
  BY <1>2, <1>10, <1>14, ConfType DEF AioEnd, GoesOn, others
<1>15. CASE internal_ibstop(t)
  <2> DEFINE holder == IF Conf(t).in_progress THEN t ELSE NoThread
  <2>1. holder \in Threads \union {NoThread}
    OBVIOUS
  <2>2. At(t, "stop") /\ Assign(t, [Conf(t) EXCEPT !.lock = holder]) /\ GoesOn(t)
        /\ UNCHANGED <<usec_timeout, bus, blind>>
    BY <1>15 DEF internal_ibstop, GoesOn
  <2>3. "stop" \notin others
    BY DEF others
  <2> HIDE DEF holder
  <2>4. QED
    BY <1>2, <1>10, <2>1, <2>2, <2>3, ConfType
<1>16. CASE CollectAio(t)
  BY <1>2, <1>10, <1>16, ConfType DEF CollectAio, GoesOn, others
<1>17. CASE StatusOutOfCharge(t)
  <2>1. PICK step \in {"status", "status_set_CMPL", "status_clear_CMPL"} : At(t, step)
    BY <1>17 DEF StatusOutOfCharge
  <2>2. QED
    BY <1>1, <1>17, <2>1 DEF StatusOutOfCharge, GoesOn, others
<1>18. QED
  BY <1>3, <1>4, <1>5, <1>6, <1>7, <1>8, <1>9, <1>11, <1>12, <1>13, <1>14, <1>15, <1>16, <1>17

(* The time limit and the addressing come from the thread's own descriptor,  *)
(* and a poll leaves the bus to no step that follows it in a call.           *)
LEMMA BusSetup ==
  ASSUME OneThread, IInv, BusInv, NEW t \in Threads,
         set_timeout(t) \/ send_setup(t) \/ InternalReceiveSetup(t) \/ serial_poll(t)
  PROVE  BusInv'
<1>1. blind \in [Threads -> BOOLEAN]
  BY DEF BusInv
<1>2. CASE set_timeout(t)
  <2>1. PICK step \in {"IBTMO", "IBTMO_spoll"} : At(t, step)
    BY <1>2 DEF set_timeout
  <2>2. TimeMoves(step, Conf(t), usec_timeout, usec_timeout')
    BY <1>2, <2>1 DEF set_timeout, TimeMoves, At
  <2>3. BusMoves(step, Bus(t), Bus(t)') /\ Aimed(step, Conf(t), Bus(t)')
    BY <1>2, <2>1 DEF set_timeout, BusMoves, Bus, Aimed
  <2>4. QED
    BY <1>1, <1>2, <2>1, <2>2, <2>3, BusSameConf DEF set_timeout, GoesOn
<1>3. ASSUME NEW step \in {"talk", "listen"}, At(t, step), GoesOn(t),
             UNCHANGED <<usec_timeout, ibConfigs>>,
             blind' \in {blind, [blind EXCEPT ![t] = TRUE]},
             Cut(t) \/ blind'[t] \/ Aimed(step, Conf(t), Bus(t)')
      PROVE  BusInv'
  <2>1. blind' \in [Threads -> BOOLEAN]
    BY <1>1, <1>3
  <2>2. blind'[t] => Aimed(step, Conf(t), Bus(t)')
    BY DEF Bus, Aimed, Met
  <2>3. TimeMoves(step, Conf(t), usec_timeout, usec_timeout')
        /\ BusMoves(step, Bus(t), Bus(t)')
    BY <1>3 DEF TimeMoves, BusMoves
  <2>4. QED
    BY <1>3, <2>1, <2>2, <2>3, BusSameConf
<1>4. ASSUME NEW x, NEW y, NEW z, Command(t, <<x, y, z>>)
      PROVE  /\ GoesOn(t) /\ blind' \in {blind, [blind EXCEPT ![t] = TRUE]}
             /\ bus' = z \/ Cut(t) \/ blind'[t]
  <2> DEFINE stages == <<x, y, z>>
  <2>1. stages[Len(stages)] = z
    OBVIOUS
  <2>2. GoesOn(t) /\ Outcome(t)
    BY <1>4, OutcomeGoesOn DEF Command
  <2>3. (reply'.ret = "ok" /\ ~raised') \/ Cut(t)
    BY <2>2 DEF Outcome, Cut
  <2> HIDE DEF stages
  <2>4. Command(t, stages)
    BY <1>4 DEF stages
  <2>5. \/ bus' = z /\ UNCHANGED blind
        \/ blind' = [blind EXCEPT ![t] = TRUE]
        \/ ~(reply'.ret = "ok" /\ ~raised') /\ UNCHANGED blind
    BY <2>1, <2>4 DEF Command
  <2>6. [blind EXCEPT ![t] = TRUE][t] = TRUE
    BY <1>1
  <2>7. QED
    BY <2>2, <2>3, <2>5, <2>6
<1>5. CASE send_setup(t)
  <2> DEFINE x == [bus EXCEPT !.talk = BoardAt]
             y == [talk |-> BoardAt, listen |-> Nobody]
             z == [talk |-> BoardAt, listen |-> DeviceAt(Conf(t))]
  <2>1. At(t, "listen") /\ UNCHANGED <<usec_timeout, ibConfigs>>
    BY <1>5 DEF send_setup
  <2>2. CASE Outcome(t) /\ blind' = [blind EXCEPT ![t] = TRUE]
    <3>1. blind'[t]
      BY <1>1, <2>2
    <3>2. QED
      BY <1>3, <2>1, <2>2, <3>1, OutcomeGoesOn
  <2>3. CASE Command(t, <<x, y, z>>)
    <3>1. bus' = z => Aimed("listen", Conf(t), Bus(t)')
      BY DEF Aimed, Bus, Met
    <3> HIDE DEF x, y, z
    <3>2. QED
      BY <1>3, <1>4, <2>1, <2>3, <3>1
  <2>4. QED
    BY <1>5, <2>2, <2>3 DEF send_setup
<1>6. CASE InternalReceiveSetup(t)
  <2> DEFINE x == [bus EXCEPT !.listen = Nobody]
             y == [bus EXCEPT !.listen = BoardAt]
             z == [talk |-> DeviceAt(Conf(t)), listen |-> BoardAt]
  <2>1. At(t, "talk") /\ UNCHANGED <<usec_timeout, ibConfigs>>
    BY <1>6 DEF InternalReceiveSetup
  <2>2. CASE Fail(t) /\ UNCHANGED blind
    BY <1>3, <2>1, <2>2 DEF GoesOn, Cut
  <2>3. CASE Command(t, <<x, y, z>>)
    <3>1. bus' = z => Aimed("talk", Conf(t), Bus(t)')
      BY DEF Aimed, Bus, Met
    <3> HIDE DEF x, y, z
    <3>2. QED
      BY <1>3, <1>4, <2>1, <2>3, <3>1
  <2>4. QED
    BY <1>6, <2>2, <2>3 DEF InternalReceiveSetup
<1>7. CASE serial_poll(t)
  <2>1. At(t, "IBRSP") /\ UNCHANGED <<usec_timeout, blind, ibConfigs>> /\ GoesOn(t)
    BY <1>7, OutcomeGoesOn DEF serial_poll
  <2>2. QED
    BY <1>1, <2>1, BusSameConf DEF TimeMoves, BusMoves, Aimed
<1>8. QED
  BY <1>2, <1>5, <1>6, <1>7

-----------------------------------------------------------------------------
(* In the list of a call, as StepsOf makes it, data comes right after the    *)
(* time limit, and a device's after its addressing.                          *)
Addressed(s, conf) ==
  \A k \in DOMAIN s : s[k] \in Data =>
    /\ k > 1 /\ s[k - 1] = "IBTMO"
    /\ ~conf.is_interface => k > 2 /\ s[k - 2] = Setup(s[k])

(* A list without data is in order.                                          *)
LEMMA NoData ==
  ASSUME NEW S, NEW s \in Seq(S), S \intersect Data = {}, NEW conf
  PROVE  Addressed(s, conf)
  BY DEF Addressed

(* So is one that data ends, after the time limit and the addressing.        *)
LEMMA DataAtEnd ==
  ASSUME NEW S, NEW s \in Seq(S), S \intersect Data = {}, NEW data \in Data, NEW conf,
         conf.is_interface \/ (s # <<>> /\ s[Len(s)] = Setup(data))
  PROVE  Addressed(s \o <<"IBTMO", data>>, conf)
<1> DEFINE end == <<"IBTMO", data>>
           list == s \o end
           n == Len(s)
<1>1. /\ n \in Nat /\ DOMAIN list = 1 .. n + 2 /\ (s # <<>> => n > 0)
      /\ \A i \in 1 .. n : list[i] = s[i] /\ s[i] \notin Data
      /\ list[n + 1] = "IBTMO" /\ list[n + 2] = data
  OBVIOUS
<1>2. "IBTMO" \notin Data
  BY DEF Data
<1> HIDE DEF list, n
<1>3. SUFFICES ASSUME NEW k \in 1 .. n + 2, list[k] \in Data
               PROVE  /\ k > 1 /\ list[k - 1] = "IBTMO"
                      /\ ~conf.is_interface => k > 2 /\ list[k - 2] = Setup(list[k])
  BY <1>1 DEF Addressed, list
<1>4. k = n + 2
  BY <1>1, <1>2, <1>3
<1>5. k > 1 /\ k - 1 = n + 1 /\ k - 2 = n
  BY <1>1, <1>4
<1>6. ASSUME ~conf.is_interface PROVE k > 2 /\ list[n] = Setup(data)
  <2>1. n > 0 /\ s[n] = Setup(data)
    BY <1>1, <1>6 DEF n
  <2>2. QED
    BY <1>1, <1>4, <2>1
<1>7. QED
  BY <1>1, <1>4, <1>5, <1>6

(* Steps without data in front of a list that is in order change nothing.    *)
LEMMA DataAfter ==
  ASSUME NEW S, NEW s \in Seq(S), NEW T, NEW u \in Seq(T), S \intersect Data = {},
         NEW conf, Addressed(u, conf)
  PROVE  Addressed(s \o u, conf)
<1> DEFINE list == s \o u
           n == Len(s)
           m == Len(u)
<1>1. /\ n \in Nat /\ m \in Nat /\ DOMAIN list = 1 .. n + m /\ DOMAIN u = 1 .. m
      /\ \A i \in 1 .. n : list[i] \notin Data
      /\ \A i \in 1 .. m : list[n + i] = u[i]
  OBVIOUS
<1> HIDE DEF list, n, m
<1>2. SUFFICES ASSUME NEW k \in 1 .. n + m, list[k] \in Data
               PROVE  /\ k > 1 /\ list[k - 1] = "IBTMO"
                      /\ ~conf.is_interface => k > 2 /\ list[k - 2] = Setup(list[k])
  BY <1>1 DEF Addressed, list
<1>3. PICK i \in 1 .. m : k = n + i
  <2>1. k \notin 1 .. n
    BY <1>1, <1>2
  <2>2. k - n \in 1 .. m /\ k = n + (k - n)
    BY <1>1, <2>1
  <2>3. QED
    BY <2>2
<1>4. list[k] = u[i]
  BY <1>1, <1>3
<1>5. /\ i > 1 /\ u[i - 1] = "IBTMO"
      /\ ~conf.is_interface => i > 2 /\ u[i - 2] = Setup(u[i])
  BY <1>1, <1>2, <1>4 DEF Addressed
<1>6. k > 1 /\ i - 1 \in 1 .. m /\ k - 1 = n + (i - 1)
  BY <1>1, <1>3, <1>5
<1>7. list[k - 1] = "IBTMO"
  BY <1>1, <1>5, <1>6
<1>8. ASSUME ~conf.is_interface PROVE k > 2 /\ list[k - 2] = Setup(list[k])
  <2>1. k > 2 /\ i - 2 \in 1 .. m /\ k - 2 = n + (i - 2)
    BY <1>1, <1>3, <1>5, <1>8
  <2>2. list[k - 2] = u[i - 2]
    BY <1>1, <2>1
  <2>3. QED
    BY <1>4, <1>5, <1>8, <2>1, <2>2
<1>9. QED
  BY <1>6, <1>7, <1>8

(* Where the second of two lists is.                                         *)
LEMMA SecondPart ==
  ASSUME NEW S, NEW s \in Seq(S), NEW u \in Seq(S)
  PROVE  /\ Len(s \o u) = Len(s) + Len(u)
         /\ \A i \in 1 .. Len(u) : (s \o u)[Len(s) + i] = u[i]
  OBVIOUS

(* What a transfer does on the bus is in order.                              *)
LEMMA BodiesAddressed ==
  ASSUME NEW conf, conf.is_interface \in BOOLEAN
  PROVE  Addressed(my_ibrd(conf), conf) /\ Addressed(my_ibwrt(conf), conf)
<1> DEFINE S == {"IBTMO", "cic", "talk", "listen"}
           talk == my_ibcmd("talk")
           listen == my_ibcmd("listen")
           one == <<"IBTMO">>
<1>0. S \intersect Data = {} /\ {"IBRD", "IBWRT"} = Data
  BY DEF Data
<1>1. /\ talk \in Seq(S) /\ Len(talk) = 4 /\ talk[4] = "talk"
      /\ listen \in Seq(S) /\ Len(listen) = 4 /\ listen[4] = "listen"
      /\ one \in Seq(S) /\ Len(one) = 1 /\ <<>> \in Seq(S)
  BY DEF my_ibcmd
<1>2. Setup("IBRD") = "talk" /\ Setup("IBWRT") = "listen"
  BY DEF Setup
<1>3. Addressed(my_ibrd(conf), conf)
  <2> DEFINE s == IF conf.is_interface THEN <<>> ELSE talk
  <2>1. s \in Seq(S) /\ (conf.is_interface \/ (s # <<>> /\ s[Len(s)] = Setup("IBRD")))
    BY <1>1, <1>2
  <2>2. my_ibrd(conf) = s \o <<"IBTMO", "IBRD">>
    BY DEF my_ibrd
  <2> HIDE DEF s, S
  <2>3. QED
    BY <1>0, <2>1, <2>2, DataAtEnd
<1>4. Addressed(my_ibwrt(conf), conf)
  <2> DEFINE first == IF conf.is_interface THEN <<>> ELSE listen
             s == one \o first
  <2>1. first \in Seq(S)
        /\ (conf.is_interface \/ (Len(first) = 4 /\ first[4] = Setup("IBWRT")))
    BY <1>1, <1>2
  <2>2. my_ibwrt(conf) = s \o <<"IBTMO", "IBWRT">>
    BY DEF my_ibwrt
  <2> HIDE DEF first, one, S
  <2> HIDE DEF talk, listen
  <2>3. /\ s \in Seq(S) /\ Len(s) = 1 + Len(first)
        /\ \A i \in 1 .. Len(first) : s[1 + i] = first[i]
    <3>1. one \in Seq(S) /\ first \in Seq(S) /\ Len(one) = 1
      BY <1>1, <2>1
    <3>2. s \in Seq(S)
      BY <3>1, HasBoth
    <3>3. Len(s) = Len(one) + Len(first) /\ \A i \in 1 .. Len(first) : s[Len(one) + i] = first[i]
      BY <3>1, SecondPart
    <3>4. Len(s) = 1 + Len(first) /\ \A i \in 1 .. Len(first) : s[1 + i] = first[i]
      BY <3>1, <3>3
    <3>5. QED
      BY <3>2, <3>3, <3>4
  <2>4. conf.is_interface \/ (s # <<>> /\ s[Len(s)] = Setup("IBWRT"))
    <3>1. CASE conf.is_interface
      BY <3>1
    <3>2. CASE ~conf.is_interface
      <4>1. Len(s) = 5 /\ s[1 + 4] = first[4]
        BY <2>1, <2>3, <3>2
      <4>2. s # <<>>
        BY <4>1
      <4>3. QED
        BY <2>1, <3>2, <4>1, <4>2
    <3>3. QED
      BY <3>1, <3>2
  <2> HIDE DEF s
  <2>5. QED
    BY <1>0, <2>2, <2>3, <2>4, DataAtEnd
<1>5. QED
  BY <1>3, <1>4

(* So is every call.                                                         *)
LEMMA CallAddressed ==
  ASSUME NEW op \in LibraryCalls, NEW conf, conf.is_interface \in BOOLEAN
  PROVE  Addressed(StepsOf(op, conf).todo, conf)
<1>1. CASE op \in LockedCalls
  <2>1. PICK body \in Seq(Plain) :
          /\ StepsOf(op, conf) = Locked(body)
          /\ op \notin {"ibrd", "ibwrt"} => body \in Seq(Plain \ {"IBRD", "IBWRT"})
          /\ op = "ibrd" => body = my_ibrd(conf)
          /\ op = "ibwrt" => body = my_ibwrt(conf)
    BY <1>1, LockedSteps
  <2>2. Addressed(body, conf)
    <3>1. (Plain \ {"IBRD", "IBWRT"}) \intersect Data = {}
      BY DEF Data
    <3>2. CASE op \in {"ibrd", "ibwrt"}
      BY <2>1, <3>2, BodiesAddressed
    <3>3. CASE op \notin {"ibrd", "ibwrt"}
      BY <2>1, <3>1, <3>3, NoData
    <3>4. QED
      BY <3>2, <3>3
  <2> DEFINE S == {"online", "eoip", "assert", "lock"}
  <2>3. enter_library \in Seq(S) /\ S \intersect Data = {}
    BY DEF enter_library, general_enter_library, Data
  <2>4. Locked(body).todo = enter_library \o body
    BY DEF Locked, Steps
  <2> HIDE DEF S
  <2>5. QED
    BY <2>1, <2>2, <2>3, <2>4, DataAfter
<1>2. CASE op \in AioCalls
  <2>1. PICK body \in {my_ibrd(conf), my_ibwrt(conf)} :
          StepsOf(op, conf).todo = <<"online">> \o gpib_aio_launch(body)
    BY <1>2 DEF AioCalls, StepsOf, DeviceOnly, ibrda, ibwrta, Steps
  <2>2. Addressed(body, conf) /\ body \in Seq(Plain)
    <3>1. my_ibrd(conf) \in Seq(Plain) /\ my_ibwrt(conf) \in Seq(Plain)
      BY Bodies DEF Plain
    <3>2. QED
      BY <2>1, <3>1, BodiesAddressed
  <2> DEFINE S == {"online", "aio_begin", "own_cic", "status_clear_CMPL"}
             first == <<"online">>
             launch == <<"aio_begin", "own_cic", "status_clear_CMPL">>
  <2>3. first \in Seq(S) /\ launch \in Seq(S) /\ S \intersect Data = {}
    BY DEF Data
  <2>4. StepsOf(op, conf).todo = first \o (launch \o body)
    BY <2>1 DEF gpib_aio_launch
  <2> HIDE DEF S, first, launch
  <2>5. Addressed(launch \o body, conf)
    BY <2>2, <2>3, DataAfter
  <2>6. launch \o body \in Seq(S \union Plain)
    <3>1. launch \in Seq(S \union Plain) /\ body \in Seq(S \union Plain)
      BY <2>2, <2>3
    <3>2. QED
      BY <3>1, HasBoth
  <2>7. QED
    BY <2>3, <2>4, <2>5, <2>6, DataAfter
<1>3. CASE op \notin LockedCalls \union AioCalls
  <2>1. PICK S : StepsOf(op, conf).todo \in Seq(S) /\ S \intersect Data = {}
    <3>1. {"online", "set_timeout", "own_cic", "wait"} \intersect Data = {}
          /\ {"online", "assert", "lock", "IBTMO", "cic", "listen"} \intersect Data = {}
          /\ {"online", "stop"} \intersect Data = {}
          /\ {"online", "stop", "assert", "lock"} \intersect Data = {}
      BY DEF Data
    <3>2. CASE op \in {"ibtmo", "ibwait"}
      <4>1. /\ <<"set_timeout">> \in Seq({"set_timeout", "own_cic", "wait"})
            /\ <<"own_cic", "wait">> \in Seq({"set_timeout", "own_cic", "wait"})
        OBVIOUS
      <4>2. PICK body \in Seq({"set_timeout", "own_cic", "wait"}) :
              StepsOf(op, conf) = Unlocked(body)
        BY <3>2, <4>1, OtherSteps
      <4>3. QED
        BY <3>1, <4>2, UnlockedLists
    <3>3. CASE op = "ibloc"
      BY <3>1, <3>3, IblocLists, OtherSteps
    <3>4. CASE op \in {"ibstop", "ibonl"}
      BY <3>1, <3>4, EndLists, OtherSteps
    <3>5. QED
      BY <1>3, <3>2, <3>3, <3>4 DEF LibraryCalls, LockedCalls, AioCalls
  <2>2. QED
    BY <2>1, NoData
<1>4. QED
  BY <1>1, <1>2, <1>3

(* Neither ibdev nor the start of the board moves data.                      *)
LEMMA FirstWithoutData ==
  /\ \A x \in Data : ~Has(ibdev.todo, x) /\ ~Has(configure_board.todo, x)
  /\ \A conf, usec, b : /\ Prepared(ibdev.todo, conf, usec, b)
                        /\ Prepared(configure_board.todo, conf, usec, b)
<1>1. \A x \in Data : /\ x \notin {"insert", "online", "eoip", "assert", "lock"}
                      /\ x \notin {"online", "IBPAD", "IBSAD"}
  BY DEF Data
<1>2. \A x \in Data : ~Has(ibdev.todo, x) /\ ~Has(configure_board.todo, x)
  BY <1>1, FirstLists, HasOnly
<1>3. QED
  BY <1>2 DEF Prepared, Has

-----------------------------------------------------------------------------
(* The steps that change settings of the descriptor.                         *)
LEMMA BusTable ==
  ASSUME OneThread, IInv, BusInv, NEW t \in Threads,
         \/ insert_descriptor(t) \/ conf_online(t) \/ ChangeSecondary(t)
         \/ internal_ibtmo(t) \/ close_gpib_handle(t)
  PROVE  BusInv'
<1>1. /\ call[t].pad \in Pads /\ call[t].usec \in Nat /\ MaxOpen \in Nat
      /\ blind \in [Threads -> BOOLEAN]
  BY LibraryAssumption DEF BusInv, IInv, TypeOK, CallRecords
<1>2. ASSUME NEW step, At(t, step), NEW conf \in Confs, Assign(t, conf), GoesOn(t),
             UNCHANGED <<usec_timeout, bus, blind>>,
             ConfMoves(step, Conf(t), conf), step \notin {"IBTMO", "talk", "listen"}
      PROVE  BusInv'
  <2>1. TimeMoves(step, conf, usec_timeout, usec_timeout') /\ BusMoves(step, Bus(t), Bus(t)')
        /\ Aimed(step, conf, Bus(t)')
    BY <1>2 DEF TimeMoves, BusMoves, Bus, Aimed
  <2>2. QED
    BY <1>1, <1>2, <2>1, BusGoesOn DEF Assign
<1>3. ASSUME NEW step, At(t, step), step # "insert" PROVE Conf(t) \in Confs
  BY <1>3, InTable
<1>4. CASE insert_descriptor(t)
  <2> DEFINE conf == init_ibconf(call[t].pad, call[t].usec, FALSE)
  <2>1. conf \in Confs
    BY <1>1, FreshType
  <2>2. At(t, "insert") /\ Assign(t, conf) /\ GoesOn(t) /\ UNCHANGED <<usec_timeout, bus, blind>>
    BY <1>4 DEF insert_descriptor, GoesOn
  <2> HIDE DEF conf
  <2>3. ConfMoves("insert", Conf(t), conf)
    BY DEF ConfMoves
  <2>4. QED
    BY <1>2, <2>1, <2>2, <2>3
<1>5. CASE internal_ibtmo(t)
  <2> DEFINE conf == [Conf(t) EXCEPT !.usec_timeout = call[t].usec]
  <2>1. /\ At(t, "set_timeout") /\ Assign(t, conf) /\ GoesOn(t)
        /\ UNCHANGED <<usec_timeout, bus, blind>>
    BY <1>5 DEF internal_ibtmo, GoesOn
  <2>2. Conf(t) \in Confs /\ conf \in Confs
    BY <1>1, <1>3, <2>1, ConfType
  <2>3. conf.is_interface = Conf(t).is_interface
    BY <2>2 DEF Confs
  <2> HIDE DEF conf
  <2>4. ConfMoves("set_timeout", Conf(t), conf)
    BY <2>3 DEF ConfMoves
  <2>5. QED
    BY <1>2, <2>1, <2>2, <2>4
<1>6. CASE ChangeSecondary(t)
  <2> DEFINE conf == [Conf(t) EXCEPT !.pad = call[t].pad]
  <2>1. At(t, "IBSAD") /\ GoesOn(t) /\ UNCHANGED <<usec_timeout, bus, blind>>
    BY <1>6, OutcomeGoesOn DEF ChangeSecondary
  <2>2. Conf(t) \in Confs /\ conf \in Confs
    BY <1>1, <1>3, <2>1, ConfType
  <2>3. conf.is_interface = Conf(t).is_interface
    BY <2>2 DEF Confs
  <2>4. Assign(t, conf) \/ UNCHANGED ibConfigs
    BY <1>6 DEF ChangeSecondary
  <2> HIDE DEF conf
  <2>5. CASE Assign(t, conf)
    <3>1. ConfMoves("IBSAD", Conf(t), conf)
      BY <2>3 DEF ConfMoves
    <3>2. QED
      BY <1>1, <1>2, <2>1, <2>2, <2>3, <2>5, <3>1
  <2>6. CASE UNCHANGED ibConfigs
    BY <2>1, <2>6, BusSame
  <2>7. QED
    BY <2>4, <2>5, <2>6
<1>7. ASSUME NEW old \in Confs
      PROVE  /\ \A h : SameSettings([old EXCEPT !.handle = h], old)
             /\ \A h, b : SameSettings([old EXCEPT !.handle = h, !.board_is_open = b], old)
  BY DEF SameSettings, Confs
<1>8. CASE conf_online(t)
  <2>1. At(t, "online") /\ GoesOn(t) /\ UNCHANGED <<usec_timeout, bus, blind>>
    BY <1>8 DEF conf_online, GoesOn
  <2>2. Conf(t) \in Confs
    BY <1>3, <2>1
  <2>3. CASE UNCHANGED ibConfigs
    BY <2>1, <2>3, BusSame
  <2>4. CASE ~UNCHANGED ibConfigs
    <3> DEFINE conf == [Conf(t) EXCEPT !.handle = reply'.handle, !.board_is_open = TRUE]
    <3>1. /\ Link!open_dev_ioctl(Conf(t).pad, Conf(t).sad, Interface(t)) /\ Assign(t, conf)
      BY <1>8, <2>4 DEF conf_online
    <3>2. conf \in Confs
      <4>1. ibConfigs' \in [Uds -> Confs \union {NoConf}]
        BY <1>8, TableSteps DEF Good, IInv, TypeOK
      <4>2. ibConfigs'[call[t].ud] = conf /\ call[t].ud \in Uds
        BY <2>1, <3>1, AtBusy DEF Assign, IInv, TypeOK
      <4>3. conf # NoConf
        <5>1. conf.pad = Conf(t).pad /\ DOMAIN conf = DOMAIN Conf(t)
          BY <2>2 DEF Confs
        <5>2. DOMAIN Conf(t) # DOMAIN NoConf
          BY <2>2 DEF Confs, NoConf
        <5>3. QED
          BY <5>1, <5>2
      <4>4. QED
        BY <4>1, <4>2, <4>3
    <3>3. SameSettings(conf, Conf(t))
      BY <1>7, <2>2
    <3> HIDE DEF conf
    <3>4. QED
      BY <2>1, <3>1, <3>2, <3>3, BusSame
  <2>5. QED
    BY <2>3, <2>4
<1>9. CASE close_gpib_handle(t)
  <2> DEFINE conf == [Conf(t) EXCEPT !.handle = -1]
  <2>1. At(t, "IBCLOSEDEV") /\ GoesOn(t) /\ UNCHANGED <<usec_timeout, bus, blind>>
    BY <1>9, OutcomeGoesOn DEF close_gpib_handle, GoesOn
  <2>2. UNCHANGED ibConfigs \/ Assign(t, conf)
    BY <1>9 DEF close_gpib_handle
  <2>3. Conf(t) \in Confs
    BY <1>3, <2>1
  <2>4. -1 \in -1 .. MaxOpen
    BY <1>1
  <2>5. conf \in Confs /\ SameSettings(conf, Conf(t))
    BY <1>7, <2>3, <2>4, ConfType
  <2> HIDE DEF conf
  <2>6. QED
    BY <2>1, <2>2, <2>5, BusSame
<1>10. QED
  BY <1>4, <1>5, <1>6, <1>8, <1>9

(* The answer to an ibwait.                                                  *)
LEMMA BusIbwait ==
  ASSUME OneThread, IInv, BusInv, NEW t \in Threads, IbwaitAnswer(t)
  PROVE  BusInv'
<1>1. At(t, "wait") /\ UNCHANGED <<usec_timeout, bus, blind, ibConfigs>>
  BY DEF IbwaitAnswer
<1>2. CASE GoesOn(t)
  BY <1>1, <1>2, BusSame
<1>3. ASSUME NEW last,
             call' = [call EXCEPT ![t].todo = <<>>, ![t].last = last]
      PROVE  BusInv'
  <2> DEFINE d == [call[t] EXCEPT !.todo = <<>>, !.last = last]
  <2>1. Conf(t) \in Confs /\ call[t] \in CallRecords /\ call[t].ud \in Uds
    BY <1>1, InTable, AtBusy
  <2>2. d.ud = call[t].ud /\ d.todo = <<>>
    BY <2>1 DEF CallRecords
  <2>3. call' = [call EXCEPT ![t] = d]
    BY <1>3
  <2>4. ibConfigs' = [ibConfigs EXCEPT ![call[t].ud] = Conf(t)]
    BY <1>1, <2>1 DEF IInv, TypeOK, Conf
  <2>5. blind' \in [Threads -> BOOLEAN]
    BY <1>1 DEF BusInv
  <2>6. /\ ConfMoves("wait", Conf(t), Conf(t)) /\ BusMoves("wait", Bus(t), Bus(t)')
        /\ TimeMoves("wait", Conf(t), usec_timeout, usec_timeout')
    BY <1>1 DEF ConfMoves, BusMoves, Bus, TimeMoves
  <2> HIDE DEF d
  <2>7. QED
    BY <1>1, <2>1, <2>2, <2>3, <2>4, <2>5, <2>6, BusKept
<1>4. QED
  BY <1>2, <1>3, OutcomeGoesOn DEF IbwaitAnswer, GoesOn

(* A call that begins has all it needs in its own list.                      *)
LEMMA BusBegin ==
  ASSUME OneThread, IInv, BusInv, NEW t \in Threads, Begin(t)
  PROVE  BusInv'
<1>1. ASSUME NEW d, call' = [call EXCEPT ![t] = d],
             UNCHANGED <<usec_timeout, ibConfigs>>, blind' = [blind EXCEPT ![t] = FALSE],
             \A b : Prepared(d.todo, ibConfigs[d.ud], usec_timeout, b), InsertsOnly(d.todo)
      PROVE  BusInv'
  <2>1. call'[t] = d /\ \A u \in Threads : u = t
    BY <1>1 DEF IInv, TypeOK, OneThread
  <2>2. Conf(t)' = ibConfigs[d.ud]
    BY <1>1, <2>1 DEF Conf
  <2>3. blind' \in [Threads -> BOOLEAN]
    BY <1>1 DEF BusInv
  <2>4. QED
    BY <1>1, <2>1, <2>2, <2>3 DEF BusInv
<1>2. CASE \E op \in Calls, ud \in Uses[t], pad \in {0} \union DevicePads \union SadArgs,
              usec \in {0} \union Timeouts : BeginCall(t, op, ud, pad, usec)
  <2>1. PICK op \in Calls, ud \in Uses[t], pad \in {0} \union DevicePads \union SadArgs,
             usec \in {0} \union Timeouts : BeginCall(t, op, ud, pad, usec)
    BY <1>2
  <2> DEFINE steps == StepsOf(op, ibConfigs[ud])
             d == NewCall(ud, pad, usec, steps)
  <2>2. /\ op \in LibraryCalls /\ ud \in known /\ ud \in Uds
        /\ call' = [call EXCEPT ![t] = d] /\ UNCHANGED <<usec_timeout, ibConfigs>>
        /\ blind' = [blind EXCEPT ![t] = FALSE]
    BY <2>1, LibraryAssumption DEF BeginCall, IInv, TypeOK
  <2>3. ibConfigs[ud].is_interface \in BOOLEAN
    BY <2>2 DEF IInv, TypeOK, Configured, Confs
  <2>4. d.ud = ud /\ d.todo = steps.todo
    BY DEF NewCall
  <2>5. Addressed(steps.todo, ibConfigs[ud]) /\ steps.todo \in Seq(WorkSteps)
    BY <2>2, <2>3, CallAddressed, CallLists
  <2> HIDE DEF steps, d
  <2>6. \A k \in DOMAIN steps.todo : k \in Nat
    BY <2>5
  <2>7. \A b : Prepared(steps.todo, ibConfigs[ud], usec_timeout, b)
    BY <2>5, <2>6 DEF Prepared, Addressed
  <2>8. ~Has(steps.todo, "insert")
    BY <2>5, HasOnly DEF WorkSteps
  <2>9. QED
    BY <1>1, <2>2, <2>4, <2>7, <2>8 DEF InsertsOnly
<1>3. CASE \E pad \in DevicePads, usec \in Timeouts : BeginIbdev(t, pad, usec)
  <2>1. PICK pad \in DevicePads, usec \in Timeouts : BeginIbdev(t, pad, usec)
    BY <1>3
  <2>2. PICK ud \in Free : call' = [call EXCEPT ![t] = NewCall(ud, pad, usec, ibdev)]
    BY <2>1 DEF BeginIbdev
  <2> DEFINE d == NewCall(ud, pad, usec, ibdev)
  <2>3. d.todo = ibdev.todo
    BY DEF NewCall
  <2>4. UNCHANGED <<usec_timeout, ibConfigs>> /\ blind' = [blind EXCEPT ![t] = FALSE]
    BY <2>1 DEF BeginIbdev
  <2>5. call' = [call EXCEPT ![t] = d]
    BY <2>2
  <2>6. InsertsOnly(ibdev.todo)
    BY FirstWithoutData DEF InsertsOnly
  <2> HIDE DEF d
  <2>7. \A b : Prepared(d.todo, ibConfigs[d.ud], usec_timeout, b)
    BY <2>3, FirstWithoutData
  <2>8. QED
    BY <1>1, <2>3, <2>4, <2>5, <2>6, <2>7
<1>4. QED
  BY <1>2, <1>3 DEF Begin

(* Before the first call there is no data to move.                           *)
LEMMA BusInit == ASSUME OneThread, Init PROVE BusInv
<1>1. ASSUME NEW t \in Threads
      PROVE  /\ Prepared(call[t].todo, Conf(t), usec_timeout, Bus(t))
             /\ InsertsOnly(call[t].todo)
  <2>1. t = Boot
    BY DEF OneThread
  <2>2. call[t] = NewCall(0, 0, 0, configure_board)
    BY <2>1, SMT DEF Init
  <2>3. call[t].todo = configure_board.todo
    BY <2>2 DEF NewCall
  <2>4. InsertsOnly(configure_board.todo)
    BY FirstWithoutData DEF InsertsOnly
  <2>5. QED
    BY <2>3, <2>4, FirstWithoutData
<1>2. blind \in [Threads -> BOOLEAN]
  BY SMT DEF Init
<1>3. QED
  BY <1>1, <1>2 DEF BusInv

(* OwnBus, for a program of one thread: whatever devices it opens,           *)
(* readdresses, polls and closes, and whichever ioctls fail, a read or a     *)
(* write that goes on the bus meets its own device, unless its addressing    *)
(* was cut short without an error, and has its own time limit.               *)
THEOREM LibraryOwnBus == ASSUME OneThread PROVE Spec => []OwnBus
<1>1. Init => BusInv
  BY BusInit
<1>2. IInv /\ BusInv /\ [Next]_vars => BusInv'
  <2> SUFFICES ASSUME IInv, BusInv, [Next]_vars PROVE BusInv'
    OBVIOUS
  <2>1. CASE Next
    <3>1. PICK t \in Threads : Begin(t) \/ Step(t)
      BY <2>1 DEF Next
    <3>2. CASE Begin(t)
      BY <3>2, BusBegin
    <3>3. CASE Step(t)
      BY <3>3, BusQuiet, BusSetup, BusTable, BusIbwait DEF Step
    <3>4. QED
      BY <3>1, <3>2, <3>3
  <2>2. CASE UNCHANGED vars
    BY <2>2 DEF vars, BusInv, Conf, Bus
  <2>3. QED
    BY <2>1, <2>2
<1>3. IInv /\ BusInv => OwnBus
  <2> SUFFICES ASSUME IInv, BusInv, NEW t \in Threads, NEW data \in Data, At(t, data)
               PROVE  /\ usec_timeout = Conf(t).usec_timeout
                      /\ ~Interface(t) => Met(Bus(t), data, DeviceAt(Conf(t)))
    BY DEF OwnBus, Data, Met, Bus
  <2>1. call[t].todo # <<>> /\ Head(call[t].todo) = data
    <3>1. \A s \in Seq(EndSteps) : s # <<>> => Head(s) \in EndSteps
      OBVIOUS
    <3>2. data \notin EndSteps
      BY DEF Data, EndSteps
    <3>3. QED
      BY <3>1, <3>2, AtBusy DEF CallRecords
  <2>2. 1 \in DOMAIN call[t].todo /\ call[t].todo[1] = data
    BY <2>1, AtBusy DEF CallRecords
  <2>3. QED
    BY <2>2 DEF BusInv, Prepared, Interface
<1>4. QED
  BY <1>1, <1>2, <1>3, LibraryInvariance, PTL DEF Spec
====
