------------------------------- MODULE Settings -------------------------------
(***************************************************************************)
(* The settings of a board's descriptor and of a device's: ibconfig changes *)
(* them one option at a time, ibask asks for them.  Some are kept in the    *)
(* descriptor, some in the board record behind an ioctl, which may fail,    *)
(* and some are only pretended.  A device's address is kept a second time,  *)
(* in the link's table of open devices, where its status bytes are queued.  *)
(***************************************************************************)
EXTENDS Integers

CONSTANTS
  SignedBool,  \* BOOL is a signed char: a bit-field of one bit holds 0 or -1, and
               \* an int given for one is cut to a byte
  Values,      \* for every option of ibconfig, the values it is called with
  MaxCalls     \* bound: calls of ibconfig

VARIABLES
  conf,      \* for every descriptor, its settings
  board,     \* the board record and the link's own flag
  entry,     \* the device's address in the table of open devices
  halfway,   \* TRUE after an address change whose second ioctl failed
  accepted,  \* for every descriptor, the last value accepted for an option
  reply,     \* what the last call answered
  calls

vars == <<conf, board, entry, halfway, accepted, reply, calls>>

Descriptors == {"board", "device"}
IsInterface(ud) == ud = "board"

-----------------------------------------------------------------------------
(* The options, by their names without Iba or Ibc.  IbcBNA is left out: it   *)
(* looks into a table of boards that is never filled.                       *)
Common == {"PAD", "SAD", "TMO", "EOT", "EOSrd", "EOSwrt", "EOScmp", "EOSchar",
           "ReadAdjust", "WriteAdjust", "EndBitIsNormal"}
BoardOnly == {"PPC", "AUTOPOLL", "CICPROT", "IRQ", "SC", "SRE", "PP2", "TIMING",
              "DMA", "EventQueue", "SPollBit", "SendLLO", "PPollTime",
              "HSCableLength", "Ist", "Rsv"}
DeviceOnly == {"READDR", "SPollTime", "UnAddr"}
ibconfig_option == Common \union BoardOnly \union DeviceOnly
ibask_option == ibconfig_option \union {"7BitEOS"}

(* Every int may be given as a value.                                        *)
ASSUME SettingsAssumption ==
  /\ SignedBool \in BOOLEAN
  /\ Values \in [ibconfig_option -> SUBSET Int]
  /\ MaxCalls \in Nat

Applies(ud, option) ==
  option \in Common \union (IF IsInterface(ud) THEN BoardOnly \union {"7BitEOS"}
                                               ELSE DeviceOnly)

iberr_code == [EDVR |-> 0, ECIC |-> 1, EARG |-> 4, ESAC |-> 5, ECAP |-> 11]
gpib_addr_max == 30
sad_offset == 96
default_ppoll_usec_timeout == 2

-----------------------------------------------------------------------------
(* Time limits: the codes TNONE to T1000s and what they stand for.           *)
TNONE == 0
T1000s == 17
gpib_timeout ==
  <<10, 30, 100, 300, 1000, 3000, 10000, 30000, 100000, 300000, 1000000, 3000000,
    10000000, 30000000, 100000000, 300000000, 1000000000>>

timeout_to_usec(timeout) ==
  IF timeout \in 1 .. T1000s THEN gpib_timeout[timeout] ELSE 0
NoDefault(timeout) == timeout_to_usec(timeout)  \* mutant: no limit for no limit
ppoll_timeout_to_usec(timeout) ==
  IF timeout = TNONE THEN default_ppoll_usec_timeout ELSE timeout_to_usec(timeout)

(* The shortest limit that is not shorter than usec.                         *)
usec_to_timeout(usec) ==
  IF usec = 0 \/ usec > gpib_timeout[T1000s] THEN TNONE
  ELSE CHOOSE t \in 1 .. T1000s :
         usec <= gpib_timeout[t] /\ \A s \in 1 .. t - 1 : usec > gpib_timeout[s]

IsTimeout(value) == value \in TNONE .. T1000s

t1_delays == <<2000, 500, 350>>

UInt8(value) == value % 256
SignedChar(value) == IF value > 127 THEN value - 256 ELSE value
(* An int as an argument of type BOOL.                                       *)
IsTrue(value) == IF SignedBool THEN UInt8(value) # 0 ELSE value # 0
Bit(b) == IF ~b THEN 0 ELSE IF SignedBool THEN -1 ELSE 1

-----------------------------------------------------------------------------
Settings(pad) ==
  [pad |-> pad, sad |-> -1, usec_timeout |-> 3000000,
   spoll_usec_timeout |-> 1000000, ppoll_usec_timeout |-> default_ppoll_usec_timeout,
   eos |-> 0, eos_flags |-> {}, send_eoi |-> TRUE, readdr |-> FALSE]

None == <<>>
Configured(good, iberr) ==
  [call |-> "config", good |-> good, iberr |-> iberr]
Asked(ud, option, good, value) ==
  [call |-> "ask", good |-> good, ud |-> ud, option |-> option, value |-> value]

(* A board set up at address 0 as system controller and in charge, and a     *)
(* device at address 1.                                                      *)
Init ==
  /\ conf = [ud \in Descriptors |-> Settings(IF IsInterface(ud) THEN 0 ELSE 1)]
  /\ board = [pad |-> 0, sad |-> -1, master |-> TRUE, cic |-> TRUE, ist |-> FALSE,
              autoSpoll |-> 0, t1NanoNsec |-> 800, m_autospoll |-> FALSE]
  /\ entry = [pad |-> 1, sad |-> -1]
  /\ halfway = FALSE
  /\ accepted = [ud \in Descriptors |-> None]
  /\ reply = Configured(TRUE, iberr_code.EDVR)
  /\ calls = 0

-----------------------------------------------------------------------------
(* The end of a call of ibconfig.                                            *)
Refuse(code) ==
  /\ reply' = Configured(FALSE, code)
  /\ UNCHANGED <<conf, board, accepted>>

(* The value is accepted as it arrives: PAD is passed on as a byte.           *)
AcceptWith(ud, option, value, iberr) ==
  /\ reply' = Configured(TRUE, iberr)
  /\ accepted' = [accepted EXCEPT ![ud] =
                   [o \in DOMAIN @ \union {option} |-> IF o = option THEN value ELSE @[o]]]
Accept(ud, option, value) == AcceptWith(ud, option, value, iberr_code.EDVR)

Keep == UNCHANGED <<entry, halfway>>

(* An option that takes one value or one kind of value only, and changes     *)
(* nothing.                                                                  *)
OnlyZero == {"ReadAdjust", "WriteAdjust", "CICPROT", "SPollBit", "SendLLO",
             "HSCableLength", "UnAddr"}
OnlyNonzero == {"EndBitIsNormal", "IRQ", "DMA", "EventQueue"}

Pretended(ud, option, value) ==
  /\ option \in OnlyZero \union OnlyNonzero
  /\ IF (option \in OnlyZero) = (value = 0)
     THEN Accept(ud, option, value) /\ UNCHANGED <<conf, board>>
     ELSE Refuse(iberr_code.ECAP)
  /\ Keep

(* An option kept in the descriptor.                                         *)
Store(ud, option, value, settings) ==
  /\ conf' = [conf EXCEPT ![ud] = settings]
  /\ Accept(ud, option, value)
  /\ UNCHANGED board

internal_ibtmo(ud, value) ==
  IF IsTimeout(value)
  THEN Store(ud, "TMO", value,
             [conf[ud] EXCEPT !.usec_timeout = timeout_to_usec(value)])
  ELSE Refuse(iberr_code.EARG)

SpollTakesIoLimit(ud, value) ==  \* mutant: the wrong time limit is set
  IF IsTimeout(value)
  THEN Store(ud, "SPollTime", value,
             [conf[ud] EXCEPT !.usec_timeout = timeout_to_usec(value)])
  ELSE Refuse(iberr_code.EARG)
set_spoll_timeout(ud, value) ==
  IF IsTimeout(value)
  THEN Store(ud, "SPollTime", value,
             [conf[ud] EXCEPT !.spoll_usec_timeout = timeout_to_usec(value)])
  ELSE Refuse(iberr_code.EARG)

set_ppoll_timeout(ud, value) ==
  IF IsTimeout(value)
  THEN Store(ud, "PPollTime", value,
             [conf[ud] EXCEPT !.ppoll_usec_timeout = ppoll_timeout_to_usec(value)])
  ELSE Refuse(iberr_code.ECAP)

Flag(option) == CASE option = "EOSrd" -> "REOS"
                  [] option = "EOSwrt" -> "XEOS"
                  [] option = "EOScmp" -> "BIN"

SetFlag(ud, option, value) ==
  /\ option \in {"EOSrd", "EOSwrt", "EOScmp"}
  /\ Store(ud, option, value,
           [conf[ud] EXCEPT !.eos_flags = IF value # 0 THEN @ \union {Flag(option)}
                                                       ELSE @ \ {Flag(option)}])

EOSchar(ud, value) ==
  IF UInt8(value) = value
  THEN Store(ud, "EOSchar", value, [conf[ud] EXCEPT !.eos = SignedChar(value)])
  ELSE Refuse(iberr_code.EARG)

InDescriptor(ud, option, value) ==
  /\ \/ option = "TMO" /\ internal_ibtmo(ud, value)
     \/ option = "SPollTime" /\ set_spoll_timeout(ud, value)
     \/ option = "PPollTime" /\ set_ppoll_timeout(ud, value)
     \/ option = "EOT"
        /\ Store(ud, option, value, [conf[ud] EXCEPT !.send_eoi = IsTrue(value)])
     \/ option = "READDR"
        /\ Store(ud, option, value, [conf[ud] EXCEPT !.readdr = value # 0])
     \/ SetFlag(ud, option, value)
     \/ option = "EOSchar" /\ EOSchar(ud, value)
  /\ Keep

-----------------------------------------------------------------------------
(* The addresses.  gpibi_change_address asks the link twice, and takes the    *)
(* new address over when both went well.                                     *)
ConfFirst(ud, option, value, pad) ==  \* mutant: the settings before the ioctls
  LET sad == conf[ud].sad
      settings == [conf EXCEPT ![ud].pad = pad]
  IN  \/ /\ conf' = settings
         /\ reply' = Configured(FALSE, iberr_code.EDVR)
         /\ UNCHANGED <<board, accepted>>
         /\ Keep
      \/ /\ conf' = settings
         /\ Accept(ud, option, value)
         /\ entry' = IF IsInterface(ud) THEN entry ELSE [pad |-> pad, sad |-> sad]
         /\ halfway' = (IsInterface(ud) /\ halfway)
         /\ UNCHANGED board

ForgottenEntry(ud, option, value, pad) ==  \* mutant: the table keeps the old address
  \/ Refuse(iberr_code.EDVR) /\ Keep
  \/ /\ conf' = [conf EXCEPT ![ud].pad = pad]
     /\ Accept(ud, option, value)
     /\ Keep /\ UNCHANGED board

gpibi_change_address(ud, option, value, pad) ==
  LET sad == conf[ud].sad
  IN  \/ Refuse(iberr_code.EDVR) /\ Keep  \* IBPAD fails
      \/ /\ Refuse(iberr_code.EDVR)       \* IBSAD fails: pad_ioctl has moved a device
         /\ ~IsInterface(ud)
         /\ entry' = [entry EXCEPT !.pad = pad]
         /\ halfway' = TRUE
      \/ /\ conf' = [conf EXCEPT ![ud].pad = pad, ![ud].sad = sad]
         /\ Accept(ud, option, value)
         (* pad_ioctl gives a board the address it has, whatever it is asked. *)
         /\ board' = IF IsInterface(ud) THEN [board EXCEPT !.sad = sad] ELSE board
         /\ entry' = IF IsInterface(ud) THEN entry ELSE [pad |-> pad, sad |-> sad]
         /\ halfway' = (IsInterface(ud) /\ halfway)

internal_ibpad(ud, value) ==
  IF UInt8(value) > gpib_addr_max THEN Refuse(iberr_code.EARG) /\ Keep
  ELSE gpibi_change_address(ud, "PAD", value, UInt8(value))

(* The address itself, with its offset, goes where the primary address goes.  *)
internal_ibsad(ud, value) ==
  IF value - sad_offset > gpib_addr_max THEN Refuse(iberr_code.EARG) /\ Keep
  ELSE gpibi_change_address(ud, "SAD", value, UInt8(value))

Address(ud, option, value) ==
  \/ option = "PAD" /\ internal_ibpad(ud, value)
  \/ option = "SAD" /\ internal_ibsad(ud, value)

-----------------------------------------------------------------------------
(* What a board is asked for by an ioctl, which may fail.                    *)
OnBoard(option, value, record) ==
  \/ Refuse(iberr_code.EDVR)
  \/ /\ board' = record
     /\ Accept("board", option, value)
     /\ UNCHANGED conf

(* No board answers parallel polls by itself.                                *)
PPE == 96
internal_ibppc(value) ==
  IF value # 0 /\ (value \div 32) * 32 # PPE THEN Refuse(iberr_code.EARG)
  ELSE Refuse(iberr_code.ECAP)

(* configure_autospoll tells the link to enable automatic polls in a field    *)
(* that the handler of IBAUTOSPOLL does not look at: it always switches off,  *)
(* and the board has none to switch off.                                     *)
autospoll_ioctl(value) ==
  IF board.autoSpoll <= 0 THEN Refuse(iberr_code.EDVR)
  ELSE OnBoard("AUTOPOLL", value,
               [board EXCEPT !.autoSpoll = @ - 1, !.m_autospoll = IsTrue(value)])
configure_autospoll(value) ==
  IF IsTrue(value) = board.m_autospoll
  THEN Accept("board", "AUTOPOLL", value) /\ UNCHANGED <<conf, board>>
  ELSE autospoll_ioctl(value)

(* Giving system control up gives the charge of the bus up; asking for it     *)
(* again does not take charge again.                                         *)
internal_ibrsc(value) ==
  OnBoard("SC", value, [board EXCEPT !.master = IsTrue(value), !.cic = @ /\ IsTrue(value)])

internal_ibsre(value) ==
  IF board.master THEN OnBoard("SRE", value, board)
  ELSE Refuse(iberr_code.ESAC) \/ Refuse(iberr_code.EDVR)

set_t1_delay(value) ==
  IF value \in DOMAIN t1_delays
  THEN OnBoard("TIMING", value, [board EXCEPT !.t1NanoNsec = t1_delays[value]])
  ELSE Refuse(iberr_code.EARG)

(* The old bit comes first: it is the reason given for success, and -1 looks  *)
(* like a failure.                                                           *)
internal_ibist(value) ==
  \/ Refuse(iberr_code.EDVR)
  \/ /\ Bit(board.ist) >= 0
     /\ board' = [board EXCEPT !.ist = IsTrue(value)]
     /\ AcceptWith("board", "Ist", value, Bit(board.ist))
     /\ UNCHANGED conf

(* Only a board that is not in charge may request service.                   *)
internal_ibrsv(value) ==
  IF board.cic THEN Refuse(iberr_code.EDVR) ELSE OnBoard("Rsv", value, board)

BehindIoctl(ud, option, value) ==
  /\ \/ option = "PPC" /\ internal_ibppc(value)
     \/ option = "PP2" /\ Refuse(iberr_code.ECAP)
     \/ option = "AUTOPOLL" /\ configure_autospoll(value)
     \/ option = "SC" /\ internal_ibrsc(value)
     \/ option = "SRE" /\ internal_ibsre(value)
     \/ option = "TIMING" /\ set_t1_delay(value)
     \/ option = "Ist" /\ internal_ibist(value)
     \/ option = "Rsv" /\ internal_ibrsv(value)
  /\ Keep

ibconfig(ud, option, value) ==
  /\ calls < MaxCalls
  /\ calls' = calls + 1
  /\ IF Applies(ud, option)
     THEN \/ Pretended(ud, option, value) \/ InDescriptor(ud, option, value)
          \/ Address(ud, option, value) \/ BehindIoctl(ud, option, value)
     ELSE Refuse(iberr_code.EARG) /\ Keep

-----------------------------------------------------------------------------
(* ibask.  Some answers are constants, some come from the descriptor, some    *)
(* from the board.  There is no secondary address MSA(-1): the answer is 0.   *)
Constant ==
  [ReadAdjust |-> 0, WriteAdjust |-> 0, EndBitIsNormal |-> 1, CICPROT |-> 0, IRQ |-> 0,
   SRE |-> 1, PP2 |-> 0, DMA |-> -1, EventQueue |-> 0, SPollBit |-> 1, SendLLO |-> 0,
   HSCableLength |-> 0, UnAddr |-> 0]

flag_value == [REOS |-> 1024, XEOS |-> 2048, BIN |-> 4096]
FlagAnswer(settings, flag) == IF flag \in settings.eos_flags THEN flag_value[flag] ELSE 0

MSA(sad) == 96 + (sad % 32)
FromDescriptor(settings) ==
  [PAD |-> settings.pad,
   SAD |-> IF settings.sad < 0 THEN 0 ELSE MSA(settings.sad),
   TMO |-> usec_to_timeout(settings.usec_timeout),
   SPollTime |-> usec_to_timeout(settings.spoll_usec_timeout),
   PPollTime |-> usec_to_timeout(settings.ppoll_usec_timeout),
   EOT |-> Bit(settings.send_eoi), READDR |-> Bit(settings.readdr),
   EOSrd |-> FlagAnswer(settings, "REOS"), EOSwrt |-> FlagAnswer(settings, "XEOS"),
   EOScmp |-> FlagAnswer(settings, "BIN"), EOSchar |-> settings.eos]

query_board_t1_delay ==
  IF board.t1NanoNsec < 500 THEN 3 ELSE IF board.t1NanoNsec < 2000 THEN 2 ELSE 1

(* The board is configured for no parallel poll, has no status byte, and      *)
(* no_7_bit_eos is never set.                                                *)
FromBoard ==
  [PPC |-> 0, AUTOPOLL |-> board.autoSpoll, SC |-> IF board.master THEN 1 ELSE 0,
   TIMING |-> query_board_t1_delay, Ist |-> Bit(board.ist), Rsv |-> 0]
FromBoardWith7Bit ==
  [option \in DOMAIN FromBoard \union {"7BitEOS"} |->
     IF option = "7BitEOS" THEN 1 ELSE FromBoard[option]]

Answer(ud, option, value) == reply' = Asked(ud, option, TRUE, value)
NoAnswer(ud, option) == reply' = Asked(ud, option, FALSE, 0)

(* A board's address is asked of the board, and noted in the descriptor.      *)
AskAddress(ud, option) ==
  /\ option \in {"PAD", "SAD"} /\ IsInterface(ud)
  /\ \/ NoAnswer(ud, option) /\ UNCHANGED conf
     \/ LET settings == IF option = "PAD" THEN [conf[ud] EXCEPT !.pad = board.pad]
                                          ELSE [conf[ud] EXCEPT !.sad = board.sad]
        IN  /\ conf' = [conf EXCEPT ![ud] = settings]
            /\ Answer(ud, option, FromDescriptor(settings)[option])

AskDescriptor(ud, option) ==
  /\ ~(option \in {"PAD", "SAD"} /\ IsInterface(ud))
  /\ \/ option \in DOMAIN FromDescriptor(conf[ud])
        /\ Answer(ud, option, FromDescriptor(conf[ud])[option])
     \/ option \in DOMAIN Constant /\ Answer(ud, option, Constant[option])
  /\ UNCHANGED conf

(* A negative answer of the board looks like a failure.                      *)
AskBoard(ud, option) ==
  /\ option \in DOMAIN FromBoardWith7Bit
  /\ \/ NoAnswer(ud, option)
     \/ /\ FromBoardWith7Bit[option] >= 0
        /\ Answer(ud, option, FromBoardWith7Bit[option])
  /\ UNCHANGED conf

(* Bound: one question after each ibconfig; what is asked for changes nothing *)
(* another question looks at.                                                *)
ibask(ud, option) ==
  /\ reply.call = "config"
  /\ IF Applies(ud, option)
     THEN AskAddress(ud, option) \/ AskDescriptor(ud, option) \/ AskBoard(ud, option)
     ELSE NoAnswer(ud, option) /\ UNCHANGED conf
  /\ UNCHANGED <<board, entry, halfway, accepted, calls>>

Next ==
  \E ud \in Descriptors :
    \/ \E option \in ibconfig_option : \E value \in Values[option] :
         ibconfig(ud, option, value)
    \/ \E option \in ibask_option : ibask(ud, option)

Spec == Init /\ [][Next]_vars

-----------------------------------------------------------------------------
TimeLimits == {0} \union {gpib_timeout[code] : code \in 1 .. T1000s}
Setting ==
  [pad : 0 .. 255, sad : -1 .. gpib_addr_max, usec_timeout : TimeLimits,
   spoll_usec_timeout : TimeLimits,
   ppoll_usec_timeout : (TimeLimits \ {0}) \union {default_ppoll_usec_timeout},
   eos : -128 .. 127, eos_flags : SUBSET {"REOS", "XEOS", "BIN"}, send_eoi : BOOLEAN,
   readdr : BOOLEAN]
BoardRecord ==
  [pad : 0 .. gpib_addr_max, sad : -1 .. gpib_addr_max, master : BOOLEAN, cic : BOOLEAN,
   ist : BOOLEAN, autoSpoll : Nat, t1NanoNsec : Nat \ {0}, m_autospoll : BOOLEAN]

(* The types of what is kept.  No limit but those of the table is ever set, a  *)
(* parallel poll always has one.                                             *)
TypeOK ==
  /\ conf \in [Descriptors -> Setting]
  /\ board \in BoardRecord
  /\ entry \in [pad : 0 .. 255, sad : -1 .. gpib_addr_max]
  /\ halfway \in BOOLEAN /\ calls \in 0 .. MaxCalls
  /\ reply.call = "config" => \E name \in DOMAIN iberr_code : reply.iberr = iberr_code[name]

(* What ibconfig has accepted for an option is what ibask answers, whatever   *)
(* other options were set in between, on this descriptor or the other.       *)
(* Yes-or-no options are compared as such, a character modulo 256.            *)
YesOrNo == {"EOT", "EOSrd", "EOSwrt", "EOScmp", "READDR", "EndBitIsNormal", "DMA",
            "AUTOPOLL", "SC", "Ist"}
Same(option, value, answer) ==
  CASE option \in YesOrNo -> (value # 0) = (answer # 0)
    [] option \in {"EOSchar", "PAD"} -> UInt8(value) = UInt8(answer)
    [] OTHER -> value = answer

(* Where it is not so: options that are only pretended, the status byte, a    *)
(* yes that BOOL cuts to a no (256), a parallel poll without a limit (which   *)
(* gets the default), a board's address, and the addresses of a descriptor    *)
(* whose secondary address has been set.                                     *)
OnlyPretended == {"SRE", "IRQ", "EventQueue", "SPollBit", "Rsv"}
NotKept(ud, option, value) ==
  \/ option \in OnlyPretended
  \/ option \in {"EOT", "AUTOPOLL", "SC", "Ist"} /\ value # 0 /\ ~IsTrue(value)
  \/ option = "PPollTime" /\ value = TNONE
  \/ option \in {"PAD", "SAD"} /\ (IsInterface(ud) \/ "SAD" \in DOMAIN accepted[ud])

AcceptedIsAnswered ==
  reply.call = "ask" /\ reply.good /\ reply.option \in DOMAIN accepted[reply.ud] =>
    LET value == accepted[reply.ud][reply.option]
    IN  NotKept(reply.ud, reply.option, value) \/ Same(reply.option, value, reply.value)

(* A call that is refused has changed nothing, but for the device's entry in  *)
(* the table of open devices when IBSAD fails after IBPAD.                    *)
RefusedChangesNothing ==
  [][calls' # calls /\ ~reply'.good =>
       conf' = conf /\ board' = board /\ (halfway' \/ entry' = entry)]_vars

(* The address that transfers to the device use is the one its status bytes   *)
(* are queued under, unless an address change has failed half way since the  *)
(* last one that went well.                                                  *)
AddressAgrees ==
  ~halfway => entry = [pad |-> conf["device"].pad, sad |-> conf["device"].sad]
=============================================================================
