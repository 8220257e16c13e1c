---------------------------- MODULE SettingsProofs ----------------------------
(***************************************************************************)
(* Proofs about Settings, for any values that ibconfig is called with and   *)
(* any number of calls: the settings stay in their ranges, the two copies   *)
(* of a device's address agree, a refused call has no effect, every code of *)
(* a time limit is answered as it was set, and what ibconfig has accepted   *)
(* is what ibask answers.                                                   *)
(***************************************************************************)
EXTENDS Settings, TLAPS

-----------------------------------------------------------------------------
(* The table of time limits, entry by entry.                                 *)
LEMMA Table ==
  ASSUME NEW code \in 1 .. T1000s
  PROVE  /\ gpib_timeout[code] \in Nat \ {0}
         /\ gpib_timeout[code] <= gpib_timeout[T1000s]
<1>1. code \in {1, 2, 3, 4, 5, 6, 7, 8, 9, 10, 11, 12, 13, 14, 15, 16, 17}
  BY DEF T1000s
<1>2. QED
  BY <1>1 DEF gpib_timeout, T1000s

(* Longer codes stand for longer limits.                                     *)
LEMMA Increasing ==
  ASSUME NEW s \in 1 .. T1000s, NEW code \in 1 .. T1000s, s < code
  PROVE  gpib_timeout[s] < gpib_timeout[code]
<1>1. \A k \in 1 .. 16 : gpib_timeout[k] < gpib_timeout[k + 1]
  <2>1. SUFFICES ASSUME NEW k \in 1 .. 16 PROVE gpib_timeout[k] < gpib_timeout[k + 1]
    OBVIOUS
  <2>2. k \in {1, 2, 3, 4, 5, 6, 7, 8, 9, 10, 11, 12, 13, 14, 15, 16}
    OBVIOUS
  <2>3. QED
    BY <2>2 DEF gpib_timeout
<1>2. code \in {1, 2, 3, 4, 5, 6, 7, 8, 9, 10, 11, 12, 13, 14, 15, 16, 17}
      /\ s \in {1, 2, 3, 4, 5, 6, 7, 8, 9, 10, 11, 12, 13, 14, 15, 16, 17}
  BY DEF T1000s
<1>3. QED
  BY <1>2 DEF gpib_timeout

(* usec_to_timeout answers the code that timeout_to_usec was given, for every   *)
(* code from TNONE to T1000s: what ibtmo sets is what ibask says.              *)
THEOREM LimitsRoundTrip ==
  \A code \in TNONE .. T1000s : usec_to_timeout(timeout_to_usec(code)) = code
<1>1. SUFFICES ASSUME NEW code \in TNONE .. T1000s
               PROVE  usec_to_timeout(timeout_to_usec(code)) = code
  OBVIOUS
<1>2. CASE code = TNONE
  BY <1>2 DEF usec_to_timeout, timeout_to_usec, TNONE, T1000s
<1>3. CASE code # TNONE
  <2> DEFINE usec == gpib_timeout[code]
             P(t) == usec <= gpib_timeout[t] /\ \A s \in 1 .. t - 1 : usec > gpib_timeout[s]
  <2>1. code \in 1 .. T1000s /\ timeout_to_usec(code) = usec
    BY <1>3 DEF timeout_to_usec, TNONE, T1000s
  <2>2. usec # 0 /\ ~(usec > gpib_timeout[T1000s]) /\ usec \in Nat
    <3>1. T1000s \in 1 .. T1000s
      BY DEF T1000s
    <3>2. QED
      BY <2>1, <3>1, Table
  <2>3. P(code)
    <3>1. usec <= gpib_timeout[code]
      BY <2>2
    <3>2. ASSUME NEW s \in 1 .. code - 1 PROVE usec > gpib_timeout[s]
      <4>1. s \in 1 .. T1000s /\ s < code
        BY <2>1 DEF T1000s
      <4>2. gpib_timeout[s] < gpib_timeout[code]
        BY <2>1, <4>1, Increasing
      <4>3. gpib_timeout[s] \in Nat
        BY <4>1, Table
      <4>4. QED
        BY <2>2, <4>2, <4>3
    <3>3. QED
      BY <3>1, <3>2
  <2>4. ASSUME NEW t \in 1 .. T1000s, P(t) PROVE t = code
    <3>1. CASE t < code
      <4>1. gpib_timeout[t] < usec /\ gpib_timeout[t] \in Nat
        BY <2>1, <3>1, Increasing, Table
      <4>2. QED
        BY <2>2, <2>4, <4>1
    <3>2. CASE t > code
      <4>1. code \in 1 .. t - 1
        BY <2>1, <2>4, <3>2 DEF T1000s
      <4>2. usec > gpib_timeout[code]
        BY <2>4, <4>1
      <4>3. QED
        BY <2>2, <4>2
    <3>3. QED
      BY <2>1, <3>1, <3>2 DEF T1000s
  <2>5. usec_to_timeout(usec) = CHOOSE t \in 1 .. T1000s : P(t)
    BY <2>2 DEF usec_to_timeout
  <2> HIDE DEF P, usec
  <2>6. (CHOOSE t \in 1 .. T1000s : P(t)) = code
    BY <2>1, <2>3, <2>4
  <2>7. QED
    BY <2>1, <2>5, <2>6
<1>4. QED
  BY <1>2, <1>3

-----------------------------------------------------------------------------
(* A BOOL is one of two.                                                      *)
LEMMA BoolType == \A value \in Int : IsTrue(value) \in BOOLEAN
<1>1. SUFFICES ASSUME NEW value \in Int PROVE IsTrue(value) \in BOOLEAN
  OBVIOUS
<1>2. CASE SignedBool
  BY <1>2 DEF IsTrue
<1>3. CASE ~SignedBool
  BY <1>3 DEF IsTrue
<1>4. QED
  BY <1>2, <1>3

(* The conversions stay in their ranges.                                      *)
LEMMA Conversions ==
  ASSUME NEW value \in Int
  PROVE  /\ UInt8(value) \in 0 .. 255
         /\ UInt8(value) = value => SignedChar(value) \in -128 .. 127
         /\ timeout_to_usec(value) \in TimeLimits
         /\ IsTimeout(value) =>
              ppoll_timeout_to_usec(value)
                \in (TimeLimits \ {0}) \union {default_ppoll_usec_timeout}
<1>1. timeout_to_usec(value) \in TimeLimits
  BY DEF timeout_to_usec, TimeLimits
<1>2. value \in 1 .. T1000s => timeout_to_usec(value) # 0
  BY Table DEF timeout_to_usec
<1>3. UInt8(value) \in 0 .. 255 /\ (UInt8(value) = value => SignedChar(value) \in -128 .. 127)
  BY DEF UInt8, SignedChar
<1>4. IsTimeout(value) => ppoll_timeout_to_usec(value)
                           \in (TimeLimits \ {0}) \union {default_ppoll_usec_timeout}
  BY <1>1, <1>2 DEF ppoll_timeout_to_usec, IsTimeout, default_ppoll_usec_timeout, TNONE, T1000s
<1>5. QED
  BY <1>1, <1>3, <1>4

-----------------------------------------------------------------------------
(* What a call of ibconfig comes to.  It is refused and changes nothing ...    *)
RefusedStep ==
  /\ \E code \in {iberr_code[name] : name \in DOMAIN iberr_code} : Refuse(code)
  /\ UNCHANGED <<entry, halfway>>

(* ... or it is accepted ...                                                 *)
Accepts == \E name \in DOMAIN iberr_code : reply' = Configured(TRUE, iberr_code[name])

(* ... and changes the settings of a descriptor, but not its address ...      *)
StoredStep ==
  /\ Accepts
  /\ \E ud \in Descriptors, settings \in Setting :
       /\ settings.pad = conf[ud].pad /\ settings.sad = conf[ud].sad
       /\ conf' = [conf EXCEPT ![ud] = settings]
  /\ UNCHANGED <<board, entry, halfway>>

(* ... or the board's record ...                                             *)
BoardStep ==
  /\ Accepts
  /\ board' \in BoardRecord
  /\ UNCHANGED <<conf, entry, halfway>>

(* ... or it changes an address, whole or half.                              *)
AddressStep ==
  \E ud \in Descriptors, option \in {"PAD", "SAD"}, value \in Int, pad \in 0 .. 255 :
    gpibi_change_address(ud, option, value, pad)

IsStep == RefusedStep \/ StoredStep \/ BoardStep \/ AddressStep

(* The reasons by their names.                                               *)
LEMMA Codes ==
  /\ iberr_code.EDVR = 0 /\ iberr_code.ECIC = 1
  /\ \A name \in {"EDVR", "ECIC", "EARG", "ESAC", "ECAP"} :
       name \in DOMAIN iberr_code
  BY DEF iberr_code

(* A call that is refused.                                                    *)
LEMMA Refusals ==
  ASSUME NEW name \in {"EDVR", "EARG", "ESAC", "ECAP"}, Refuse(iberr_code[name]), Keep
  PROVE  RefusedStep
  BY Codes DEF RefusedStep, Keep

(* A call that is accepted.                                                   *)
LEMMA Acceptance ==
  ASSUME NEW ud, NEW option, NEW value, Accept(ud, option, value)
  PROVE  Accepts
  BY Codes DEF Accept, AcceptWith, Accepts

(* An option that is only pretended leaves the descriptor as it is.           *)
LEMMA PretendedStep ==
  ASSUME TypeOK, NEW ud \in Descriptors, NEW option, NEW value, Pretended(ud, option, value)
  PROVE  IsStep
<1>1. CASE Refuse(iberr_code.ECAP) /\ Keep
  BY <1>1, Refusals DEF IsStep
<1>2. CASE Accept(ud, option, value) /\ UNCHANGED <<conf, board>> /\ Keep
  <2>1. BoardStep
    BY <1>2, Acceptance DEF BoardStep, TypeOK, Keep
  <2>2. QED
    BY <2>1 DEF IsStep
<1>3. QED
  BY <1>1, <1>2 DEF Pretended

(* Settings that keep the address are stored or the call is refused.          *)
LEMMA StoreStep ==
  ASSUME TypeOK, NEW ud \in Descriptors, NEW option, NEW value, NEW settings \in Setting,
         settings.pad = conf[ud].pad, settings.sad = conf[ud].sad,
         Store(ud, option, value, settings), Keep
  PROVE  IsStep
<1>1. StoredStep
  BY Acceptance DEF StoredStep, Store, Keep
<1>2. QED
  BY <1>1 DEF IsStep

(* One field of a descriptor's settings, set to a value of its range.         *)
LEMMA OneField ==
  ASSUME NEW old \in Setting, NEW settings,
         \/ \E usec \in TimeLimits :
              \/ settings = [old EXCEPT !.usec_timeout = usec]
              \/ settings = [old EXCEPT !.spoll_usec_timeout = usec]
         \/ \E usec \in (TimeLimits \ {0}) \union {default_ppoll_usec_timeout} :
              settings = [old EXCEPT !.ppoll_usec_timeout = usec]
         \/ \E b \in BOOLEAN : \/ settings = [old EXCEPT !.send_eoi = b]
                               \/ settings = [old EXCEPT !.readdr = b]
         \/ \E f \in SUBSET {"REOS", "XEOS", "BIN"} : settings = [old EXCEPT !.eos_flags = f]
         \/ \E c \in -128 .. 127 : settings = [old EXCEPT !.eos = c]
  PROVE  settings \in Setting /\ settings.pad = old.pad /\ settings.sad = old.sad
<1> DEFINE Limits == TimeLimits
           PollLimits == (TimeLimits \ {0}) \union {default_ppoll_usec_timeout}
           Flags == SUBSET {"REOS", "XEOS", "BIN"}
           Pads == 0 .. 255
           Sads == -1 .. gpib_addr_max
           Chars == -128 .. 127
           Goal == settings \in Setting /\ settings.pad = old.pad /\ settings.sad = old.sad
<1>1. Setting = [pad : Pads, sad : Sads, usec_timeout : Limits, spoll_usec_timeout : Limits,
                 ppoll_usec_timeout : PollLimits, eos : Chars, eos_flags : Flags,
                 send_eoi : BOOLEAN, readdr : BOOLEAN]
  BY DEF Setting
<1>2. \/ \E usec \in Limits : \/ settings = [old EXCEPT !.usec_timeout = usec]
                            \/ settings = [old EXCEPT !.spoll_usec_timeout = usec]
      \/ \E usec \in PollLimits : settings = [old EXCEPT !.ppoll_usec_timeout = usec]
      \/ \E b \in BOOLEAN : \/ settings = [old EXCEPT !.send_eoi = b]
                            \/ settings = [old EXCEPT !.readdr = b]
      \/ \E f \in Flags : settings = [old EXCEPT !.eos_flags = f]
      \/ \E c \in Chars : settings = [old EXCEPT !.eos = c]
  OBVIOUS
<1> HIDE DEF Limits, PollLimits, Flags, Pads, Sads, Chars
<1>3. ASSUME NEW usec \in Limits, settings = [old EXCEPT !.usec_timeout = usec] PROVE Goal
  BY <1>1, <1>3
<1>4. ASSUME NEW usec \in Limits, settings = [old EXCEPT !.spoll_usec_timeout = usec] PROVE Goal
  BY <1>1, <1>4
<1>5. ASSUME NEW usec \in PollLimits, settings = [old EXCEPT !.ppoll_usec_timeout = usec] PROVE Goal
  BY <1>1, <1>5
<1>6. ASSUME NEW b \in BOOLEAN, settings = [old EXCEPT !.send_eoi = b] PROVE Goal
  BY <1>1, <1>6
<1>7. ASSUME NEW b \in BOOLEAN, settings = [old EXCEPT !.readdr = b] PROVE Goal
  BY <1>1, <1>7
<1>8. ASSUME NEW f \in Flags, settings = [old EXCEPT !.eos_flags = f] PROVE Goal
  BY <1>1, <1>8
<1>9. ASSUME NEW c \in Chars, settings = [old EXCEPT !.eos = c] PROVE Goal
  BY <1>1, <1>9
<1>10. QED
  BY <1>2, <1>3, <1>4, <1>5, <1>6, <1>7, <1>8, <1>9

(* What ibconfig keeps in the descriptor.                                    *)
LEMMA InDescriptorStep ==
  ASSUME TypeOK, NEW ud \in Descriptors, NEW option, NEW value \in Int,
         InDescriptor(ud, option, value)
  PROVE  IsStep
<1> DEFINE old == conf[ud]
<1>1. old \in Setting /\ Keep
  BY DEF TypeOK, InDescriptor
<1>2. ASSUME NEW o, NEW settings, Store(ud, o, value, settings),
             \/ \E usec \in TimeLimits :
                  \/ settings = [old EXCEPT !.usec_timeout = usec]
                  \/ settings = [old EXCEPT !.spoll_usec_timeout = usec]
             \/ \E usec \in (TimeLimits \ {0}) \union {default_ppoll_usec_timeout} :
                  settings = [old EXCEPT !.ppoll_usec_timeout = usec]
             \/ \E b \in BOOLEAN : \/ settings = [old EXCEPT !.send_eoi = b]
                                   \/ settings = [old EXCEPT !.readdr = b]
             \/ \E f \in SUBSET {"REOS", "XEOS", "BIN"} : settings = [old EXCEPT !.eos_flags = f]
             \/ \E c \in -128 .. 127 : settings = [old EXCEPT !.eos = c]
      PROVE  IsStep
  <2>1. settings \in Setting /\ settings.pad = old.pad /\ settings.sad = old.sad
    BY <1>1, <1>2, OneField
  <2>2. QED
    BY <1>1, <1>2, <2>1, StoreStep
<1>3. CASE internal_ibtmo(ud, value)
  BY <1>1, <1>2, <1>3, Conversions, Refusals DEF internal_ibtmo, IsStep
<1>4. CASE set_spoll_timeout(ud, value)
  BY <1>1, <1>2, <1>4, Conversions, Refusals DEF set_spoll_timeout, IsStep
<1>5. CASE set_ppoll_timeout(ud, value)
  BY <1>1, <1>2, <1>5, Conversions, Refusals DEF set_ppoll_timeout, IsStep
<1>6. CASE Store(ud, option, value, [conf[ud] EXCEPT !.send_eoi = IsTrue(value)])
  BY <1>2, <1>6, BoolType
<1>7. CASE Store(ud, option, value, [conf[ud] EXCEPT !.readdr = value # 0])
  BY <1>2, <1>7
<1>8. CASE SetFlag(ud, option, value)
  <2> DEFINE flags == IF value # 0 THEN old.eos_flags \union {Flag(option)}
                                   ELSE old.eos_flags \ {Flag(option)}
  <2>1. Flag(option) \in {"REOS", "XEOS", "BIN"}
    BY <1>8 DEF SetFlag, Flag
  <2>2. old.eos_flags \subseteq {"REOS", "XEOS", "BIN"}
    BY <1>1 DEF Setting
  <2>3. flags \in SUBSET {"REOS", "XEOS", "BIN"}
    BY <2>1, <2>2
  <2>4. Store(ud, option, value, [old EXCEPT !.eos_flags = flags])
    BY <1>8 DEF SetFlag
  <2>5. QED
    BY <1>2, <2>3, <2>4
<1>9. CASE EOSchar(ud, value)
  BY <1>1, <1>2, <1>9, Conversions, Refusals DEF EOSchar, IsStep
<1>10. QED
  BY <1>3, <1>4, <1>5, <1>6, <1>7, <1>8, <1>9 DEF InDescriptor

(* An address option is refused for its value or goes to                      *)
(* gpibi_change_address, cut down to a byte.                                  *)
LEMMA AddressOption ==
  ASSUME NEW ud \in Descriptors, NEW option, NEW value \in Int, Address(ud, option, value)
  PROVE  IsStep
<1>1. CASE internal_ibpad(ud, value)
  <2>1. CASE Refuse(iberr_code.EARG) /\ Keep
    BY <2>1, Refusals DEF IsStep
  <2>2. CASE gpibi_change_address(ud, "PAD", value, UInt8(value))
    BY <2>2, Conversions DEF AddressStep, IsStep
  <2>3. QED
    BY <1>1, <2>1, <2>2 DEF internal_ibpad
<1>2. CASE internal_ibsad(ud, value)
  <2>1. CASE Refuse(iberr_code.EARG) /\ Keep
    BY <2>1, Refusals DEF IsStep
  <2>2. CASE gpibi_change_address(ud, "SAD", value, UInt8(value))
    BY <2>2, Conversions DEF AddressStep, IsStep
  <2>3. QED
    BY <1>2, <2>1, <2>2 DEF internal_ibsad
<1>3. QED
  BY <1>1, <1>2 DEF Address

(* An ioctl fails, or the board takes the setting.                           *)
LEMMA OnBoardStep ==
  ASSUME NEW option, NEW value, NEW record \in BoardRecord, OnBoard(option, value, record), Keep
  PROVE  IsStep
<1>1. CASE Refuse(iberr_code.EDVR)
  BY <1>1, Refusals DEF IsStep
<1>2. CASE board' = record /\ Accept("board", option, value) /\ UNCHANGED conf
  <2>1. BoardStep
    BY <1>2, Acceptance DEF BoardStep, Keep
  <2>2. QED
    BY <2>1 DEF IsStep
<1>3. QED
  BY <1>1, <1>2 DEF OnBoard

(* What ibconfig asks the board for.                                         *)
LEMMA BehindIoctlStep ==
  ASSUME TypeOK, NEW ud \in Descriptors, NEW option, NEW value \in Int,
         BehindIoctl(ud, option, value)
  PROVE  IsStep
<1>1. board \in BoardRecord /\ Keep
  BY DEF TypeOK, BehindIoctl
<1>2. CASE internal_ibppc(value)
  BY <1>1, <1>2, Refusals DEF internal_ibppc, IsStep
<1>3. CASE Refuse(iberr_code.ECAP)
  BY <1>1, <1>3, Refusals DEF IsStep
<1>4. CASE configure_autospoll(value)
  <2>1. CASE Accept("board", "AUTOPOLL", value) /\ UNCHANGED <<conf, board>>
    <3>1. BoardStep
      BY <1>1, <2>1, Acceptance DEF BoardStep, Keep
    <3>2. QED
      BY <3>1 DEF IsStep
  <2>2. CASE autospoll_ioctl(value)
    <3> DEFINE record == [board EXCEPT !.autoSpoll = @ - 1, !.m_autospoll = IsTrue(value)]
    <3>1. CASE board.autoSpoll <= 0
      BY <1>1, <2>2, <3>1, Refusals DEF autospoll_ioctl, IsStep
    <3>2. CASE ~(board.autoSpoll <= 0)
      <4>1. OnBoard("AUTOPOLL", value, record)
        BY <2>2, <3>2 DEF autospoll_ioctl
      <4>2. record \in BoardRecord
        <5>1. board.autoSpoll - 1 \in Nat
          BY <1>1, <3>2 DEF BoardRecord
        <5>2. IsTrue(value) \in BOOLEAN
          BY BoolType
        <5>3. QED
          BY <1>1, <5>1, <5>2 DEF BoardRecord
      <4> HIDE DEF record
      <4>3. QED
        BY <1>1, <4>1, <4>2, OnBoardStep
    <3>3. QED
      BY <3>1, <3>2
  <2>3. QED
    BY <1>4, <2>1, <2>2 DEF configure_autospoll
<1>5. CASE internal_ibrsc(value)
  <2> DEFINE record == [board EXCEPT !.master = IsTrue(value), !.cic = @ /\ IsTrue(value)]
  <2>1. record \in BoardRecord
    BY <1>1, BoolType DEF BoardRecord
  <2>2. OnBoard("SC", value, record)
    BY <1>5 DEF internal_ibrsc
  <2> HIDE DEF record
  <2>3. QED
    BY <1>1, <2>1, <2>2, OnBoardStep
<1>6. CASE internal_ibsre(value)
  <2>1. CASE Refuse(iberr_code.ESAC) \/ Refuse(iberr_code.EDVR)
    BY <1>1, <2>1, Refusals DEF IsStep
  <2>2. CASE OnBoard("SRE", value, board)
    BY <1>1, <2>2, OnBoardStep
  <2>3. QED
    BY <1>6, <2>1, <2>2 DEF internal_ibsre
<1>7. CASE set_t1_delay(value)
  <2>1. CASE value \notin DOMAIN t1_delays
    BY <1>1, <1>7, <2>1, Refusals DEF set_t1_delay, IsStep
  <2>2. CASE value \in DOMAIN t1_delays
    <3> DEFINE record == [board EXCEPT !.t1NanoNsec = t1_delays[value]]
    <3>1. t1_delays[value] \in Nat \ {0}
      BY <2>2 DEF t1_delays
    <3>2. record \in BoardRecord
      BY <1>1, <3>1 DEF BoardRecord
    <3>3. OnBoard("TIMING", value, record)
      BY <1>7, <2>2 DEF set_t1_delay
    <3> HIDE DEF record
    <3>4. QED
      BY <1>1, <3>2, <3>3, OnBoardStep
  <2>3. QED
    BY <2>1, <2>2
<1>8. CASE internal_ibist(value)
  <2>1. CASE Refuse(iberr_code.EDVR)
    BY <1>1, <2>1, Refusals DEF IsStep
  <2>2. CASE /\ Bit(board.ist) >= 0 /\ board' = [board EXCEPT !.ist = IsTrue(value)]
             /\ AcceptWith("board", "Ist", value, Bit(board.ist)) /\ UNCHANGED conf
    <3>1. board' \in BoardRecord
      BY <1>1, <2>2, BoolType DEF BoardRecord
    <3>2. Bit(board.ist) \in {0, 1}
      BY <2>2 DEF Bit
    <3>3. Bit(board.ist) = iberr_code.EDVR \/ Bit(board.ist) = iberr_code.ECIC
      BY <3>2, Codes
    <3>4. Accepts
      BY <2>2, <3>3, Codes DEF AcceptWith, Accepts
    <3>5. QED
      BY <1>1, <2>2, <3>1, <3>4 DEF BoardStep, IsStep, Keep
  <2>3. QED
    BY <1>8, <2>1, <2>2 DEF internal_ibist
<1>9. CASE internal_ibrsv(value)
  <2>1. CASE Refuse(iberr_code.EDVR)
    BY <1>1, <2>1, Refusals DEF IsStep
  <2>2. CASE OnBoard("Rsv", value, board)
    BY <1>1, <2>2, OnBoardStep
  <2>3. QED
    BY <1>9, <2>1, <2>2 DEF internal_ibrsv
<1>10. QED
  BY <1>2, <1>3, <1>4, <1>5, <1>6, <1>7, <1>8, <1>9 DEF BehindIoctl

(* Every call of ibconfig is one of the four kinds of steps.                  *)
LEMMA ConfigStep ==
  ASSUME TypeOK, NEW ud \in Descriptors, NEW option \in ibconfig_option,
         NEW value \in Values[option], ibconfig(ud, option, value)
  PROVE  IsStep /\ calls' = calls + 1 /\ calls' \in 0 .. MaxCalls
<1>1. value \in Int
  BY SettingsAssumption
<1>2. calls' = calls + 1 /\ calls' \in 0 .. MaxCalls
  BY SettingsAssumption DEF ibconfig, TypeOK
<1>3. ASSUME Applies(ud, option) PROVE IsStep
  <2>1. CASE Pretended(ud, option, value)
    BY <2>1, PretendedStep
  <2>2. CASE InDescriptor(ud, option, value)
    BY <1>1, <2>2, InDescriptorStep
  <2>3. CASE Address(ud, option, value)
    BY <1>1, <2>3, AddressOption
  <2>4. CASE BehindIoctl(ud, option, value)
    BY <1>1, <2>4, BehindIoctlStep
  <2>5. QED
    BY <1>3, <2>1, <2>2, <2>3, <2>4 DEF ibconfig
<1>4. ASSUME ~Applies(ud, option) PROVE IsStep
  BY <1>4, Refusals DEF ibconfig, IsStep
<1>5. QED
  BY <1>2, <1>3, <1>4

-----------------------------------------------------------------------------
(* The inductive invariant.                                                   *)
IInv == TypeOK /\ AddressAgrees

(* The settings before the first call.                                        *)
LEMMA InitInv == Init => IInv
<1>1. SUFFICES ASSUME Init PROVE IInv
  OBVIOUS
<1>2. ASSUME NEW pad \in 0 .. 255 PROVE Settings(pad) \in Setting
  <2>1. 3000000 \in TimeLimits /\ 1000000 \in TimeLimits
    <3>1. gpib_timeout[12] = 3000000 /\ gpib_timeout[11] = 1000000
      BY DEF gpib_timeout
    <3>2. 12 \in 1 .. T1000s /\ 11 \in 1 .. T1000s
      BY DEF T1000s
    <3>3. QED
      BY <3>1, <3>2 DEF TimeLimits
  <2>2. TRUE \in BOOLEAN /\ FALSE \in BOOLEAN /\ {} \in SUBSET {"REOS", "XEOS", "BIN"}
    OBVIOUS
  <2> DEFINE Limits == TimeLimits
             PollLimits == (TimeLimits \ {0}) \union {default_ppoll_usec_timeout}
             Flags == SUBSET {"REOS", "XEOS", "BIN"}
  <2>3. default_ppoll_usec_timeout \in PollLimits /\ {} \in Flags
    OBVIOUS
  <2>4. Setting = [pad : 0 .. 255, sad : -1 .. gpib_addr_max, usec_timeout : Limits,
                   spoll_usec_timeout : Limits, ppoll_usec_timeout : PollLimits,
                   eos : -128 .. 127, eos_flags : Flags, send_eoi : BOOLEAN,
                   readdr : BOOLEAN]
    BY DEF Setting
  <2>5. 3000000 \in Limits /\ 1000000 \in Limits
    BY <2>1
  <2> HIDE DEF Limits, PollLimits, Flags
  <2>6. QED
    BY <1>2, <2>2, <2>3, <2>4, <2>5 DEF Settings, gpib_addr_max
<1>3. conf \in [Descriptors -> Setting]
  <2>1. \A ud \in Descriptors : (IF IsInterface(ud) THEN 0 ELSE 1) \in 0 .. 255
    OBVIOUS
  <2>2. QED
    BY <1>1, <1>2, <2>1 DEF Init
<1>4. board \in BoardRecord
  BY <1>1 DEF Init, BoardRecord, gpib_addr_max
<1>5. entry \in [pad : 0 .. 255, sad : -1 .. gpib_addr_max]
  BY <1>1 DEF Init, gpib_addr_max
<1>6. halfway \in BOOLEAN /\ calls \in 0 .. MaxCalls
  <2>1. halfway \in BOOLEAN
    BY <1>1 DEF Init
  <2>2. calls = 0
    BY <1>1 DEF Init
  <2>3. MaxCalls \in Nat
    BY SettingsAssumption
  <2>4. QED
    BY <2>1, <2>2, <2>3
<1>7. \E name \in DOMAIN iberr_code : reply.iberr = iberr_code[name]
  BY <1>1, Codes DEF Init, Configured
<1>8. AddressAgrees
  BY <1>1 DEF Init, AddressAgrees, Settings, IsInterface, Descriptors
<1>9. QED
  BY <1>3, <1>4, <1>5, <1>6, <1>7, <1>8 DEF IInv, TypeOK

(* What is said of the reply of a call of ibconfig.                           *)
RepliedOK == reply'.call = "config" => \E name \in DOMAIN iberr_code : reply'.iberr = iberr_code[name]

(* The two kinds of replies give one of the reasons.                          *)
LEMMA Replies ==
  /\ \A name \in DOMAIN iberr_code : Refuse(iberr_code[name]) => RepliedOK
  /\ Accepts => RepliedOK
BY DEF Refuse, Accepts, Configured, RepliedOK

(* A refused call.                                                            *)
LEMMA RefusedInv ==
  ASSUME IInv, RefusedStep, calls' \in 0 .. MaxCalls
  PROVE  IInv'
<1>1. RepliedOK
  BY Replies DEF RefusedStep
<1>2. UNCHANGED <<conf, board, entry, halfway>>
  BY DEF RefusedStep, Refuse
<1>3. QED
  BY <1>1, <1>2 DEF IInv, TypeOK, AddressAgrees, RepliedOK

(* A setting of a descriptor: its address stays, so the entry still agrees.   *)
LEMMA StoredInv ==
  ASSUME IInv, StoredStep, calls' \in 0 .. MaxCalls
  PROVE  IInv'
<1>1. RepliedOK
  BY Replies DEF StoredStep
<1>2. PICK ud \in Descriptors, settings \in Setting :
        /\ settings.pad = conf[ud].pad /\ settings.sad = conf[ud].sad
        /\ conf' = [conf EXCEPT ![ud] = settings]
  BY DEF StoredStep
<1>3. conf' \in [Descriptors -> Setting]
  BY <1>2 DEF IInv, TypeOK
<1>4. UNCHANGED <<board, entry, halfway>>
  BY DEF StoredStep
<1>5. conf'["device"].pad = conf["device"].pad /\ conf'["device"].sad = conf["device"].sad
  BY <1>2 DEF IInv, TypeOK, Descriptors
<1>6. QED
  BY <1>1, <1>3, <1>4, <1>5 DEF IInv, TypeOK, AddressAgrees, RepliedOK

(* A setting of the board.                                                    *)
LEMMA BoardInv ==
  ASSUME IInv, BoardStep, calls' \in 0 .. MaxCalls
  PROVE  IInv'
<1>1. RepliedOK
  BY Replies DEF BoardStep
<1>2. QED
  BY <1>1 DEF BoardStep, IInv, TypeOK, AddressAgrees, RepliedOK

(* An address, changed in the descriptor and in the table of open devices, or *)
(* in the table only.                                                         *)
LEMMA AddressInv ==
  ASSUME IInv, AddressStep, calls' \in 0 .. MaxCalls
  PROVE  IInv'
<1>1. PICK ud \in Descriptors, option \in {"PAD", "SAD"}, value \in Int, pad \in 0 .. 255 :
        gpibi_change_address(ud, option, value, pad)
  BY DEF AddressStep
<1> DEFINE sad == conf[ud].sad
<1>2. sad \in -1 .. gpib_addr_max /\ conf[ud] \in Setting
  BY DEF IInv, TypeOK, Setting
<1>3. CASE Refuse(iberr_code.EDVR) /\ Keep
  <2>1. RefusedStep
    BY <1>3, Refusals
  <2>2. QED
    BY <2>1, RefusedInv
<1>4. CASE /\ Refuse(iberr_code.EDVR)
           /\ ~IsInterface(ud)
           /\ entry' = [entry EXCEPT !.pad = pad]
           /\ halfway' = TRUE
  <2>1. RepliedOK
    BY <1>4, Codes, Replies
  <2>2. UNCHANGED <<conf, board>>
    BY <1>4 DEF Refuse
  <2>3. entry' \in [pad : 0 .. 255, sad : -1 .. gpib_addr_max]
    BY <1>4 DEF IInv, TypeOK
  <2>4. QED
    BY <1>4, <2>1, <2>2, <2>3 DEF IInv, TypeOK, AddressAgrees, RepliedOK
<1>5. CASE /\ conf' = [conf EXCEPT ![ud].pad = pad, ![ud].sad = sad]
           /\ Accept(ud, option, value)
           /\ board' = IF IsInterface(ud) THEN [board EXCEPT !.sad = sad] ELSE board
           /\ entry' = IF IsInterface(ud) THEN entry ELSE [pad |-> pad, sad |-> sad]
           /\ halfway' = (IsInterface(ud) /\ halfway)
  <2>1. RepliedOK
    BY <1>5, Acceptance, Replies
  <2>2. DEFINE settings == [conf[ud] EXCEPT !.pad = pad, !.sad = sad]
  <2>3. settings \in Setting /\ settings.pad = pad /\ settings.sad = sad
    <3> DEFINE Limits == TimeLimits
               PollLimits == (TimeLimits \ {0}) \union {default_ppoll_usec_timeout}
               Flags == SUBSET {"REOS", "XEOS", "BIN"}
               Pads == 0 .. 255
               Sads == -1 .. gpib_addr_max
    <3>1. Setting = [pad : Pads, sad : Sads, usec_timeout : Limits,
                     spoll_usec_timeout : Limits, ppoll_usec_timeout : PollLimits,
                     eos : -128 .. 127, eos_flags : Flags, send_eoi : BOOLEAN,
                     readdr : BOOLEAN]
      BY DEF Setting
    <3>2. pad \in Pads /\ sad \in Sads /\ conf[ud] \in Setting
      BY <1>2
    <3> HIDE DEF Limits, PollLimits, Flags, Pads, Sads
    <3>3. QED
      BY <3>1, <3>2
  <2>4. conf' = [conf EXCEPT ![ud] = settings]
    BY <1>5 DEF IInv, TypeOK
  <2> HIDE DEF settings
  <2>5. conf' \in [Descriptors -> Setting] /\ conf'[ud] = settings
        /\ \A other \in Descriptors \ {ud} : conf'[other] = conf[other]
    BY <2>3, <2>4 DEF IInv, TypeOK
  <2>6. board' \in BoardRecord
    BY <1>2, <1>5 DEF IInv, TypeOK, BoardRecord
  <2>7. CASE IsInterface(ud)
    <3>1. entry' = entry /\ (halfway' <=> halfway) /\ conf'["device"] = conf["device"]
      BY <1>5, <2>5, <2>7 DEF IsInterface, Descriptors
    <3>2. halfway' \in BOOLEAN
      BY <1>5
    <3>3. QED
      BY <2>1, <2>5, <2>6, <3>1, <3>2 DEF IInv, TypeOK, AddressAgrees, RepliedOK
  <2>8. CASE ~IsInterface(ud)
    <3>1. ud = "device" /\ entry' = [pad |-> pad, sad |-> sad] /\ halfway' = FALSE
      BY <1>5, <2>8 DEF IsInterface, Descriptors
    <3>2. entry' \in [pad : 0 .. 255, sad : -1 .. gpib_addr_max]
      BY <1>2, <3>1
    <3>3. QED
      BY <2>1, <2>3, <2>5, <2>6, <3>1, <3>2 DEF IInv, TypeOK, AddressAgrees, RepliedOK
  <2>9. QED
    BY <2>7, <2>8
<1>6. QED
  BY <1>1, <1>3, <1>4, <1>5 DEF gpibi_change_address

(* A question keeps every setting of the device; the board's address may be    *)
(* noted in the board's descriptor.                                           *)
LEMMA AskInv ==
  ASSUME IInv, NEW ud \in Descriptors, NEW option \in ibask_option, ibask(ud, option)
  PROVE  IInv'
<1>1. UNCHANGED <<board, entry, halfway, calls>>
  BY DEF ibask
<1>2. CASE UNCHANGED conf /\ reply'.call = "ask"
  BY <1>1, <1>2 DEF IInv, TypeOK, AddressAgrees
<1>3. CASE Applies(ud, option) /\ AskAddress(ud, option)
  <2>1. CASE NoAnswer(ud, option) /\ UNCHANGED conf
    BY <1>2, <2>1 DEF NoAnswer, Asked
  <2>2. CASE LET settings == IF option = "PAD" THEN [conf[ud] EXCEPT !.pad = board.pad]
                                               ELSE [conf[ud] EXCEPT !.sad = board.sad]
             IN  /\ conf' = [conf EXCEPT ![ud] = settings]
                 /\ Answer(ud, option, FromDescriptor(settings)[option])
    <3> DEFINE settings == IF option = "PAD" THEN [conf[ud] EXCEPT !.pad = board.pad]
                                             ELSE [conf[ud] EXCEPT !.sad = board.sad]
               Limits == TimeLimits
               PollLimits == (TimeLimits \ {0}) \union {default_ppoll_usec_timeout}
               Flags == SUBSET {"REOS", "XEOS", "BIN"}
               Pads == 0 .. 255
               Sads == -1 .. gpib_addr_max
    <3>1. Setting = [pad : Pads, sad : Sads, usec_timeout : Limits,
                     spoll_usec_timeout : Limits, ppoll_usec_timeout : PollLimits,
                     eos : -128 .. 127, eos_flags : Flags, send_eoi : BOOLEAN,
                     readdr : BOOLEAN]
      BY DEF Setting
    <3>2. board.pad \in Pads /\ board.sad \in Sads /\ conf[ud] \in Setting
      BY DEF IInv, TypeOK, BoardRecord, gpib_addr_max
    <3>3. conf' = [conf EXCEPT ![ud] = settings] /\ reply'.call = "ask" /\ ud = "board"
      BY <1>3, <2>2 DEF Answer, Asked, AskAddress, IsInterface
    <3> HIDE DEF Limits, PollLimits, Flags, Pads, Sads
    <3>4. settings \in Setting
      <4>1. [conf[ud] EXCEPT !.pad = board.pad] \in Setting
        BY <3>1, <3>2
      <4>2. [conf[ud] EXCEPT !.sad = board.sad] \in Setting
        BY <3>1, <3>2
      <4>3. QED
        BY <4>1, <4>2
    <3> HIDE DEF settings
    <3>5. conf' \in [Descriptors -> Setting] /\ conf'["device"] = conf["device"]
      BY <3>3, <3>4 DEF IInv, TypeOK, Descriptors
    <3>6. QED
      BY <1>1, <3>3, <3>5 DEF IInv, TypeOK, AddressAgrees
  <2>3. QED
    BY <1>3, <2>1, <2>2 DEF AskAddress
<1>4. CASE Applies(ud, option) /\ AskDescriptor(ud, option)
  BY <1>2, <1>4 DEF AskDescriptor, Answer, Asked
<1>5. CASE Applies(ud, option) /\ AskBoard(ud, option)
  BY <1>2, <1>5 DEF AskBoard, Answer, NoAnswer, Asked
<1>6. CASE NoAnswer(ud, option) /\ UNCHANGED conf
  BY <1>2, <1>6 DEF NoAnswer, Asked
<1>7. QED
  BY <1>3, <1>4, <1>5, <1>6 DEF ibask

(* Every step keeps the invariant.                                            *)
LEMMA NextInv == IInv /\ [Next]_vars => IInv'
<1>1. SUFFICES ASSUME IInv, [Next]_vars PROVE IInv'
  OBVIOUS
<1>2. CASE UNCHANGED vars
  BY <1>1, <1>2 DEF vars, IInv, TypeOK, AddressAgrees
<1>3. ASSUME NEW ud \in Descriptors, NEW option \in ibconfig_option,
             NEW value \in Values[option], ibconfig(ud, option, value)
      PROVE  IInv'
  <2>1. IsStep /\ calls' \in 0 .. MaxCalls
    BY <1>1, <1>3, ConfigStep DEF IInv
  <2>2. QED
    BY <1>1, <2>1, RefusedInv, StoredInv, BoardInv, AddressInv DEF IsStep
<1>4. ASSUME NEW ud \in Descriptors, NEW option \in ibask_option, ibask(ud, option)
      PROVE  IInv'
  BY <1>1, <1>4, AskInv
<1>5. QED
  BY <1>1, <1>2, <1>3, <1>4 DEF Next

(* The settings keep their types, and the table of open devices keeps the      *)
(* device's address.                                                          *)
THEOREM SettingsInvariance == Spec => []IInv
<1>1. QED
  BY InitInv, NextInv, PTL DEF Spec

(* No setting leaves its range, whatever values ibconfig is called with.       *)
THEOREM SettingsTypeCorrect == Spec => []TypeOK
<1>1. IInv => TypeOK
  BY DEF IInv
<1>2. QED
  BY <1>1, SettingsInvariance, PTL

(* The descriptor and the table of open devices agree on the device's address, *)
(* but after an address change that failed half way.                          *)
THEOREM OneAddress == Spec => []AddressAgrees
<1>1. IInv => AddressAgrees
  BY DEF IInv
<1>2. QED
  BY <1>1, SettingsInvariance, PTL

(* One call that is refused.                                                  *)
LEMMA RefusedKeeps ==
  ASSUME IInv, Next, calls' # calls, ~reply'.good
  PROVE  conf' = conf /\ board' = board /\ (halfway' \/ entry' = entry)
<1>1. PICK ud \in Descriptors, option \in ibconfig_option :
        \E value \in Values[option] : ibconfig(ud, option, value)
  BY DEF Next, ibask
<1>2. IsStep
  BY <1>1, ConfigStep DEF IInv
<1>3. CASE RefusedStep
  BY <1>3 DEF RefusedStep, Refuse
<1>4. ~Accepts
  BY DEF Accepts, Configured
<1>5. CASE AddressStep
  <2>1. PICK u \in Descriptors, o \in {"PAD", "SAD"}, value \in Int, pad \in 0 .. 255 :
          gpibi_change_address(u, o, value, pad)
    BY <1>5 DEF AddressStep
  <2>2. ~Accept(u, o, value)
    BY <1>4, Acceptance
  <2>3. QED
    BY <2>1, <2>2 DEF gpibi_change_address, Refuse, Keep
<1>6. QED
  BY <1>2, <1>3, <1>4, <1>5 DEF IsStep, StoredStep, BoardStep

(* A call of ibconfig that is refused leaves every setting as it was, but for   *)
(* the device's entry when its address change fails half way.                 *)
THEOREM RefusalHasNoEffect == Spec => RefusedChangesNothing
<1>1. IInv /\ [Next]_vars =>
        [calls' # calls /\ ~reply'.good =>
           conf' = conf /\ board' = board /\ (halfway' \/ entry' = entry)]_vars
  BY RefusedKeeps DEF vars
<1>2. QED
  BY <1>1, SettingsInvariance, PTL DEF Spec, RefusedChangesNothing

-----------------------------------------------------------------------------
(* What ibconfig has accepted, and what is kept of it.  AcceptedIsAnswered    *)
(* is about the last reply only; the invariant behind it relates every value *)
(* accepted so far, said, to the settings s of its descriptor ...             *)
KeptIn(s, option, value) ==
  /\ option = "TMO" => IsTimeout(value) /\ s.usec_timeout = timeout_to_usec(value)
  /\ option = "SPollTime" =>
       IsTimeout(value) /\ s.spoll_usec_timeout = timeout_to_usec(value)
  /\ option = "PPollTime" =>
       IsTimeout(value) /\ s.ppoll_usec_timeout = ppoll_timeout_to_usec(value)
  /\ option = "EOT" => (s.send_eoi <=> IsTrue(value))
  /\ option = "READDR" => (s.readdr <=> value # 0)
  /\ option \in {"EOSrd", "EOSwrt", "EOScmp"} => (Flag(option) \in s.eos_flags <=> value # 0)
  /\ option = "EOSchar" => value \in 0 .. 255 /\ s.eos = SignedChar(value)
  /\ option = "PAD" => s.pad = UInt8(value)

InSettings(ud, said, s) ==
  \A option \in DOMAIN said :
    \/ option = "PAD" /\ (IsInterface(ud) \/ "SAD" \in DOMAIN said)
    \/ KeptIn(s, option, said[option])

(* ... to the board's record b ...                                           *)
KeptOn(b, option, value) ==
  /\ option = "AUTOPOLL" => ~IsTrue(value)
  /\ option = "SC" => (b.master <=> IsTrue(value))
  /\ option = "TIMING" => value \in DOMAIN t1_delays /\ b.t1NanoNsec = t1_delays[value]
  /\ option = "Ist" => (b.ist <=> IsTrue(value))

InBoard(said, b) ==
  /\ b.autoSpoll = 0 /\ b.m_autospoll = FALSE
  /\ \A option \in DOMAIN said : KeptOn(b, option, said[option])

(* ... or to the constant that is answered.                                  *)
AsPretended(said) ==
  /\ DOMAIN said \subseteq ibconfig_option \ {"PPC", "PP2"}
  /\ \A option \in DOMAIN said : said[option] \in Int
  /\ \A option \in OnlyZero : option \in DOMAIN said => said[option] = 0
  /\ \A option \in OnlyNonzero : option \in DOMAIN said => said[option] # 0

Remembered ==
  /\ DOMAIN accepted = Descriptors
  /\ \A ud \in Descriptors :
       InSettings(ud, accepted[ud], conf[ud]) /\ AsPretended(accepted[ud])
  /\ InBoard(accepted["board"], board)

KInv == IInv /\ Remembered /\ AcceptedIsAnswered

(* What has been accepted, once one more value has.                          *)
Say(said, option, value) ==
  [o \in DOMAIN said \union {option} |-> IF o = option THEN value ELSE said[o]]

(* The options with a field of their own in the descriptor, or on the board. *)
DescriptorOptions == {"TMO", "SPollTime", "PPollTime", "EOT", "READDR", "EOSrd", "EOSwrt",
                      "EOScmp", "EOSchar", "PAD"}
BoardOptions == {"AUTOPOLL", "SC", "TIMING", "Ist"}

(* A new value: its own option is kept in the new settings, and so is every   *)
(* other that was.                                                           *)
LEMMA SaySettings ==
  ASSUME NEW ud, NEW said, NEW s, NEW t, InSettings(ud, said, s), NEW option, NEW value,
         KeptIn(t, option, value),
         \A o \in DOMAIN said : o # option /\ KeptIn(s, o, said[o]) => KeptIn(t, o, said[o])
  PROVE  InSettings(ud, Say(said, option, value), t)
<1> DEFINE new == Say(said, option, value)
<1>1. DOMAIN new = DOMAIN said \union {option} /\ new[option] = value
      /\ \A o \in DOMAIN said : o # option => new[o] = said[o]
  BY DEF Say
<1> HIDE DEF new
<1>2. InSettings(ud, new, t)
  BY <1>1 DEF InSettings
<1>3. QED
  BY <1>2 DEF new

(* The same of the board's record. *)
LEMMA SayBoard ==
  ASSUME NEW said, NEW b, NEW c, InBoard(said, b), NEW option, NEW value,
         KeptOn(c, option, value), c.autoSpoll = 0, c.m_autospoll = FALSE,
         \A o \in DOMAIN said : o # option /\ KeptOn(b, o, said[o]) => KeptOn(c, o, said[o])
  PROVE  InBoard(Say(said, option, value), c)
<1> DEFINE new == Say(said, option, value)
<1>1. DOMAIN new = DOMAIN said \union {option} /\ new[option] = value
      /\ \A o \in DOMAIN said : o # option => new[o] = said[o]
  BY DEF Say
<1> HIDE DEF new
<1>2. InBoard(new, c)
  BY <1>1 DEF InBoard
<1>3. QED
  BY <1>2 DEF new

(* A value for another kind of option leaves what is said of a kind.          *)
LEMMA SayElsewhere ==
  ASSUME NEW ud, NEW said, NEW option, NEW value, NEW s, NEW b
  PROVE  /\ InSettings(ud, said, s) /\ option \notin DescriptorOptions =>
              InSettings(ud, Say(said, option, value), s)
         /\ InBoard(said, b) /\ option \notin BoardOptions =>
              InBoard(Say(said, option, value), b)
<1>1. option \notin DescriptorOptions => KeptIn(s, option, value)
  BY DEF DescriptorOptions, KeptIn
<1>2. option \notin BoardOptions => KeptOn(b, option, value)
  BY DEF BoardOptions, KeptOn
<1>3. InBoard(said, b) => b.autoSpoll = 0 /\ b.m_autospoll = FALSE
  BY DEF InBoard
<1>4. QED
  BY <1>1, <1>2, <1>3, SaySettings, SayBoard

(* A value that is allowed for an option that is only pretended.              *)
LEMMA SayPretended ==
  ASSUME NEW said, AsPretended(said), NEW option \in ibconfig_option \ {"PPC", "PP2"},
         NEW value \in Int,
         option \in OnlyZero => value = 0, option \in OnlyNonzero => value # 0
  PROVE  AsPretended(Say(said, option, value))
<1> DEFINE new == Say(said, option, value)
<1>1. DOMAIN new = DOMAIN said \union {option} /\ new[option] = value
      /\ \A o \in DOMAIN said : o # option => new[o] = said[o]
  BY DEF Say
<1> HIDE DEF new
<1>2. AsPretended(new)
  BY <1>1 DEF AsPretended
<1>3. QED
  BY <1>2 DEF new

(* A call that is accepted, from the parts it has changed.                   *)
LEMMA Accepted ==
  ASSUME Remembered, NEW ud \in Descriptors, NEW option \in ibconfig_option \ {"PPC", "PP2"},
         NEW value \in Int, NEW iberr, AcceptWith(ud, option, value, iberr),
         option \in OnlyZero => value = 0, option \in OnlyNonzero => value # 0,
         InSettings(ud, Say(accepted[ud], option, value), conf'[ud]),
         \A other \in Descriptors : other # ud => conf'[other] = conf[other],
         InBoard(IF ud = "board" THEN Say(accepted["board"], option, value)
                                 ELSE accepted["board"], board')
  PROVE  Remembered' /\ AcceptedIsAnswered'
<1> DEFINE new == Say(accepted[ud], option, value)
<1>1. accepted' = [accepted EXCEPT ![ud] = new]
  BY DEF AcceptWith, Say
<1>2. DOMAIN accepted = Descriptors /\ "board" \in Descriptors
  BY DEF Remembered, Descriptors
<1>3. AsPretended(new)
  BY SayPretended DEF Remembered
<1> HIDE DEF new
<1>4. /\ DOMAIN accepted' = Descriptors /\ accepted'[ud] = new
      /\ \A other \in Descriptors : other # ud => accepted'[other] = accepted[other]
  BY <1>1, <1>2
<1>5. InBoard(accepted'["board"], board')
  <2>1. CASE ud = "board"
    BY <1>4, <2>1 DEF new
  <2>2. CASE ud # "board"
    BY <1>2, <1>4, <2>2
  <2>3. QED
    BY <2>1, <2>2
<1>6. InSettings(ud, new, conf'[ud])
  BY DEF new
<1>7. ASSUME NEW other \in Descriptors
      PROVE  InSettings(other, accepted'[other], conf'[other]) /\ AsPretended(accepted'[other])
  <2>1. CASE other = ud
    BY <1>3, <1>4, <1>6, <2>1
  <2>2. CASE other # ud
    BY <1>4, <2>2 DEF Remembered
  <2>3. QED
    BY <2>1, <2>2
<1>8. Remembered'
  BY <1>4, <1>5, <1>7 DEF Remembered
<1>9. reply'.call # "ask"
  BY DEF AcceptWith, Configured
<1>10. QED
  BY <1>8, <1>9 DEF AcceptedIsAnswered

(* A call that is refused says nothing new. *)
LEMMA Unsaid ==
  ASSUME Remembered, NEW code, Refuse(code)
  PROVE  Remembered' /\ AcceptedIsAnswered'
<1>1. UNCHANGED <<conf, board, accepted>> /\ reply'.call # "ask"
  BY DEF Refuse, Configured
<1>2. QED
  BY <1>1 DEF Remembered, AcceptedIsAnswered

(* What is remembered of one descriptor and of the board.                    *)
LEMMA RememberedOf ==
  ASSUME Remembered, NEW ud \in Descriptors
  PROVE  /\ InSettings(ud, accepted[ud], conf[ud]) /\ AsPretended(accepted[ud])
         /\ InBoard(accepted["board"], board)
  BY DEF Remembered

-----------------------------------------------------------------------------
(* An option that is only pretended. *)
LEMMA PretendedSaid ==
  ASSUME Remembered, NEW ud \in Descriptors, NEW option, NEW value \in Int,
         Pretended(ud, option, value)
  PROVE  Remembered' /\ AcceptedIsAnswered'
<1>1. CASE Refuse(iberr_code.ECAP)
  BY <1>1, Unsaid
<1>2. CASE /\ (option \in OnlyZero) = (value = 0)
           /\ Accept(ud, option, value) /\ UNCHANGED <<conf, board>>
  <2>1. /\ option \in ibconfig_option \ {"PPC", "PP2"}
        /\ option \notin DescriptorOptions /\ option \notin BoardOptions
        /\ option \in OnlyNonzero => option \notin OnlyZero
    BY DEF Pretended, OnlyZero, OnlyNonzero, ibconfig_option, Common, BoardOnly, DeviceOnly,
           DescriptorOptions, BoardOptions
  <2>2. (option \in OnlyZero => value = 0) /\ (option \in OnlyNonzero => value # 0)
    BY <1>2, <2>1
  <2>3. InSettings(ud, Say(accepted[ud], option, value), conf[ud])
    BY <2>1, RememberedOf, SayElsewhere
  <2>4. InBoard(accepted["board"], board)
        /\ InBoard(Say(accepted["board"], option, value), board)
    BY <2>1, RememberedOf, SayElsewhere
  <2>5. QED
    BY <1>2, <2>1, <2>2, <2>3, <2>4, Accepted DEF Accept
<1>3. QED
  BY <1>1, <1>2 DEF Pretended

(* An option of the descriptor, stored in the field where it is looked for.  *)
LEMMA StoredSaid ==
  ASSUME Remembered, TypeOK, NEW ud \in Descriptors,
         NEW option \in DescriptorOptions \ {"PAD"}, NEW value \in Int, NEW settings,
         Store(ud, option, value, settings),
         InSettings(ud, Say(accepted[ud], option, value), settings)
  PROVE  Remembered' /\ AcceptedIsAnswered'
<1>1. /\ option \in ibconfig_option \ {"PPC", "PP2"}
      /\ option \notin OnlyZero /\ option \notin OnlyNonzero /\ option \notin BoardOptions
  BY DEF OnlyZero, OnlyNonzero, ibconfig_option, Common, BoardOnly, DeviceOnly,
         DescriptorOptions, BoardOptions
<1>2. conf' = [conf EXCEPT ![ud] = settings] /\ UNCHANGED board
      /\ AcceptWith(ud, option, value, iberr_code.EDVR)
  BY DEF Store, Accept
<1>3. conf'[ud] = settings
      /\ \A other \in Descriptors : other # ud => conf'[other] = conf[other]
  BY <1>2 DEF TypeOK
<1>4. InBoard(accepted["board"], board)
      /\ InBoard(Say(accepted["board"], option, value), board)
  BY <1>1, RememberedOf, SayElsewhere
<1>5. QED
  BY <1>1, <1>2, <1>3, <1>4, Accepted

(* Another value for one field leaves what is kept in the others.            *)
LEMMA OtherFields ==
  ASSUME NEW s \in Setting, NEW x, NEW option, NEW value, KeptIn(s, option, value)
  PROVE  /\ option # "TMO" => KeptIn([s EXCEPT !.usec_timeout = x], option, value)
         /\ option # "SPollTime" => KeptIn([s EXCEPT !.spoll_usec_timeout = x], option, value)
         /\ option # "PPollTime" => KeptIn([s EXCEPT !.ppoll_usec_timeout = x], option, value)
         /\ option # "EOT" => KeptIn([s EXCEPT !.send_eoi = x], option, value)
         /\ option # "READDR" => KeptIn([s EXCEPT !.readdr = x], option, value)
         /\ option # "EOSchar" => KeptIn([s EXCEPT !.eos = x], option, value)
<1>1. option # "TMO" => KeptIn([s EXCEPT !.usec_timeout = x], option, value)
  BY DEF KeptIn, Setting
<1>2. option # "SPollTime" => KeptIn([s EXCEPT !.spoll_usec_timeout = x], option, value)
  BY DEF KeptIn, Setting
<1>3. option # "PPollTime" => KeptIn([s EXCEPT !.ppoll_usec_timeout = x], option, value)
  BY DEF KeptIn, Setting
<1>4. option # "EOT" => KeptIn([s EXCEPT !.send_eoi = x], option, value)
  BY DEF KeptIn, Setting
<1>5. option # "READDR" => KeptIn([s EXCEPT !.readdr = x], option, value)
  BY DEF KeptIn, Setting
<1>6. option # "EOSchar" => KeptIn([s EXCEPT !.eos = x], option, value)
  BY DEF KeptIn, Setting
<1>7. QED
  BY <1>1, <1>2, <1>3, <1>4, <1>5, <1>6

(* The three flags of eos_flags do not touch one another.                    *)
LEMMA OtherFlags ==
  ASSUME NEW s \in Setting, NEW new, NEW option \in {"EOSrd", "EOSwrt", "EOScmp"},
         NEW value \in Int,
         new = [s EXCEPT !.eos_flags = IF value # 0 THEN @ \union {Flag(option)}
                                                    ELSE @ \ {Flag(option)}]
  PROVE  /\ KeptIn(new, option, value)
         /\ \A o, v : o # option /\ KeptIn(s, o, v) => KeptIn(new, o, v)
<1> DEFINE flags == IF value # 0 THEN s.eos_flags \union {Flag(option)}
                                 ELSE s.eos_flags \ {Flag(option)}
<1>1. Flag(option) \in flags <=> value # 0
  OBVIOUS
<1>2. \A o \in {"EOSrd", "EOSwrt", "EOScmp"} :
        o # option => (Flag(o) \in flags <=> Flag(o) \in s.eos_flags)
  BY DEF Flag
<1>3. new = [s EXCEPT !.eos_flags = flags]
  OBVIOUS
<1> HIDE DEF flags
<1>4. /\ new.eos_flags = flags /\ new.usec_timeout = s.usec_timeout
      /\ new.spoll_usec_timeout = s.spoll_usec_timeout
      /\ new.ppoll_usec_timeout = s.ppoll_usec_timeout
      /\ new.send_eoi = s.send_eoi /\ new.readdr = s.readdr /\ new.eos = s.eos
      /\ new.pad = s.pad
  BY <1>3 DEF Setting
<1>5. KeptIn(new, option, value)
  BY <1>1, <1>4 DEF KeptIn
<1>6. ASSUME NEW o, NEW v, o # option, KeptIn(s, o, v) PROVE KeptIn(new, o, v)
  BY <1>2, <1>4, <1>6 DEF KeptIn
<1>7. QED
  BY <1>5, <1>6

(* A new value in a field of its own.                                        *)
LEMMA OwnField ==
  ASSUME Remembered, TypeOK, NEW ud \in Descriptors,
         NEW option \in DescriptorOptions \ {"PAD"}, NEW value \in Int, NEW new,
         Store(ud, option, value, new), KeptIn(new, option, value),
         \A o, v : o # option /\ KeptIn(conf[ud], o, v) => KeptIn(new, o, v)
  PROVE  Remembered' /\ AcceptedIsAnswered'
<1>1. InSettings(ud, accepted[ud], conf[ud])
  BY RememberedOf
<1>2. InSettings(ud, Say(accepted[ud], option, value), new)
  BY <1>1, SaySettings
<1>3. QED
  BY <1>2, StoredSaid

(* The options of the descriptor, one by one.                                *)
LEMMA InDescriptorSaid ==
  ASSUME Remembered, TypeOK, NEW ud \in Descriptors, NEW option, NEW value \in Int,
         InDescriptor(ud, option, value)
  PROVE  Remembered' /\ AcceptedIsAnswered'
<1> DEFINE s == conf[ud]
<1>s. s \in Setting
  BY DEF TypeOK
<1>r. ASSUME NEW code, Refuse(code) PROVE Remembered' /\ AcceptedIsAnswered'
  BY <1>r, Unsaid
<1>1. CASE option = "TMO" /\ internal_ibtmo(ud, value)
  <2>1. CASE IsTimeout(value)
    <3> DEFINE x == timeout_to_usec(value)
               new == [s EXCEPT !.usec_timeout = x]
    <3>1. Store(ud, option, value, new) /\ option \in DescriptorOptions \ {"PAD"}
      BY <1>1, <2>1 DEF internal_ibtmo, DescriptorOptions
    <3>2. KeptIn(new, option, value)
      BY <1>s, <1>1, <2>1 DEF KeptIn, Setting
    <3> HIDE DEF x, s
    <3>3. \A o, v : o # option /\ KeptIn(s, o, v) => KeptIn(new, o, v)
      BY <1>s, <1>1, OtherFields
    <3> HIDE DEF new
    <3>4. QED
      BY <3>1, <3>2, <3>3, OwnField DEF s
  <2>2. QED
    BY <1>1, <1>r, <2>1 DEF internal_ibtmo
<1>2. CASE option = "SPollTime" /\ set_spoll_timeout(ud, value)
  <2>1. CASE IsTimeout(value)
    <3> DEFINE x == timeout_to_usec(value)
               new == [s EXCEPT !.spoll_usec_timeout = x]
    <3>1. Store(ud, option, value, new) /\ option \in DescriptorOptions \ {"PAD"}
      BY <1>2, <2>1 DEF set_spoll_timeout, DescriptorOptions
    <3>2. KeptIn(new, option, value)
      BY <1>s, <1>2, <2>1 DEF KeptIn, Setting
    <3> HIDE DEF x, s
    <3>3. \A o, v : o # option /\ KeptIn(s, o, v) => KeptIn(new, o, v)
      BY <1>s, <1>2, OtherFields
    <3> HIDE DEF new
    <3>4. QED
      BY <3>1, <3>2, <3>3, OwnField DEF s
  <2>2. QED
    BY <1>2, <1>r, <2>1 DEF set_spoll_timeout
<1>3. CASE option = "PPollTime" /\ set_ppoll_timeout(ud, value)
  <2>1. CASE IsTimeout(value)
    <3> DEFINE x == ppoll_timeout_to_usec(value)
               new == [s EXCEPT !.ppoll_usec_timeout = x]
    <3>1. Store(ud, option, value, new) /\ option \in DescriptorOptions \ {"PAD"}
      BY <1>3, <2>1 DEF set_ppoll_timeout, DescriptorOptions
    <3>2. KeptIn(new, option, value)
      BY <1>s, <1>3, <2>1 DEF KeptIn, Setting
    <3> HIDE DEF x, s
    <3>3. \A o, v : o # option /\ KeptIn(s, o, v) => KeptIn(new, o, v)
      BY <1>s, <1>3, OtherFields
    <3> HIDE DEF new
    <3>4. QED
      BY <3>1, <3>2, <3>3, OwnField DEF s
  <2>2. QED
    BY <1>3, <1>r, <2>1 DEF set_ppoll_timeout
<1>4. CASE /\ option = "EOT"
           /\ Store(ud, option, value, [s EXCEPT !.send_eoi = IsTrue(value)])
  <2> DEFINE x == IsTrue(value)
             new == [s EXCEPT !.send_eoi = x]
  <2>1. Store(ud, option, value, new) /\ option \in DescriptorOptions \ {"PAD"}
    BY <1>4 DEF DescriptorOptions
  <2>2. KeptIn(new, option, value)
    BY <1>s, <1>4 DEF KeptIn, Setting
  <2> HIDE DEF x, s
  <2>3. \A o, v : o # option /\ KeptIn(s, o, v) => KeptIn(new, o, v)
    BY <1>s, <1>4, OtherFields
  <2> HIDE DEF new
  <2>4. QED
    BY <2>1, <2>2, <2>3, OwnField DEF s
<1>5. CASE option = "READDR" /\ Store(ud, option, value, [s EXCEPT !.readdr = value # 0])
  <2> DEFINE x == (value # 0)
             new == [s EXCEPT !.readdr = x]
  <2>1. Store(ud, option, value, new) /\ option \in DescriptorOptions \ {"PAD"}
    BY <1>5 DEF DescriptorOptions
  <2>2. KeptIn(new, option, value)
    BY <1>s, <1>5 DEF KeptIn, Setting
  <2> HIDE DEF x, s
  <2>3. \A o, v : o # option /\ KeptIn(s, o, v) => KeptIn(new, o, v)
    BY <1>s, <1>5, OtherFields
  <2> HIDE DEF new
  <2>4. QED
    BY <2>1, <2>2, <2>3, OwnField DEF s
<1>6. CASE SetFlag(ud, option, value)
  <2> DEFINE new == [s EXCEPT !.eos_flags = IF value # 0 THEN @ \union {Flag(option)}
                                                         ELSE @ \ {Flag(option)}]
  <2>1. /\ Store(ud, option, value, new) /\ option \in {"EOSrd", "EOSwrt", "EOScmp"}
    BY <1>6 DEF SetFlag
  <2>2. option \in DescriptorOptions \ {"PAD"}
    BY <2>1 DEF DescriptorOptions
  <2>3. KeptIn(new, option, value) /\ \A o, v : o # option /\ KeptIn(s, o, v) => KeptIn(new, o, v)
    <3> HIDE DEF s
    <3>1. QED
      BY <1>s, <2>1, OtherFlags
  <2> HIDE DEF new
  <2>4. QED
    BY <2>1, <2>2, <2>3, OwnField
<1>7. CASE option = "EOSchar" /\ EOSchar(ud, value)
  <2>1. CASE UInt8(value) = value
    <3> DEFINE x == SignedChar(value)
               new == [s EXCEPT !.eos = x]
    <3>1. Store(ud, option, value, new) /\ option \in DescriptorOptions \ {"PAD"}
      BY <1>7, <2>1 DEF EOSchar, DescriptorOptions
    <3>2. value \in 0 .. 255
      BY <2>1 DEF UInt8
    <3>3. KeptIn(new, option, value)
      BY <1>s, <1>7, <3>2 DEF KeptIn, Setting
    <3> HIDE DEF x, s
    <3>4. \A o, v : o # option /\ KeptIn(s, o, v) => KeptIn(new, o, v)
      BY <1>s, <1>7, OtherFields
    <3> HIDE DEF new
    <3>5. QED
      BY <3>1, <3>3, <3>4, OwnField DEF s
  <2>2. QED
    BY <1>7, <1>r, <2>1 DEF EOSchar
<1>8. QED
  BY <1>1, <1>2, <1>3, <1>4, <1>5, <1>6, <1>7 DEF InDescriptor

(* An address: after a secondary address nothing is claimed of either.       *)
LEMMA AddressSaid ==
  ASSUME Remembered, TypeOK, NEW ud \in Descriptors, NEW option, NEW value \in Int,
         Address(ud, option, value)
  PROVE  Remembered' /\ AcceptedIsAnswered'
<1>r. ASSUME NEW code, Refuse(code) PROVE Remembered' /\ AcceptedIsAnswered'
  BY <1>r, Unsaid
<1>1. ASSUME NEW o \in {"PAD", "SAD"}, NEW pad, o = "PAD" => pad = UInt8(value),
             gpibi_change_address(ud, o, value, pad)
      PROVE  Remembered' /\ AcceptedIsAnswered'
  <2> DEFINE sad == conf[ud].sad
             new == [conf[ud] EXCEPT !.pad = pad, !.sad = sad]
  <2>1. CASE /\ conf' = [conf EXCEPT ![ud].pad = pad, ![ud].sad = sad]
             /\ Accept(ud, o, value)
             /\ board' = IF IsInterface(ud) THEN [board EXCEPT !.sad = sad] ELSE board
    <3>1. /\ conf'[ud] = new
          /\ \A other \in Descriptors : other # ud => conf'[other] = conf[other]
      BY <2>1 DEF TypeOK, Setting
    <3>2. /\ new.usec_timeout = conf[ud].usec_timeout
          /\ new.spoll_usec_timeout = conf[ud].spoll_usec_timeout
          /\ new.ppoll_usec_timeout = conf[ud].ppoll_usec_timeout
          /\ new.send_eoi = conf[ud].send_eoi /\ new.readdr = conf[ud].readdr
          /\ new.eos = conf[ud].eos /\ new.eos_flags = conf[ud].eos_flags
          /\ new.pad = pad
      BY DEF TypeOK, Setting
    <3> HIDE DEF new
    <3>3. \A p, v : p # "PAD" /\ KeptIn(conf[ud], p, v) => KeptIn(new, p, v)
      BY <3>2 DEF KeptIn
    <3>4. o = "PAD" => KeptIn(new, o, value)
      BY <1>1, <3>2 DEF KeptIn
    <3>5. InSettings(ud, accepted[ud], conf[ud]) /\ InBoard(accepted["board"], board)
      BY RememberedOf
    <3>6. InSettings(ud, Say(accepted[ud], o, value), new)
      <4> DEFINE said == Say(accepted[ud], o, value)
      <4>1. DOMAIN said = DOMAIN accepted[ud] \union {o} /\ said[o] = value
            /\ \A p \in DOMAIN accepted[ud] : p # o => said[p] = accepted[ud][p]
        BY DEF Say
      <4> HIDE DEF said
      <4>2. InSettings(ud, said, new)
        <5>1. ASSUME NEW p \in DOMAIN said
              PROVE  \/ p = "PAD" /\ (IsInterface(ud) \/ "SAD" \in DOMAIN said)
                     \/ KeptIn(new, p, said[p])
          <6>1. CASE p = "PAD"
            BY <1>1, <3>4, <4>1, <6>1
          <6>2. CASE p = "SAD"
            BY <6>2 DEF KeptIn
          <6>3. CASE p # "PAD" /\ p # "SAD"
            <7>1. p \in DOMAIN accepted[ud] /\ said[p] = accepted[ud][p]
              BY <4>1, <6>3
            <7>2. KeptIn(conf[ud], p, accepted[ud][p])
              BY <3>5, <6>3, <7>1 DEF InSettings
            <7>3. QED
              BY <3>3, <6>3, <7>1, <7>2
          <6>4. QED
            BY <6>1, <6>2, <6>3
        <5>2. QED
          BY <5>1 DEF InSettings
      <4>3. QED
        BY <4>2 DEF said
    <3>7. /\ board'.autoSpoll = board.autoSpoll /\ board'.m_autospoll = board.m_autospoll
          /\ board'.master = board.master /\ board'.t1NanoNsec = board.t1NanoNsec
          /\ board'.ist = board.ist
      BY <2>1 DEF TypeOK, BoardRecord
    <3>8. InBoard(accepted["board"], board')
      BY <3>5, <3>7 DEF InBoard, KeptOn
    <3>9. /\ o \in ibconfig_option \ {"PPC", "PP2"} /\ o \notin OnlyZero
          /\ o \notin OnlyNonzero /\ o \notin BoardOptions
      BY DEF OnlyZero, OnlyNonzero, ibconfig_option, Common, BoardOptions
    <3>10. InBoard(Say(accepted["board"], o, value), board')
      BY <3>8, <3>9, SayElsewhere
    <3>11. AcceptWith(ud, o, value, iberr_code.EDVR)
      BY <2>1 DEF Accept
    <3>12. QED
      BY <3>1, <3>6, <3>8, <3>9, <3>10, <3>11, Accepted
  <2>2. QED
    BY <1>1, <1>r, <2>1 DEF gpibi_change_address
<1>2. CASE option = "PAD" /\ internal_ibpad(ud, value)
  BY <1>1, <1>2, <1>r DEF internal_ibpad
<1>3. CASE option = "SAD" /\ internal_ibsad(ud, value)
  BY <1>1, <1>3, <1>r DEF internal_ibsad
<1>4. QED
  BY <1>2, <1>3 DEF Address

(* The board's record takes a setting.                                       *)
LEMMA OnBoardSaid ==
  ASSUME Remembered, NEW option \in BoardOptions \union {"SRE", "Rsv"}, NEW value \in Int,
         NEW iberr, AcceptWith("board", option, value, iberr), UNCHANGED conf,
         InBoard(Say(accepted["board"], option, value), board')
  PROVE  Remembered' /\ AcceptedIsAnswered'
<1>1. /\ option \in ibconfig_option \ {"PPC", "PP2"} /\ option \notin OnlyZero
      /\ option \notin OnlyNonzero /\ option \notin DescriptorOptions
  BY DEF BoardOptions, OnlyZero, OnlyNonzero, ibconfig_option, BoardOnly, DescriptorOptions
<1>2. "board" \in Descriptors
  BY DEF Descriptors
<1>3. InSettings("board", Say(accepted["board"], option, value), conf'["board"])
  BY <1>1, <1>2, RememberedOf, SayElsewhere
<1>4. QED
  BY <1>1, <1>2, <1>3, Accepted

(* The options of the board.  The link has no automatic polls to switch off,  *)
(* so a yes to AUTOPOLL is never accepted.                                   *)
LEMMA BehindIoctlSaid ==
  ASSUME Remembered, TypeOK, NEW option, NEW value \in Int, BehindIoctl("board", option, value)
  PROVE  Remembered' /\ AcceptedIsAnswered'
<1> DEFINE said == accepted["board"]
<1>b. board \in BoardRecord
  BY DEF TypeOK
<1>i. InBoard(said, board) /\ board.autoSpoll = 0 /\ board.m_autospoll = FALSE
  BY DEF Remembered, InBoard
<1>t. IsTrue(value) \in BOOLEAN
  BY BoolType
<1>r. ASSUME NEW code, Refuse(code) PROVE Remembered' /\ AcceptedIsAnswered'
  BY <1>r, Unsaid
<1>o. ASSUME NEW o \in BoardOptions \union {"SRE", "Rsv"}, NEW iberr, NEW record \in BoardRecord,
             AcceptWith("board", o, value, iberr), UNCHANGED conf, board' = record,
             record.autoSpoll = 0, record.m_autospoll = FALSE, KeptOn(record, o, value),
             \A p, v : p # o /\ KeptOn(board, p, v) => KeptOn(record, p, v)
      PROVE  Remembered' /\ AcceptedIsAnswered'
  <2>1. InBoard(Say(said, o, value), record)
    BY <1>i, <1>o, SayBoard
  <2>2. QED
    BY <1>o, <2>1, OnBoardSaid
<1>1. CASE option = "PPC" /\ internal_ibppc(value)
  BY <1>1, <1>r DEF internal_ibppc
<1>2. CASE option = "PP2" /\ Refuse(iberr_code.ECAP)
  BY <1>2, <1>r
<1>3. CASE option = "AUTOPOLL" /\ configure_autospoll(value)
  <2>1. CASE Refuse(iberr_code.EDVR)
    BY <2>1, <1>r
  <2>2. CASE ~IsTrue(value) /\ Accept("board", "AUTOPOLL", value) /\ UNCHANGED <<conf, board>>
    <3>1. KeptOn(board, "AUTOPOLL", value) /\ "AUTOPOLL" \in BoardOptions
      BY <2>2 DEF KeptOn, BoardOptions
    <3>2. AcceptWith("board", "AUTOPOLL", value, iberr_code.EDVR)
      BY <2>2 DEF Accept
    <3>3. QED
      BY <1>b, <1>i, <1>o, <2>2, <3>1, <3>2
  <2>3. QED
    BY <1>3, <1>i, <1>t, <2>1, <2>2 DEF configure_autospoll, autospoll_ioctl
<1>4. CASE option = "SC" /\ internal_ibrsc(value)
  <2> DEFINE record == [board EXCEPT !.master = IsTrue(value), !.cic = @ /\ IsTrue(value)]
  <2>1. CASE board' = record /\ Accept("board", "SC", value) /\ UNCHANGED conf
    <3>1. /\ record \in BoardRecord /\ record.master = IsTrue(value)
          /\ record.autoSpoll = board.autoSpoll /\ record.m_autospoll = board.m_autospoll
          /\ record.t1NanoNsec = board.t1NanoNsec /\ record.ist = board.ist
      BY <1>b, <1>t DEF BoardRecord
    <3>2. AcceptWith("board", "SC", value, iberr_code.EDVR) /\ board' = record
      BY <2>1 DEF Accept
    <3> HIDE DEF record
    <3>3. KeptOn(record, "SC", value) /\ "SC" \in BoardOptions
          /\ \A p, v : p # "SC" /\ KeptOn(board, p, v) => KeptOn(record, p, v)
      BY <1>t, <3>1 DEF KeptOn, BoardOptions
    <3>4. QED
      BY <1>i, <1>o, <2>1, <3>1, <3>2, <3>3
  <2>2. QED
    BY <1>4, <1>r, <2>1 DEF internal_ibrsc, OnBoard
<1>5. ASSUME option \in {"SRE", "Rsv"}, OnBoard(option, value, board)
      PROVE  Remembered' /\ AcceptedIsAnswered'
  <2>1. CASE board' = board /\ Accept("board", option, value) /\ UNCHANGED conf
    <3>1. AcceptWith("board", option, value, iberr_code.EDVR)
      BY <2>1 DEF Accept
    <3>2. KeptOn(board, option, value)
      BY <1>5 DEF KeptOn
    <3>3. QED
      BY <1>5, <1>b, <1>i, <1>o, <2>1, <3>1, <3>2
  <2>2. QED
    BY <1>5, <1>r, <2>1 DEF OnBoard
<1>6. CASE option = "SRE" /\ internal_ibsre(value)
  BY <1>5, <1>6, <1>r DEF internal_ibsre
<1>7. CASE option = "TIMING" /\ set_t1_delay(value)
  <2>1. CASE value \in DOMAIN t1_delays
    <3> DEFINE record == [board EXCEPT !.t1NanoNsec = t1_delays[value]]
    <3>1. t1_delays[value] \in Nat \ {0}
      BY <2>1 DEF t1_delays
    <3>2. /\ record \in BoardRecord /\ record.master = board.master
          /\ record.autoSpoll = board.autoSpoll /\ record.m_autospoll = board.m_autospoll
          /\ record.t1NanoNsec = t1_delays[value] /\ record.ist = board.ist
      BY <1>b, <3>1 DEF BoardRecord
    <3>3. CASE board' = record /\ Accept("board", "TIMING", value) /\ UNCHANGED conf
      <4>1. AcceptWith("board", "TIMING", value, iberr_code.EDVR) /\ board' = record
        BY <3>3 DEF Accept
      <4> HIDE DEF record
      <4>2. KeptOn(record, "TIMING", value) /\ "TIMING" \in BoardOptions
            /\ \A p, v : p # "TIMING" /\ KeptOn(board, p, v) => KeptOn(record, p, v)
        BY <2>1, <3>2 DEF KeptOn, BoardOptions
      <4>3. QED
        BY <1>i, <1>o, <3>2, <3>3, <4>1, <4>2
    <3>4. QED
      BY <1>7, <1>r, <2>1, <3>3 DEF set_t1_delay, OnBoard
  <2>2. QED
    BY <1>7, <1>r, <2>1 DEF set_t1_delay
<1>8. CASE option = "Ist" /\ internal_ibist(value)
  <2> DEFINE record == [board EXCEPT !.ist = IsTrue(value)]
  <2>1. CASE board' = record /\ AcceptWith("board", "Ist", value, Bit(board.ist))
             /\ UNCHANGED conf
    <3>1. /\ record \in BoardRecord /\ record.master = board.master
          /\ record.autoSpoll = board.autoSpoll /\ record.m_autospoll = board.m_autospoll
          /\ record.t1NanoNsec = board.t1NanoNsec /\ record.ist = IsTrue(value)
      BY <1>b, <1>t DEF BoardRecord
    <3>2. board' = record
      BY <2>1
    <3> HIDE DEF record
    <3>3. KeptOn(record, "Ist", value) /\ "Ist" \in BoardOptions
          /\ \A p, v : p # "Ist" /\ KeptOn(board, p, v) => KeptOn(record, p, v)
      BY <1>t, <3>1 DEF KeptOn, BoardOptions
    <3>4. QED
      BY <1>i, <1>o, <2>1, <3>1, <3>2, <3>3
  <2>2. QED
    BY <1>8, <1>r, <2>1 DEF internal_ibist
<1>9. CASE option = "Rsv" /\ internal_ibrsv(value)
  BY <1>5, <1>9, <1>r DEF internal_ibrsv
<1>10. QED
  BY <1>1, <1>2, <1>3, <1>4, <1>6, <1>7, <1>8, <1>9 DEF BehindIoctl

(* A call of ibconfig, whatever it comes to.                                 *)
LEMMA ConfigSaid ==
  ASSUME Remembered, TypeOK, NEW ud \in Descriptors, NEW option, NEW value \in Int,
         ibconfig(ud, option, value)
  PROVE  Remembered' /\ AcceptedIsAnswered'
<1>1. CASE Refuse(iberr_code.EARG)
  BY <1>1, Unsaid
<1>2. CASE Pretended(ud, option, value)
  BY <1>2, PretendedSaid
<1>3. CASE InDescriptor(ud, option, value)
  BY <1>3, InDescriptorSaid
<1>4. CASE Address(ud, option, value)
  BY <1>4, AddressSaid
<1>5. CASE Applies(ud, option) /\ BehindIoctl(ud, option, value)
  <2>1. option \in BoardOnly /\ option \notin Common \union DeviceOnly
    BY <1>5 DEF BehindIoctl, BoardOnly, Common, DeviceOnly
  <2>2. ud = "board"
    BY <1>5, <2>1 DEF Applies, IsInterface
  <2>3. QED
    BY <1>5, <2>2, BehindIoctlSaid
<1>6. QED
  BY <1>1, <1>2, <1>3, <1>4, <1>5 DEF ibconfig

-----------------------------------------------------------------------------
(* What is answered for an option, against what was accepted for it.          *)
AnswerFits(ud, option, answer) ==
  option \in DOMAIN accepted[ud] =>
    LET value == accepted[ud][option]
    IN  NotKept(ud, option, value) \/ Same(option, value, answer)

(* A bit is no zero when it is set, and an int that is cut to a byte is a no    *)
(* when it is none.                                                          *)
LEMMA Bits ==
  /\ \A b \in BOOLEAN : Bit(b) # 0 <=> b
  /\ ~IsTrue(0)
BY SettingsAssumption DEF Bit, IsTrue, UInt8

(* A byte comes back through a signed char.                                  *)
LEMMA Chars == \A value \in 0 .. 255 : UInt8(SignedChar(value)) = UInt8(value)
  BY DEF UInt8, SignedChar

(* A byte is not cut any more.                                               *)
LEMMA Bytes == \A value \in Int : UInt8(UInt8(value)) = UInt8(value)
  BY DEF UInt8

(* An option that is looked up in the descriptor.                            *)
LEMMA DescriptorAnswers ==
  ASSUME KInv, NEW ud \in Descriptors, NEW option \in DOMAIN FromDescriptor(conf[ud]),
         ~(option \in {"PAD", "SAD"} /\ IsInterface(ud))
  PROVE  AnswerFits(ud, option, FromDescriptor(conf[ud])[option])
<1> DEFINE s == conf[ud]
           value == accepted[ud][option]
<1>1. SUFFICES ASSUME option \in DOMAIN accepted[ud], ~NotKept(ud, option, value)
               PROVE  Same(option, value, FromDescriptor(s)[option])
  BY DEF AnswerFits
<1>2. InSettings(ud, accepted[ud], s) /\ AsPretended(accepted[ud]) /\ s \in Setting
  BY RememberedOf DEF KInv, IInv, TypeOK
<1>3. value \in Int
  BY <1>1, <1>2 DEF AsPretended
<1>4. KeptIn(s, option, value)
  BY <1>1, <1>2 DEF InSettings, NotKept
<1> HIDE DEF s, value
<1>5. option \in {"PAD", "SAD", "TMO", "SPollTime", "PPollTime", "EOT", "READDR", "EOSrd",
                  "EOSwrt", "EOScmp", "EOSchar"}
  BY DEF FromDescriptor
<1>6. CASE option = "PAD"
  <2>1. s.pad = UInt8(value) /\ FromDescriptor(s)[option] = s.pad
    BY <1>4, <1>6 DEF KeptIn, FromDescriptor
  <2>2. QED
    BY <1>3, <1>6, <2>1, Bytes DEF Same, YesOrNo
<1>7. CASE option = "SAD"
  BY <1>1, <1>7 DEF NotKept
<1>8. CASE option = "TMO"
  <2>1. /\ IsTimeout(value) /\ s.usec_timeout = timeout_to_usec(value)
        /\ FromDescriptor(s)[option] = usec_to_timeout(s.usec_timeout)
    BY <1>4, <1>8 DEF KeptIn, FromDescriptor
  <2>2. FromDescriptor(s)[option] = value
    BY <2>1, LimitsRoundTrip DEF IsTimeout
  <2>3. QED
    BY <1>8, <2>2 DEF Same, YesOrNo
<1>9. CASE option = "SPollTime"
  <2>1. /\ IsTimeout(value) /\ s.spoll_usec_timeout = timeout_to_usec(value)
        /\ FromDescriptor(s)[option] = usec_to_timeout(s.spoll_usec_timeout)
    BY <1>4, <1>9 DEF KeptIn, FromDescriptor
  <2>2. FromDescriptor(s)[option] = value
    BY <2>1, LimitsRoundTrip DEF IsTimeout
  <2>3. QED
    BY <1>9, <2>2 DEF Same, YesOrNo
<1>10. CASE option = "PPollTime"
  <2>1. /\ IsTimeout(value) /\ s.ppoll_usec_timeout = ppoll_timeout_to_usec(value)
        /\ FromDescriptor(s)[option] = usec_to_timeout(s.ppoll_usec_timeout)
    BY <1>4, <1>10 DEF KeptIn, FromDescriptor
  <2>2. value # TNONE
    BY <1>1, <1>10 DEF NotKept
  <2>3. FromDescriptor(s)[option] = value
    BY <2>1, <2>2, LimitsRoundTrip DEF IsTimeout, ppoll_timeout_to_usec
  <2>4. QED
    BY <1>10, <2>3 DEF Same, YesOrNo
<1>11. CASE option = "EOT"
  <2>1. (s.send_eoi <=> IsTrue(value)) /\ FromDescriptor(s)[option] = Bit(s.send_eoi)
        /\ s.send_eoi \in BOOLEAN
    BY <1>2, <1>4, <1>11 DEF KeptIn, FromDescriptor, Setting
  <2>2. value # 0 <=> IsTrue(value)
    BY <1>1, <1>11, Bits DEF NotKept
  <2>3. FromDescriptor(s)[option] # 0 <=> IsTrue(value)
    BY <2>1, Bits
  <2>4. QED
    BY <1>11, <2>2, <2>3 DEF Same, YesOrNo
<1>12. CASE option = "READDR"
  <2>1. (s.readdr <=> value # 0) /\ FromDescriptor(s)[option] = Bit(s.readdr)
        /\ s.readdr \in BOOLEAN
    BY <1>2, <1>4, <1>12 DEF KeptIn, FromDescriptor, Setting
  <2>2. FromDescriptor(s)[option] # 0 <=> value # 0
    BY <2>1, Bits
  <2>3. QED
    BY <1>12, <2>2 DEF Same, YesOrNo
<1>13. CASE option \in {"EOSrd", "EOSwrt", "EOScmp"}
  <2>1. Flag(option) \in s.eos_flags <=> value # 0
    BY <1>4, <1>13 DEF KeptIn
  <2>2. FromDescriptor(s)[option] = FlagAnswer(s, Flag(option))
    BY <1>13 DEF FromDescriptor, Flag
  <2>3. flag_value[Flag(option)] # 0
    BY <1>13 DEF flag_value, Flag
  <2>4. FromDescriptor(s)[option] # 0 <=> value # 0
    BY <2>1, <2>2, <2>3 DEF FlagAnswer
  <2>5. QED
    BY <1>13, <2>4 DEF Same, YesOrNo
<1>14. CASE option = "EOSchar"
  <2>1. value \in 0 .. 255 /\ s.eos = SignedChar(value) /\ FromDescriptor(s)[option] = s.eos
    BY <1>4, <1>14 DEF KeptIn, FromDescriptor
  <2>2. QED
    BY <1>14, <2>1, Chars DEF Same, YesOrNo
<1>15. QED
  BY <1>5, <1>6, <1>7, <1>8, <1>9, <1>10, <1>11, <1>12, <1>13, <1>14 DEF s

(* An option that is answered by a constant.                                 *)
LEMMA ConstantAnswers ==
  ASSUME KInv, NEW ud \in Descriptors, NEW option \in DOMAIN Constant
  PROVE  AnswerFits(ud, option, Constant[option])
<1> DEFINE value == accepted[ud][option]
<1>1. SUFFICES ASSUME option \in DOMAIN accepted[ud], ~NotKept(ud, option, value)
               PROVE  Same(option, value, Constant[option])
  BY DEF AnswerFits
<1>2. AsPretended(accepted[ud])
  BY RememberedOf DEF KInv
<1>3. /\ option \in OnlyZero => value = 0
      /\ option \in OnlyNonzero => value # 0
      /\ option # "PP2"
  BY <1>1, <1>2 DEF AsPretended
<1>4. option \notin OnlyPretended
  BY <1>1 DEF NotKept
<1> HIDE DEF value
<1>5. option \in {"ReadAdjust", "WriteAdjust", "EndBitIsNormal", "CICPROT", "IRQ", "SRE", "PP2",
                  "DMA", "EventQueue", "SPollBit", "SendLLO", "HSCableLength", "UnAddr"}
  BY DEF Constant
<1>6. CASE option \in {"ReadAdjust", "WriteAdjust", "CICPROT", "SendLLO", "HSCableLength",
                       "UnAddr"}
  <2>1. value = 0 /\ Constant[option] = 0 /\ option \notin YesOrNo /\ option \notin {"EOSchar", "PAD"}
    BY <1>3, <1>6 DEF OnlyZero, Constant, YesOrNo
  <2>2. QED
    BY <2>1 DEF Same
<1>7. CASE option \in {"EndBitIsNormal", "DMA"}
  <2>1. value # 0 <=> Constant[option] # 0
    BY <1>3, <1>7 DEF OnlyNonzero, Constant
  <2>2. QED
    BY <1>7, <2>1 DEF Same, YesOrNo
<1>8. CASE option \in {"IRQ", "SRE", "EventQueue", "SPollBit"}
  BY <1>4, <1>8 DEF OnlyPretended
<1>9. QED
  BY <1>3, <1>5, <1>6, <1>7, <1>8

(* An option that the board is asked for.                                    *)
LEMMA BoardAnswers ==
  ASSUME KInv, NEW option \in DOMAIN FromBoardWith7Bit
  PROVE  AnswerFits("board", option, FromBoardWith7Bit[option])
<1> DEFINE value == accepted["board"][option]
           answer == FromBoardWith7Bit[option]
<1>1. SUFFICES ASSUME option \in DOMAIN accepted["board"], ~NotKept("board", option, value)
               PROVE  Same(option, value, answer)
  BY DEF AnswerFits
<1>2. /\ InBoard(accepted["board"], board) /\ AsPretended(accepted["board"])
      /\ board \in BoardRecord
  BY RememberedOf DEF KInv, IInv, TypeOK, Descriptors
<1>3. option \in ibconfig_option \ {"PPC", "PP2"} /\ value \in Int
  BY <1>1, <1>2 DEF AsPretended
<1>4. KeptOn(board, option, value) /\ board.autoSpoll = 0
  BY <1>1, <1>2 DEF InBoard
<1> HIDE DEF value
<1>5. option # "7BitEOS"
  BY <1>3 DEF ibconfig_option, Common, BoardOnly, DeviceOnly
<1>6. DOMAIN FromBoard = {"PPC", "AUTOPOLL", "SC", "TIMING", "Ist", "Rsv"}
  BY DEF FromBoard
<1>7. option \in DOMAIN FromBoard /\ answer = FromBoard[option]
  BY <1>5 DEF FromBoardWith7Bit
<1> HIDE DEF answer
<1>8. option \in {"AUTOPOLL", "SC", "TIMING", "Ist", "Rsv"}
  BY <1>3, <1>6, <1>7
<1>9. ASSUME option \in {"AUTOPOLL", "SC", "Ist"} PROVE value # 0 <=> IsTrue(value)
  BY <1>1, <1>9, Bits DEF NotKept
<1>10. CASE option = "AUTOPOLL"
  <2>1. answer = 0 /\ ~IsTrue(value)
    BY <1>4, <1>7, <1>10 DEF FromBoard, KeptOn
  <2>2. QED
    BY <1>9, <1>10, <2>1 DEF Same, YesOrNo
<1>11. CASE option = "SC"
  <2>1. answer = (IF board.master THEN 1 ELSE 0) /\ (board.master <=> IsTrue(value))
    BY <1>4, <1>7, <1>11 DEF FromBoard, KeptOn
  <2>2. answer # 0 <=> IsTrue(value)
    BY <2>1
  <2>3. QED
    BY <1>9, <1>11, <2>2 DEF Same, YesOrNo
<1>12. CASE option = "TIMING"
  <2>1. /\ answer = query_board_t1_delay /\ value \in {1, 2, 3}
        /\ board.t1NanoNsec = t1_delays[value]
    BY <1>4, <1>7, <1>12 DEF FromBoard, KeptOn, t1_delays
  <2>2. answer = value
    BY <2>1 DEF query_board_t1_delay, t1_delays
  <2>3. QED
    BY <1>12, <2>2 DEF Same, YesOrNo
<1>13. CASE option = "Ist"
  <2>1. answer = Bit(board.ist) /\ (board.ist <=> IsTrue(value)) /\ board.ist \in BOOLEAN
    BY <1>2, <1>4, <1>7, <1>13 DEF FromBoard, KeptOn, BoardRecord
  <2>2. answer # 0 <=> IsTrue(value)
    BY <2>1, Bits
  <2>3. QED
    BY <1>9, <1>13, <2>2 DEF Same, YesOrNo
<1>14. CASE option = "Rsv"
  BY <1>1, <1>14 DEF NotKept, OnlyPretended
<1>15. QED
  BY <1>8, <1>10, <1>11, <1>12, <1>13, <1>14

(* A question leaves what is remembered, and its answer is right.             *)
LEMMA AskSaid ==
  ASSUME KInv, NEW ud \in Descriptors, NEW option, ibask(ud, option)
  PROVE  Remembered' /\ AcceptedIsAnswered'
<1>1. UNCHANGED <<board, accepted>>
  BY DEF ibask
<1>2. UNCHANGED conf => Remembered'
  BY <1>1 DEF KInv, Remembered
<1>3. ASSUME NEW good, NEW answer, reply' = Asked(ud, option, good, answer),
             good => AnswerFits(ud, option, answer)
      PROVE  AcceptedIsAnswered'
  <2>1. reply'.ud = ud /\ reply'.option = option /\ reply'.good = good /\ reply'.value = answer
    BY <1>3 DEF Asked
  <2>2. reply'.good => AnswerFits(reply'.ud, reply'.option, reply'.value)
    BY <1>3, <2>1
  <2>3. QED
    BY <1>1, <2>2 DEF AcceptedIsAnswered, AnswerFits, NotKept
<1>4. CASE NoAnswer(ud, option) /\ UNCHANGED conf
  BY <1>2, <1>3, <1>4 DEF NoAnswer
<1>5. CASE AskAddress(ud, option) /\ ~(NoAnswer(ud, option) /\ UNCHANGED conf)
  <2>1. PICK settings : /\ conf' = [conf EXCEPT ![ud] = settings]
                        /\ \/ settings = [conf[ud] EXCEPT !.pad = board.pad]
                           \/ settings = [conf[ud] EXCEPT !.sad = board.sad]
                        /\ \E answer : reply' = Asked(ud, option, TRUE, answer)
    BY <1>5 DEF AskAddress, Answer
  <2>2. conf[ud] \in Setting /\ InSettings(ud, accepted[ud], conf[ud])
    BY RememberedOf DEF KInv, IInv, TypeOK
  <2>3. \A o, v : o # "PAD" /\ KeptIn(conf[ud], o, v) => KeptIn(settings, o, v)
    BY <2>1, <2>2 DEF KeptIn, Setting
  <2>4. InSettings(ud, accepted[ud], settings)
    BY <1>5, <2>2, <2>3 DEF InSettings, AskAddress
  <2>5. conf'[ud] = settings /\ \A other \in Descriptors : other # ud => conf'[other] = conf[other]
    BY <2>1 DEF KInv, IInv, TypeOK
  <2>6. Remembered'
    BY <1>1, <2>4, <2>5 DEF KInv, Remembered
  <2>7. \A answer : AnswerFits(ud, option, answer)
    BY <1>5 DEF AskAddress, AnswerFits, NotKept
  <2>8. QED
    BY <1>3, <2>1, <2>6, <2>7
<1>6. CASE AskDescriptor(ud, option)
  <2>1. PICK answer : /\ reply' = Asked(ud, option, TRUE, answer)
                      /\ AnswerFits(ud, option, answer)
    <3>1. CASE /\ option \in DOMAIN FromDescriptor(conf[ud])
               /\ Answer(ud, option, FromDescriptor(conf[ud])[option])
      BY <1>6, <3>1, DescriptorAnswers DEF AskDescriptor, Answer
    <3>2. CASE option \in DOMAIN Constant /\ Answer(ud, option, Constant[option])
      BY <3>2, ConstantAnswers DEF Answer
    <3>3. QED
      BY <1>6, <3>1, <3>2 DEF AskDescriptor
  <2>2. QED
    BY <1>2, <1>3, <1>6, <2>1 DEF AskDescriptor
<1>7. CASE Applies(ud, option) /\ AskBoard(ud, option) /\ ~NoAnswer(ud, option)
  <2>1. option \in {"PPC", "AUTOPOLL", "SC", "TIMING", "Ist", "Rsv", "7BitEOS"}
    BY <1>7 DEF AskBoard, FromBoardWith7Bit, FromBoard
  <2>2. ud = "board"
    BY <1>7, <2>1 DEF Applies, Common, DeviceOnly, IsInterface
  <2>3. AnswerFits(ud, option, FromBoardWith7Bit[option])
    BY <1>7, <2>2, BoardAnswers DEF AskBoard
  <2>4. QED
    BY <1>2, <1>3, <1>7, <2>3 DEF AskBoard, Answer
<1>8. QED
  BY <1>4, <1>5, <1>6, <1>7 DEF ibask, AskAddress, AskBoard

(* Nothing has been accepted at first.                                       *)
LEMMA InitSaid == Init => Remembered /\ AcceptedIsAnswered
<1>1. SUFFICES ASSUME Init PROVE Remembered /\ AcceptedIsAnswered
  OBVIOUS
<1>2. \A ud \in Descriptors : accepted[ud] = <<>>
  BY <1>1 DEF Init, None
<1>3. \A ud \in Descriptors : DOMAIN accepted[ud] = {}
  BY <1>2
<1>4. DOMAIN accepted = Descriptors /\ board.autoSpoll = 0 /\ board.m_autospoll = FALSE
      /\ reply.call # "ask"
  BY <1>1 DEF Init, Configured
<1>5. QED
  BY <1>3, <1>4 DEF Remembered, InSettings, InBoard, AsPretended, AcceptedIsAnswered, Descriptors

(* Every step keeps what is remembered.                                      *)
LEMMA NextSaid == KInv /\ [Next]_vars => KInv'
<1>1. SUFFICES ASSUME KInv, [Next]_vars PROVE Remembered' /\ AcceptedIsAnswered'
  BY NextInv DEF KInv
<1>2. ASSUME NEW ud \in Descriptors, NEW option \in ibconfig_option, NEW value \in Values[option],
             ibconfig(ud, option, value)
      PROVE  Remembered' /\ AcceptedIsAnswered'
  <2>1. value \in Int
    BY SettingsAssumption
  <2>2. QED
    BY <1>1, <1>2, <2>1, ConfigSaid DEF KInv, IInv
<1>3. ASSUME NEW ud \in Descriptors, NEW option \in ibask_option, ibask(ud, option)
      PROVE  Remembered' /\ AcceptedIsAnswered'
  BY <1>1, <1>3, AskSaid
<1>4. CASE UNCHANGED vars
  BY <1>1, <1>4 DEF vars, KInv, Remembered, AcceptedIsAnswered, NotKept
<1>5. QED
  BY <1>1, <1>2, <1>3, <1>4 DEF Next

(* What ibconfig has accepted for an option is what ibask answers, whatever   *)
(* was set in between on this descriptor or the other, but for the options   *)
(* that NotKept names.                                                       *)
THEOREM AcceptedAnswered == Spec => []AcceptedIsAnswered
<1>1. Init => KInv
  BY InitInv, InitSaid DEF KInv
<1>2. KInv => AcceptedIsAnswered
  BY DEF KInv
<1>3. QED
  BY <1>1, <1>2, NextSaid, PTL DEF Spec
==============================================================================
