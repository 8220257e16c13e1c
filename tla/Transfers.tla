------------------------------- MODULE Transfers ------------------------------
(***************************************************************************)
(* How the library addresses the bus for a transfer, and how it cuts a     *)
(* write into blocks.  Instruments and the board itself listen or talk as   *)
(* the command bytes tell them (IEEE 488.1); they keep that from one call   *)
(* to the next, so a setup that is left out or cut short leaves the bus to  *)
(* whoever was addressed before.  One call at a time: what another thread   *)
(* may do to the bus meanwhile is the business of GpibLibrary.              *)
(***************************************************************************)
EXTENDS Integers, Sequences, SequencesExt

CONSTANTS
  Board,        \* the board's own address
  Instruments,  \* the addresses of the instruments on the bus
  Misnamed,     \* addresses outside the legal ones, as ibconfig may leave them
  Messages,     \* what is written: the EOS byte, one that is the EOS byte in
                \* seven bits only, and others
  Flags,        \* the sets of end-of-string flags in use
  Limited,      \* the addresses whose time limit is a millisecond or more
  SignedBool,   \* BOOL is a signed char
  IndexSize,    \* values of the index of find_eos (256 for a byte)
  MaxMiscounts  \* bound on the wrong counts of one call

gpib_addr_max == 30
Legal == [pad : 0 .. gpib_addr_max, sad : -1 .. gpib_addr_max]

(* Two instruments of one primary address both have secondary ones.          *)
ASSUME TransfersAssumption ==
  /\ Instruments \union {Board} \subseteq Legal
  /\ Misnamed \subseteq [pad : gpib_addr_max + 1 .. 255, sad : {-1}]
  /\ \A d, e \in Instruments \union {Board} :
       d # e /\ d.pad = e.pad => d.sad >= 0 /\ e.sad >= 0
  /\ Board \notin Instruments
  /\ \A flags \in Flags : flags \subseteq {"REOS", "XEOS", "BIN"}
  /\ Messages \subseteq Seq({"plain", "eos", "eos7"})
  /\ Limited \subseteq Instruments \union Misnamed \union {Board}
  /\ SignedBool \in BOOLEAN
  /\ IndexSize \in Nat \ {0}
  /\ MaxMiscounts \in Nat

VARIABLES
  roles,     \* for every party of the bus, whether it listens or talks
  eos_mode,  \* whose end-of-string character the board stops reads at
  call,      \* the call under way, or the last one
  heard,     \* for every instrument, the data bytes it has had from this call
  obeyed     \* the instruments that have had the command of this call

vars == <<roles, eos_mode, call, heard, obeyed>>

Parties == Instruments \union {Board}

-----------------------------------------------------------------------------
(* Command bytes and packed addresses.                                       *)
cmd_byte == [GTL |-> 1, SDC |-> 4, GET |-> 8, DCL |-> 20, SPE |-> 24, SPD |-> 25,
             LAD |-> 32, UNL |-> 63, TAD |-> 64, UNT |-> 95, SAD |-> 96]
With(bits, addr) == IF (addr \div bits) % 2 = 1 THEN addr ELSE addr + bits
MLA(addr) == With(cmd_byte.LAD, addr) % 256
MTA(addr) == With(cmd_byte.TAD, addr) % 256
MSA(addr) == With(cmd_byte.TAD, With(cmd_byte.LAD, addr)) % 256

NO_SAD == 0
SAD_DISABLED == -1
ADDR_INVALID == -2
send_eotmode == {"NULLend", "DABend", "NLend"}

packAddress(pad, sad) == (pad % 256) + (IF sad >= 0 THEN 256 * MSA(sad) ELSE 0)
extractPAD(address) ==
  LET pad == address % 256 IN IF pad > gpib_addr_max THEN ADDR_INVALID ELSE pad
extractSAD(address) ==
  LET sad == (address \div 256) % 256
      low == (sad % 32) + 128 * (sad \div 128)
  IN  IF sad = NO_SAD THEN SAD_DISABLED
      ELSE IF (sad \div 32) % 4 = 0 \/ low > gpib_addr_max THEN ADDR_INVALID
      ELSE low
addressIsValid(address) ==
  extractPAD(address) # ADDR_INVALID /\ extractSAD(address) # ADDR_INVALID

Packed(d) == packAddress(d.pad, d.sad)

Secondary(sad) == IF sad >= 0 THEN <<MSA(sad)>> ELSE <<>>
TalkAddress(d) == <<MTA(d.pad)>> \o Secondary(d.sad)
PrimaryOnly(d) == <<MLA(d.pad)>>  \* mutant: the secondary address is left out
ListenAddress(d) == <<MLA(d.pad)>> \o Secondary(d.sad)
Unpacked(address) == [pad |-> extractPAD(address), sad |-> extractSAD(address)]

ListenAddresses(setup, addressList) ==
  LET cmdString[j \in 0 .. Len(addressList)] ==
        IF j = 0 THEN setup
        ELSE cmdString[j - 1] \o ListenAddress(Unpacked(addressList[j]))
  IN  cmdString[Len(addressList)]

UnlistenFirst(addressList) ==  \* mutant: the old listeners are not unaddressed
  ListenAddresses(TalkAddress(Board), addressList)
Setup(addressList) ==
  ListenAddresses(TalkAddress(Board) \o <<cmd_byte.UNL>>, addressList)

(* create_send_setup: no bytes if an address is not valid, nor if the board   *)
(* cannot be asked for its own.                                              *)
create_send_setup(addressList) ==
  {<<>>} \union
  (IF \A i \in DOMAIN addressList : addressIsValid(addressList[i])
   THEN {Setup(addressList)} ELSE {})

ReceiveSetup(address) ==
  <<cmd_byte.UNL>> \o ListenAddress(Board) \o TalkAddress(Unpacked(address))

-----------------------------------------------------------------------------
(* A party of the bus: primary is the primary address it has just heard, when *)
(* it waits for its secondary one.                                           *)
Quiet == [listens |-> FALSE, talks |-> FALSE, primary |-> "none"]
Listening(r) == [r EXCEPT !.listens = TRUE, !.talks = FALSE, !.primary = "none"]
Talking(r) == [r EXCEPT !.talks = TRUE, !.listens = FALSE, !.primary = "none"]
Extended(p) == p.sad >= 0

HearPrimary(p, r, byte) ==
  CASE byte = cmd_byte.UNL -> [r EXCEPT !.listens = FALSE, !.primary = "none"]
    [] byte = MLA(p.pad) ->
         IF Extended(p) THEN [r EXCEPT !.primary = "listen"] ELSE Listening(r)
    [] byte = MTA(p.pad) ->
         IF Extended(p) THEN [r EXCEPT !.primary = "talk"] ELSE Talking(r)
    [] byte \in cmd_byte.TAD .. cmd_byte.UNT /\ byte # MTA(p.pad) ->
         [r EXCEPT !.talks = FALSE, !.primary = "none"]
    [] OTHER -> [r EXCEPT !.primary = "none"]

HearSecondary(p, r, byte) ==
  CASE r.primary = "listen" /\ byte = MSA(p.sad) ->
         [Listening(r) EXCEPT !.primary = "listen"]
    [] r.primary = "talk" /\ byte = MSA(p.sad) ->
         [Talking(r) EXCEPT !.primary = "talk"]
    [] r.primary = "talk" /\ byte # MSA(p.sad) -> [r EXCEPT !.talks = FALSE]
    [] OTHER -> r

Hear(p, r, byte) ==
  IF byte >= cmd_byte.SAD THEN HearSecondary(p, r, byte) ELSE HearPrimary(p, r, byte)

Hears(p, r, bytes) ==
  LET role[n \in 0 .. Len(bytes)] ==
        IF n = 0 THEN r ELSE Hear(p, role[n - 1], bytes[n])
  IN  role[Len(bytes)]

After(bytes) == [p \in Parties |-> Hears(p, roles[p], bytes)]

Listeners(bus) == {p \in Parties : bus[p].listens}
Talkers(bus) == {p \in Parties : bus[p].talks}

-----------------------------------------------------------------------------
(* A call sets up the bus, moves data and is over.  left is what a write has   *)
(* still to send; blind says that the call goes on after a setup of which not *)
(* every byte was sent, and nobody noticed; limited that its data has a time   *)
(* limit (TNONE starts no watchdog, and the driver cuts less than a           *)
(* millisecond to none); miscounts how often the number of bytes reported to   *)
(* it was not the number heard.                                              *)
Idle == [what |-> "none", to |-> {}, at |-> "idle", message |-> <<>>, left |-> <<>>,
         flags |-> {}, eot |-> FALSE, newline |-> "no", blind |-> FALSE,
         limited |-> FALSE, miscounts |-> 0, ret |-> 0]

Init ==
  /\ roles = [p \in Parties |-> Quiet]
  /\ eos_mode = "none"
  /\ call = Idle
  /\ heard = [d \in Instruments |-> <<>>]
  /\ obeyed = {}

Over == [Idle EXCEPT !.at = "over"]
Free == call.at = "idle"
Ends(what, to, ret) == call' = [Over EXCEPT !.what = what, !.to = to, !.ret = ret]

(* my_ibcmd: the first bytes of the string are sent.  A string cut short may  *)
(* come with an error or without one: a driver that gives up just before the  *)
(* watchdog fires reports none.                                              *)
my_ibcmd(bytes, count, failed) ==
  /\ count \in 0 .. Len(bytes)
  /\ failed \in BOOLEAN
  /\ roles' = After(SubSeq(bytes, 1, count))

(* What a setup that is not checked any further comes to: only an error of    *)
(* my_ibcmd stops the call.                                                  *)
Proceeds(bytes, transfer) ==
  \E count \in 0 .. Len(bytes), failed \in BOOLEAN :
    /\ my_ibcmd(bytes, count, failed)
    /\ IF failed THEN Ends(transfer.what, transfer.to, -1)
       ELSE call' = [transfer EXCEPT !.at = "data", !.left = transfer.message,
                                     !.blind = (bytes = <<>> \/ count < Len(bytes))]

(* ibwrt: a device is addressed first, an interface board is not.            *)
ibwrt(d, message, flags, eot) ==
  LET transfer == [Idle EXCEPT !.what = "ibwrt", !.to = {d} \intersect Instruments,
                               !.message = message, !.flags = flags, !.eot = eot,
                               !.limited = d \in Limited]
  IN  /\ Free
      /\ IF d = Board
         THEN /\ call' = [transfer EXCEPT !.to = Listeners(roles), !.at = "data",
                                          !.left = message, !.blind = TRUE]
              /\ UNCHANGED roles
         ELSE \E bytes \in create_send_setup(<<Packed(d)>>) : Proceeds(bytes, transfer)
      /\ UNCHANGED <<eos_mode, heard, obeyed>>

ListOf(ds) == [i \in DOMAIN SetToSeq(ds) |-> Packed(SetToSeq(ds)[i])]
ListIsValid(ds) == \A d \in ds : addressIsValid(Packed(d))

(* InternalSendSetup compares the number of bytes sent with that of the setup, *)
(* which an empty one passes.  The data goes out for the board, under its      *)
(* limit.                                                                    *)
SendList(ds, message, eotmode) ==
  LET transfer == [Idle EXCEPT !.what = "SendList", !.to = ds, !.message = message,
                               !.left = message, !.at = "data", !.limited = Board \in Limited,
                               !.eot = eotmode = "DABend",
                               !.newline = IF eotmode = "NLend" THEN "due" ELSE "no"]
  IN  /\ Free
      /\ IF ~ListIsValid(ds) \/ ds = {}
         THEN Ends("SendList", ds, -1) /\ UNCHANGED roles
         ELSE \E bytes \in create_send_setup(ListOf(ds)), failed \in BOOLEAN :
                \E count \in 0 .. Len(bytes) :
                  /\ my_ibcmd(bytes, count, failed)
                  /\ IF failed \/ count # Len(bytes) THEN Ends("SendList", ds, -1)
                     ELSE call' = [transfer EXCEPT !.blind = bytes = <<>>]
      /\ UNCHANGED <<eos_mode, heard, obeyed>>

-----------------------------------------------------------------------------
(* The blocks of a write.  The block ends before the EOS byte that find_eos    *)
(* has found; its index, a byte, cannot reach beyond IndexSize, and then the  *)
(* search starts again at the first byte.                                    *)
IsEos(byte, flags) == byte = "eos" \/ (byte = "eos7" /\ "BIN" \notin flags)
Found(buffer, flags) ==
  {i \in DOMAIN buffer : i <= IndexSize /\ IsEos(buffer[i], flags)}
find_eos(buffer, flags) == CHOOSE i \in Found(buffer, flags) :
                             \A j \in Found(buffer, flags) : i <= j
SearchesOn(buffer, flags) == Len(buffer) >= IndexSize /\ Found(buffer, flags) = {}

EosBefore(buffer, flags) == "XEOS" \in flags /\ Found(buffer, flags) # {}
EosEndsBlock(buffer, flags) ==  \* mutant: whether XEOS is set or not
  IF Found(buffer, flags) # {} THEN find_eos(buffer, flags) - 1 ELSE Len(buffer)
BlockSize(buffer, flags) ==
  IF EosBefore(buffer, flags) THEN find_eos(buffer, flags) - 1 ELSE Len(buffer)

(* n of the bytes go out; the listeners get them, the last byte of a whole    *)
(* block with EOI if that is asked for.                                      *)
EoiOnLastSent(block, n, eoi) ==  \* mutant: EOI with the last byte of a cut block
  heard' = [d \in Instruments |->
              IF d \in Listeners(roles)
              THEN heard[d] \o [i \in 1 .. n |-> [byte |-> block[i], eoi |-> eoi /\ i = n]]
              ELSE heard[d]]
send_data(block, n, eoi) ==
  heard' = [d \in Instruments |->
              IF d \in Listeners(roles)
              THEN heard[d] \o [i \in 1 .. n |->
                     [byte |-> block[i], eoi |-> eoi /\ i = Len(block)]]
              ELSE heard[d]]

KeepsBuffer(n) == call.left  \* mutant: a partial write is repeated from its start
Rest(n) == SubSeq(call.left, n + 1, Len(call.left))

(* What IBWRT says of a block of this size.  It reports fewer bytes than were *)
(* heard when the adapter counted before the last of them were through, or     *)
(* could not be asked for its count; and more when a later load of the block   *)
(* failed before it set the count, which then is that of the load before.  An *)
(* error is dropped if the whole block seems to be sent.                      *)
Outcomes(size) ==
  {o \in [heard : 0 .. size, reported : 0 .. size, failed : BOOLEAN] :
     /\ o.reported = size => ~o.failed
     /\ o.reported > o.heard => o.heard > 0 /\ (o.failed \/ o.reported = size)
     /\ o.reported # o.heard => call.miscounts < MaxMiscounts}
Miscounts(o) == IF o.reported = o.heard THEN call.miscounts ELSE call.miscounts + 1

(* One turn of the loop in my_ibwrt: a block that went out whole is never an  *)
(* error; one cut short without an error is followed by what is left of it.   *)
NothingToSend ==
  /\ call.at = "data" /\ call.what = "ibwrt" /\ call.left = <<>>
  /\ call' = [call EXCEPT !.at = "over"]
  /\ UNCHANGED <<roles, eos_mode, heard, obeyed>>

SendBlock ==
  /\ call.at = "data" /\ call.what = "ibwrt" /\ call.left # <<>>
  /\ IF "XEOS" \in call.flags /\ SearchesOn(call.left, call.flags)
     THEN UNCHANGED vars
     ELSE LET size == BlockSize(call.left, call.flags)
              eoi == call.eot \/ EosBefore(call.left, call.flags)
          IN  \E o \in Outcomes(size) :
                /\ send_data(SubSeq(call.left, 1, size), o.heard, eoi)
                /\ LET rest == Rest(o.reported)
                   IN  call' = [call EXCEPT !.left = rest, !.ret = IF o.failed THEN -1 ELSE 0,
                                            !.miscounts = Miscounts(o),
                                            !.at = IF o.failed \/ rest = <<>> THEN "over" ELSE @]
                /\ UNCHANGED <<roles, eos_mode, obeyed>>

my_ibwrt == NothingToSend \/ SendBlock

(* InternalSendDataBytes: one block, then the newline that NLend asks for,     *)
(* even after a block cut short without an error.                            *)
InternalSendDataBytes ==
  /\ call.at = "data" /\ call.what = "SendList"
  /\ \/ /\ call.newline # "next"
        /\ \E o \in Outcomes(Len(call.left)) :
             /\ send_data(call.left, o.heard, call.eot)
             /\ LET more == ~o.failed /\ call.newline = "due"
                IN  call' = [call EXCEPT !.left = Rest(o.reported),
                                         !.ret = IF o.failed THEN -1 ELSE 0,
                                         !.miscounts = Miscounts(o),
                                         !.newline = IF more THEN "next" ELSE "no",
                                         !.at = IF more THEN @ ELSE "over"]
     \/ /\ call.newline = "next"
        /\ \E o \in Outcomes(1) :
             /\ send_data(<<"newline">>, o.heard, TRUE)
             /\ call' = [call EXCEPT !.at = "over", !.ret = IF o.failed THEN -1 ELSE 0,
                                     !.miscounts = Miscounts(o),
                                     !.newline = IF o.heard = 1 THEN "sent" ELSE "no"]
  /\ UNCHANGED <<roles, eos_mode, obeyed>>

-----------------------------------------------------------------------------
(* Reads.  disable_eos ends the watch for an end-of-string character;          *)
(* enable_eos knows compares of eight bits only, and otherwise refuses and     *)
(* leaves the mode alone.  REOS and BIN are lost in a BOOL that is a signed    *)
(* char: in iblcleos, which asks for them, and BIN once more in ibeos, which   *)
(* hands it to enable_eos.                                                   *)
Bool(flag, flags) == flag \in flags /\ ~SignedBool
Accepts(use_eos, compare8) == use_eos => compare8 /\ ~SignedBool
ibeos(use_eos, compare8, whose) ==
  eos_mode' = IF ~Accepts(use_eos, compare8) THEN eos_mode
              ELSE IF use_eos THEN whose ELSE "none"

ClearsWhenUsed(flags) ==  \* mutant: the mode is left alone when REOS is not set
  IF "REOS" \in flags THEN ibeos(Bool("REOS", flags), Bool("BIN", flags), "settings")
  ELSE UNCHANGED eos_mode
iblcleos(flags) == ibeos(Bool("REOS", flags), Bool("BIN", flags), "settings")

InternalReceiveSetup(address, transfer) ==
  IF addressIsValid(address)
  THEN \/ Proceeds(ReceiveSetup(address), transfer)
       \/ Ends(transfer.what, transfer.to, -1) /\ UNCHANGED roles  \* no address of the board
  ELSE Ends(transfer.what, transfer.to, -1) /\ UNCHANGED roles

(* my_ibrd sets the end-of-string mode, whether or not that is accepted, then *)
(* addresses a device.                                                       *)
my_ibrd(d, flags) ==
  LET transfer == [Idle EXCEPT !.what = "ibrd", !.to = {d} \intersect Instruments,
                               !.flags = flags, !.limited = d \in Limited]
  IN  /\ Free
      /\ iblcleos(flags)
      /\ IF d = Board
         THEN /\ call' = [transfer EXCEPT !.to = Talkers(roles), !.at = "data", !.blind = TRUE]
              /\ UNCHANGED roles
         ELSE InternalReceiveSetup(Packed(d), transfer)
      /\ UNCHANGED <<heard, obeyed>>

(* InternalReceive: its termination byte is given with the call, STOPend      *)
(* stands for none.  InternalRcvRespMsg gives up, the bus set up by then, when *)
(* the board is not in charge or the end-of-string mode is refused; with a     *)
(* signed BOOL that is so for every termination byte.                        *)
RcvRespMsgRefuses(address, transfer) ==
  /\ addressIsValid(address)
  /\ \E count \in 0 .. Len(ReceiveSetup(address)) :
       my_ibcmd(ReceiveSetup(address), count, FALSE)
  /\ Ends(transfer.what, transfer.to, -1)
  /\ UNCHANGED eos_mode

InternalReceive(d, termination) ==
  LET transfer == [Idle EXCEPT !.what = "Receive", !.to = {d}, !.flags = termination,
                               !.limited = Board \in Limited]
  IN  /\ Free
      /\ \/ /\ InternalReceiveSetup(Packed(d), transfer)
            /\ IF call'.at = "data"
               THEN Accepts(termination # {}, TRUE) /\ ibeos(termination # {}, TRUE, "call")
               ELSE UNCHANGED eos_mode
         \/ RcvRespMsgRefuses(Packed(d), transfer)
      /\ UNCHANGED <<heard, obeyed>>

read_data ==
  /\ call.at = "data" /\ call.what \in {"ibrd", "Receive"}
  /\ \E retval \in {0, -1} : Ends(call.what, call.to, retval)
  /\ UNCHANGED <<roles, eos_mode, heard, obeyed>>

-----------------------------------------------------------------------------
(* Commands for the addressed instruments: ibclr and DevClearList, ibtrg and   *)
(* TriggerList, ibloc.  The string is the setup and the command, its count is  *)
(* checked; an empty setup leaves the command alone in it.  With no address,  *)
(* DevClearList clears every instrument.                                     *)
CommandString(ds, byte) ==
  IF byte = cmd_byte.DCL THEN {<<byte>>}
  ELSE {Append(setup, byte) : setup \in create_send_setup(ListOf(ds))}

Obeying(byte) == IF byte = cmd_byte.DCL THEN Instruments
                 ELSE Listeners(roles') \intersect Instruments

SendCommand(what, ds, byte) ==
  \E bytes \in CommandString(ds, byte), failed \in BOOLEAN :
    \E count \in 0 .. Len(bytes) :
      /\ my_ibcmd(bytes, count, failed)
      /\ obeyed' = IF count = Len(bytes) THEN Obeying(byte) ELSE {}
      /\ call' = [Over EXCEPT !.what = what, !.to = ds,
                              !.blind = bytes = <<byte>> /\ byte # cmd_byte.DCL,
                              !.ret = IF failed \/ count # Len(bytes) THEN -1 ELSE 0]

Refused(what, ds) == Ends(what, ds, -1) /\ obeyed' = {} /\ UNCHANGED roles

ibclr(d) == SendCommand("ibclr", {d}, cmd_byte.SDC)
ibloc(d) == SendCommand("ibloc", {d}, cmd_byte.GTL)
my_trigger(ds) == IF ListIsValid(ds) THEN SendCommand("trigger", ds, cmd_byte.GET)
                  ELSE Refused("trigger", ds)
InternalDevClearList(ds) ==
  IF ~ListIsValid(ds) THEN Refused("DevClearList", ds)
  ELSE IF ds = {} THEN SendCommand("DevClearList", Instruments, cmd_byte.DCL)
  ELSE SendCommand("DevClearList", ds, cmd_byte.SDC)

Commands ==
  /\ Free
  /\ \/ \E d \in Instruments \union Misnamed : ibclr(d) \/ ibloc(d)
     \/ \E ds \in (SUBSET Instruments) \union {{d} : d \in Misnamed} :
          my_trigger(ds) \/ InternalDevClearList(ds)
  /\ UNCHANGED <<eos_mode, heard>>

(* serial_poll_single: the board listens, the instrument talks; what has been *)
(* set up is taken down in any case, unless the setup itself failed.         *)
serial_poll_single(d) ==
  LET setup == <<cmd_byte.UNL>> \o ListenAddress(Board) \o <<cmd_byte.SPE>>
      cleanup == <<cmd_byte.SPD, cmd_byte.UNT>>
  IN  /\ Free
      /\ \/ \E a \in 0 .. Len(setup) - 1 : roles' = After(SubSeq(setup, 1, a))
         \/ \E b \in 0 .. Len(TalkAddress(d)), c \in 0 .. Len(cleanup) :
              roles' = After(setup \o SubSeq(TalkAddress(d), 1, b) \o SubSeq(cleanup, 1, c))
      /\ UNCHANGED <<eos_mode, call, heard, obeyed>>

(* Command bytes of the caller's own, and an interface clear.                *)
ibcmd ==
  /\ Free
  /\ \E d \in Instruments :
       \E bytes \in {ListenAddress(d), TalkAddress(d), <<cmd_byte.UNL>>, TalkAddress(Board)} :
         roles' = After(bytes)
  /\ UNCHANGED <<eos_mode, call, heard, obeyed>>

ibsic ==
  /\ Free
  /\ roles' = [p \in Parties |-> Quiet]
  /\ UNCHANGED <<eos_mode, call, heard, obeyed>>

(* The call has returned; what it did is of no more interest.                *)
Return ==
  /\ call.at = "over"
  /\ call' = Idle
  /\ heard' = [d \in Instruments |-> <<>>]
  /\ obeyed' = {}
  /\ UNCHANGED <<roles, eos_mode>>

Devices == Instruments \union Misnamed \union {Board}

Next ==
  \/ \E d \in Devices, message \in Messages, flags \in Flags, eot \in BOOLEAN :
       ibwrt(d, message, flags, eot)
  \/ \E ds \in (SUBSET Instruments) \union {{d} : d \in Misnamed}, message \in Messages,
        eotmode \in send_eotmode : SendList(ds, message, eotmode)
  \/ my_ibwrt
  \/ InternalSendDataBytes
  \/ \E d \in Devices, flags \in Flags : my_ibrd(d, flags)
  \/ \E d \in Instruments \union Misnamed, termination \in {{}, {"eos"}} :
       InternalReceive(d, termination)
  \/ read_data
  \/ Commands
  \/ \E d \in Instruments \union Misnamed : serial_poll_single(d)
  \/ ibcmd
  \/ ibsic
  \/ Return

Spec == Init /\ [][Next]_vars

(* Under a time limit a driver moves data, or the watchdog ends the transfer   *)
(* with an error: steps that change nothing do not go on for ever.  Without a  *)
(* limit they may: a write of which nothing is taken is tried again and again, *)
(* a read waits.                                                             *)
FairSpec ==
  /\ Spec
  /\ WF_vars(call.limited /\ my_ibwrt)
  /\ WF_vars(call.limited /\ InternalSendDataBytes)
  /\ WF_vars(call.limited /\ read_data)

-----------------------------------------------------------------------------
Reads == call.what \in {"ibrd", "Receive"}

(* When data begins to move after a setup that was sent in full, a write has   *)
(* the board for its only talker and exactly the instruments it names for its *)
(* listeners, a read the instrument it names and the board; whatever the       *)
(* calls before left behind, a serial poll that broke off included.           *)
AddressedRight ==
  call.at = "data" /\ ~call.blind =>
    IF Reads THEN Talkers(roles) = call.to /\ Listeners(roles) = {Board}
    ELSE Talkers(roles) = {Board} /\ Listeners(roles) = call.to

(* A clear, a trigger or a return to local mode reaches no instrument but the  *)
(* named ones, and all of them when it reports success.                      *)
CommandReachesThose ==
  call.what \in {"ibclr", "ibloc", "trigger", "DevClearList"} /\ ~call.blind =>
    obeyed \subseteq call.to /\ (call.ret = 0 => obeyed = call.to)

Writes == call.what \in {"ibwrt", "SendList"}
Sent == SubSeq(call.message, 1, Len(call.message) - Len(call.left))
        \o IF call.newline = "sent" THEN <<"newline">> ELSE <<>>

(* An instrument that a write addresses has had, in order and once each, the   *)
(* bytes of the message that are not left to send, across all the blocks and  *)
(* partial writes, then the newline where one was sent, as long as every count *)
(* reported was the number heard; the other instruments have had nothing, even *)
(* if one was not.  A successful ibwrt has left nothing.                      *)
InOrder ==
  /\ Writes /\ ~call.blind =>
       \A d \in Instruments :
         /\ d \notin call.to => heard[d] = <<>>
         /\ d \in call.to /\ call.miscounts = 0 =>
              [i \in DOMAIN heard[d] |-> heard[d][i].byte] = Sent
  /\ call.what = "ibwrt" /\ call.at = "over" /\ call.ret = 0 => call.left = <<>>

(* Without XEOS, and as long as every count reported was right, an instrument  *)
(* sees EOI at the end of the message only, never in the middle of it however  *)
(* it was cut, and it does see it there when EOI is enabled and the call has   *)
(* succeeded with all bytes sent.                                            *)
EoiAtEnd ==
  Writes /\ "XEOS" \notin call.flags /\ call.miscounts = 0 =>
    \A d \in Instruments :
      /\ \A i \in DOMAIN heard[d] :
           heard[d][i].eoi =>
             i = Len(heard[d]) /\ (call.left = <<>> \/ call.newline = "sent")
      /\ d \in call.to /\ ~call.blind /\ call.eot /\ call.at = "over" /\ call.ret = 0
         /\ heard[d] # <<>> /\ call.left = <<>> => Last(heard[d]).eoi

(* XEOS asserts EOI when the EOS character is sent, and so on no other byte    *)
(* if EOI at the end is not enabled.                                          *)
EoiWithEos ==
  Writes /\ "XEOS" \in call.flags /\ ~call.eot =>
    \A d \in Instruments : \A i \in DOMAIN heard[d] :
      heard[d][i].eoi => IsEos(heard[d][i].byte, call.flags)

(* A read stops at the character its own settings or its own call name, or at  *)
(* none if they name none: what an earlier call was told to stop at is not in  *)
(* force for it.  Only settings that enable_eos refuses, REOS without BIN,     *)
(* leave the read with the mode of before.                                   *)
NoForeignEos ==
  call.at = "data" =>
    /\ call.what = "ibrd" /\ Accepts(Bool("REOS", call.flags), Bool("BIN", call.flags)) =>
         eos_mode = IF Bool("REOS", call.flags) THEN "settings" ELSE "none"
    /\ call.what = "Receive" => eos_mode = IF call.flags = {} THEN "none" ELSE "call"

(* The two ways in which a write with XEOS never comes back: a block of no     *)
(* bytes when the EOS byte is next, and a search that does not reach the end   *)
(* of a long message.                                                         *)
Endless ==
  /\ call.what = "ibwrt" /\ "XEOS" \in call.flags /\ call.left # <<>>
  /\ SearchesOn(call.left, call.flags) \/ BlockSize(call.left, call.flags) = 0

(* Otherwise every transfer that has a time limit comes to an end, its message *)
(* sent or its error reported, however it is cut into blocks.                 *)
TransferEnds == call.at = "data" /\ call.limited ~> (call.at = "over" \/ Endless)
=============================================================================
