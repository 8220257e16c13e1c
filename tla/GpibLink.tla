------------------------------- MODULE GpibLink -------------------------------
(***************************************************************************)
(* The device table of one interface board, as the ioctl handlers of       *)
(* gpib_link.m keep it on the link thread:                                 *)
(*   - m_descriptors, the open descriptors; a client names one by its      *)
(*     index, the handle it got from IBOPENDEV;                            *)
(*   - m_device_list, the addresses in use on the bus, each with the       *)
(*     number of descriptors open on it and a queue of status bytes.       *)
(* -[gpib_link ioctl:] holds m_big_gpib_mutex and waits for the link       *)
(* thread, so every handler is one step.  Here a client may issue any      *)
(* ioctl with any handle at any time; the library's own clients are the    *)
(* module GpibLibrary.                                                     *)
(*                                                                         *)
(* Objective-C's objectAtIndex: raises NSRangeException for an index that  *)
(* is out of range, which nothing catches: the process ends ("raised").    *)
(***************************************************************************)
EXTENDS Integers, Sequences, FiniteSets, SequencesExt

CONSTANTS
  Pads,             \* primary addresses a descriptor may get
  Sads,             \* secondary addresses, negative for "none"
  DescriptorLimit,  \* GPIB_MAX_NUM_DESCRIPTORS (0x1000)
  MaxOpen,          \* bound on the descriptors open at once
  MaxStatusBytes    \* max_nustatus_bytes (1024)

ASSUME LinkAssumption ==
  /\ Pads \subseteq Nat
  /\ Sads \subseteq Int
  /\ DescriptorLimit \in Nat \ {0}
  /\ MaxOpen \in Nat
  /\ MaxStatusBytes \in Nat \ {0}

VARIABLES
  m_descriptors,  \* the NSMutableArray of gpib_descriptor, handle h at h + 1
  m_device_list,  \* for every address: reference_count (0: not in the list)
                  \*   and num_status_bytes
  m_address,      \* the board's own primary and secondary address
  link_thread,    \* "executing" until close has cancelled it
  raised,         \* an uncaught exception has ended the process
  reply           \* what the last ioctl answered

vars == <<m_descriptors, m_device_list, m_address, link_thread, raised, reply>>
tables == <<m_descriptors, m_device_list>>

gpib_addr_max == 30

(* gpib_address_equal: two negative secondary addresses are the same.       *)
Address(pad, sad) == <<pad, IF sad < 0 THEN -1 ELSE sad>>
Addresses == {Address(p, s) : p \in Pads, s \in Sads}
AddressOf(desc) == Address(desc.pad, desc.sad)

Descriptor == [pad : Pads, sad : Sads, is_board : BOOLEAN,
               io_in_progress : BOOLEAN]
Device == [reference_count : Nat, num_status_bytes : 0..MaxStatusBytes]
Absent == [reference_count |-> 0, num_status_bytes |-> 0]

Replies == [ret : {"ok", "error"}, handle : Int, cmpl : BOOLEAN,
            cmd : {"none", "open", "status", "other"}]
Ok == [ret |-> "ok", handle |-> -1, cmpl |-> FALSE, cmd |-> "other"]
Failed == [Ok EXCEPT !.ret = "error"]

Handles == -1 .. MaxOpen

(* The indices of the descriptors open at an address.                       *)
DescriptorsAt(a) == {i \in DOMAIN m_descriptors : AddressOf(m_descriptors[i]) = a}

(* init_gpib_sys and init_gpib_board: nothing open, board address 29, 0.    *)
Init ==
  /\ m_descriptors = <<>>
  /\ m_device_list = [a \in Addresses |-> Absent]
  /\ m_address = [pad |-> 29, sad |-> 0]
  /\ link_thread = "executing"
  /\ raised = FALSE
  /\ reply = [Ok EXCEPT !.cmd = "none"]

-----------------------------------------------------------------------------
(* gpib_board's open device counts.                                          *)

increment_open_device_count(list, a) ==
  [list EXCEPT ![a].reference_count = @ + 1]

(* Fails with -EINVAL ("gpib: bug! ...") when the address is not listed or   *)
(* has fewer openings than are to be taken away.                             *)
CanSubtract(list, a, count) ==
  /\ list[a].reference_count > 0
  /\ count <= list[a].reference_count

SubtractKeepsEntry(list, a, count) ==  \* mutant: an entry at 0 is not removed
  [list EXCEPT ![a].reference_count = @ - count]

SubtractDropsEntry(list, a, count) ==  \* mutant: the entry goes with the first close
  [list EXCEPT ![a] = Absent]

subtract_open_device_count(list, a, count) ==
  IF list[a].reference_count = count
  THEN [list EXCEPT ![a] = Absent]
  ELSE [list EXCEPT ![a].reference_count = @ - count]

decrement_open_device_count(list, a) == subtract_open_device_count(list, a, 1)

-----------------------------------------------------------------------------
(* handle_to_descriptor: NULL for a handle outside 0..DescriptorLimit - 1;   *)
(* an index past the end of m_descriptors raises.                            *)
NoDescriptor(h) == h < 0 \/ h >= DescriptorLimit
OutOfRange(h) == h >= Len(m_descriptors)

Running == link_thread = "executing" /\ ~raised

Raise ==
  /\ raised' = TRUE
  /\ UNCHANGED <<m_descriptors, m_device_list, m_address, link_thread, reply>>

Refuse ==
  /\ reply' = Failed
  /\ UNCHANGED <<m_descriptors, m_device_list, m_address, link_thread, raised>>

(* The handler's effect on the descriptor that handle h names.               *)
WithDescriptor(h, Effect(_)) ==
  \/ NoDescriptor(h) /\ Refuse
  \/ ~NoDescriptor(h) /\ OutOfRange(h) /\ Raise
  \/ ~NoDescriptor(h) /\ ~OutOfRange(h) /\ Effect(h + 1)

(* open_dev_ioctl: the first descriptor at this address is shared, without   *)
(* counting the opening; otherwise a new one is appended and counted.        *)
OpenCountsTwice(pad, sad, is_board) ==  \* mutant: the new address is counted twice
  LET a == Address(pad, sad)
  IN  /\ Running
      /\ DescriptorsAt(a) = {}
      /\ Len(m_descriptors) < MaxOpen
      /\ m_descriptors' = Append(m_descriptors,
                 [pad |-> pad, sad |-> sad, is_board |-> is_board,
                  io_in_progress |-> FALSE])
      /\ m_device_list' = increment_open_device_count(
                            increment_open_device_count(m_device_list, a), a)
      /\ reply' = [Ok EXCEPT !.cmd = "open", !.handle = Len(m_descriptors)]
      /\ UNCHANGED <<m_address, link_thread, raised>>

OpenNew(pad, sad, is_board) ==
  LET a == Address(pad, sad)
  IN  /\ Running
      /\ DescriptorsAt(a) = {}
      /\ Len(m_descriptors) < MaxOpen
      /\ m_descriptors' = Append(m_descriptors,
                 [pad |-> pad, sad |-> sad, is_board |-> is_board,
                  io_in_progress |-> FALSE])
      /\ m_device_list' = increment_open_device_count(m_device_list, a)
      /\ reply' = [Ok EXCEPT !.cmd = "open", !.handle = Len(m_descriptors)]
      /\ UNCHANGED <<m_address, link_thread, raised>>

OpenShared(pad, sad) ==
  LET at == DescriptorsAt(Address(pad, sad))
  IN  /\ Running
      /\ at # {}
      /\ \E i \in at : /\ \A j \in at : i <= j
                       /\ reply' = [Ok EXCEPT !.cmd = "open", !.handle = i - 1]
      /\ UNCHANGED <<tables, m_address, link_thread, raised>>

open_dev_ioctl(pad, sad, is_board) ==
  OpenNew(pad, sad, is_board) \/ OpenShared(pad, sad)

(* close_dev_ioctl indexes m_descriptors itself: every handle that is not an *)
(* index (a negative one is a huge unsigned) raises.                         *)
CloseAt(i) ==
  LET a == AddressOf(m_descriptors[i])
  IN  IF CanSubtract(m_device_list, a, 1)
      THEN /\ m_device_list' = decrement_open_device_count(m_device_list, a)
           /\ m_descriptors' = RemoveAt(m_descriptors, i)
           /\ reply' = Ok
           /\ UNCHANGED <<m_address, link_thread, raised>>
      ELSE Refuse

close_dev_ioctl(h) ==
  /\ Running
  /\ \/ (h < 0 \/ OutOfRange(h)) /\ Raise
     \/ h >= 0 /\ ~OutOfRange(h) /\ CloseAt(h + 1)

(* pad_ioctl and sad_ioctl.  For a board, pad_ioctl sets the board's address *)
(* to the one the descriptor already has.  For a device, the count moves     *)
(* from the old address to the new one.                                      *)
Readdress(i, desc) ==
  LET old == AddressOf(m_descriptors[i])
  IN  IF CanSubtract(m_device_list, old, 1)
      THEN /\ m_descriptors' = [m_descriptors EXCEPT ![i] = desc]
           /\ m_device_list' =
                increment_open_device_count(
                  decrement_open_device_count(m_device_list, old),
                  AddressOf(desc))
           /\ reply' = Ok
           /\ UNCHANGED <<m_address, link_thread, raised>>
      ELSE Refuse

SetBoardAddress(pad, sad) ==
  /\ m_address' = [pad |-> pad, sad |-> sad]
  /\ reply' = Ok
  /\ UNCHANGED <<tables, link_thread, raised>>

ibpad(pad) == IF pad > gpib_addr_max THEN Refuse
              ELSE SetBoardAddress(pad, m_address.sad)

ibsad(sad) == IF sad > gpib_addr_max THEN Refuse
              ELSE SetBoardAddress(m_address.pad, sad)

pad_ioctl(h, pad) ==
  /\ Running
  /\ WithDescriptor(h, LAMBDA i :
       IF m_descriptors[i].is_board
       THEN ibpad(m_descriptors[i].pad)
       ELSE Readdress(i, [m_descriptors[i] EXCEPT !.pad = pad]))

sad_ioctl(h, sad) ==
  /\ Running
  /\ WithDescriptor(h, LAMBDA i :
       IF m_descriptors[i].is_board
       THEN ibsad(sad)
       ELSE Readdress(i, [m_descriptors[i] EXCEPT !.sad = sad]))

-----------------------------------------------------------------------------
(* read_ioctl, write_ioctl and command_ioctl on the descriptor: the flag is  *)
(* set while the transfer runs and clear again on every way out.             *)
transfer_ioctl(h) ==
  /\ Running
  /\ WithDescriptor(h, LAMBDA i :
       /\ m_descriptors' = [m_descriptors EXCEPT ![i].io_in_progress = FALSE]
       /\ reply' \in {Ok, Failed}
       /\ UNCHANGED <<m_device_list, m_address, link_thread, raised>>)

(* wait_ioctl with an empty wait mask: general_ibstatus reports CMPL when    *)
(* io_in_progress was clear, and leaves it set; then a set_mask with CMPL    *)
(* sets it, and a clear_mask with CMPL clears it.                            *)
Masks == {"none", "set_CMPL", "clear_CMPL"}

wait_ioctl(h, mask) ==
  /\ Running
  /\ WithDescriptor(h, LAMBDA i :
       /\ reply' = [Ok EXCEPT !.cmd = "status",
                              !.cmpl = ~m_descriptors[i].io_in_progress]
       /\ m_descriptors' = [m_descriptors EXCEPT ![i].io_in_progress =
                              (mask # "clear_CMPL")]
       /\ UNCHANGED <<m_device_list, m_address, link_thread, raised>>)

(* serial_poll_ioctl (get_serial_poll_byte): takes a stored byte, or polls   *)
(* the device (dvrsp), which may fail.                                       *)
serial_poll_ioctl(pad, sad) ==
  LET a == Address(pad, sad)
  IN  /\ Running
      /\ \/ /\ m_device_list[a].num_status_bytes > 0
            /\ m_device_list' = [m_device_list EXCEPT ![a].num_status_bytes = @ - 1]
            /\ reply' = Ok
         \/ /\ m_device_list[a].num_status_bytes = 0
            /\ reply' \in {Ok, Failed}
            /\ UNCHANGED m_device_list
      /\ UNCHANGED <<m_descriptors, m_address, link_thread, raised>>

(* serial_poll_all: every descriptor's address is polled; the descriptors    *)
(* in rqs answered with the request service bit, and a full queue refuses    *)
(* the byte.  A setup or a cleanup command that fails makes it an error, in  *)
(* the first case with rqs empty.  get_gpib_status_queue must find the       *)
(* queue: a byte pushed to a missing one writes through nil.                 *)
Pushed(rqs, a) == Cardinality({i \in rqs : AddressOf(m_descriptors[i]) = a})

NoLimit(n, limit) == n  \* mutant: a full queue still takes the byte

AtMost(n, limit) == IF n > limit THEN limit ELSE n

serial_poll_all(rqs) ==
  /\ Running
  /\ IF \E i \in rqs :
          m_device_list[AddressOf(m_descriptors[i])].reference_count = 0
     THEN Raise
     ELSE /\ m_device_list' = [a \in Addresses |->
               [m_device_list[a] EXCEPT !.num_status_bytes =
                  AtMost(@ + Pushed(rqs, a), MaxStatusBytes)]]
          /\ reply' \in {Ok, Failed}
          /\ UNCHANGED <<m_descriptors, m_address, link_thread, raised>>

-----------------------------------------------------------------------------
(* close: the link thread is cancelled and cleanup_open_devices empties the  *)
(* table.  Its loop advances its index over an array that shrinks under it,  *)
(* so it takes the 1st, 3rd, 5th... descriptor and leaves the others, and it *)
(* does not take back the count of a board's descriptor.                     *)
Visited == {i \in DOMAIN m_descriptors : i % 2 = 1}
Uncounted(a) == Cardinality({i \in Visited : /\ AddressOf(m_descriptors[i]) = a
                                             /\ ~m_descriptors[i].is_board})

cleanup_open_devices ==
  /\ m_descriptors' = [i \in 1 .. Len(m_descriptors) \div 2 |-> m_descriptors[2 * i]]
  /\ m_device_list' = [a \in Addresses |->
       IF Uncounted(a) = 0 THEN m_device_list[a]
       ELSE subtract_open_device_count(m_device_list, a, Uncounted(a))[a]]

close ==
  /\ Running
  /\ link_thread' = "finished"
  /\ cleanup_open_devices
  /\ reply' = Ok
  /\ UNCHANGED <<m_address, raised>>

(* An ioctl on a board whose link thread has ended returns -1.               *)
IoctlAfterClose == ~raised /\ link_thread = "finished" /\ Refuse

Next ==
  \/ \E pad \in Pads, sad \in Sads, b \in BOOLEAN : open_dev_ioctl(pad, sad, b)
  \/ \E h \in Handles : close_dev_ioctl(h)
  \/ \E h \in Handles, pad \in Pads : pad_ioctl(h, pad)
  \/ \E h \in Handles, sad \in Sads : sad_ioctl(h, sad)
  \/ \E h \in Handles : transfer_ioctl(h)
  \/ \E h \in Handles, mask \in Masks : wait_ioctl(h, mask)
  \/ \E pad \in Pads, sad \in Sads : serial_poll_ioctl(pad, sad)
  \/ \E rqs \in SUBSET DOMAIN m_descriptors : serial_poll_all(rqs)
  \/ close
  \/ IoctlAfterClose

Spec == Init /\ [][Next]_vars

-----------------------------------------------------------------------------
(* Type correctness: every descriptor and every status queue is in bounds.   *)
TypeOK ==
  /\ m_descriptors \in Seq(Descriptor)
  /\ m_device_list \in [Addresses -> Device]
  /\ m_address \in [pad : Nat, sad : Int]
  /\ link_thread \in {"executing", "finished"}
  /\ raised \in BOOLEAN
  /\ reply \in Replies

(* Until the board is closed, the reference count of every address is the    *)
(* number of descriptors open at it: no sequence of openings, closings and   *)
(* changes of address by any number of clients (increment_open_device_count  *)
(* and subtract_open_device_count) loses or gains one.  So no decrement ever *)
(* meets the "gpib: bug!" branches, and serial_poll_all always finds the     *)
(* queue of the device it polled.                                            *)
RefCountsMatch ==
  link_thread = "executing" =>
    \A a \in Addresses :
      m_device_list[a].reference_count = Cardinality(DescriptorsAt(a))

(* Status bytes are kept only for addresses somebody has open: an address    *)
(* that is opened again later does not inherit the bytes of an earlier user  *)
(* (subtract_open_device_count drops the queue with the last reference).     *)
NoOrphanBytes ==
  link_thread = "executing" =>
    \A a \in Addresses : DescriptorsAt(a) = {} => m_device_list[a] = Absent

(* A descriptor that is closed or moved away does not take with it the       *)
(* status bytes of an address another descriptor still has open: while two   *)
(* descriptors share an address its queue loses at most the one byte a       *)
(* serial poll hands out.                                                    *)
KeepsSharedBytes ==
  \A a \in Addresses :
    (/\ Cardinality(DescriptorsAt(a)) > 1
     /\ link_thread' = "executing") =>
      m_device_list'[a].num_status_bytes >= m_device_list[a].num_status_bytes - 1

SharedQueueSurvives == [][KeepsSharedBytes]_vars

=============================================================================
