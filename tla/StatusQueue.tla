----------------------------- MODULE StatusQueue -----------------------------
(***************************************************************************)
(* The queue of serial poll bytes that a board keeps for one open device   *)
(* (gpib_status_queue, gpib_board.m) and its two users in gpib_sys.m:      *)
(* serial_poll_all, which polls every open device and stores the byte of   *)
(* one that requests service, and get_serial_poll_byte, which hands a      *)
(* stored byte to the caller or, when none is stored, polls the device.    *)
(*                                                                         *)
(* Nothing in the repository calls autopoll_all_devices, the only caller of *)
(* serial_poll_all: in the program as it stands the queues stay empty, and  *)
(* push_status_byte is modelled as a public operation of the board.         *)
(*                                                                         *)
(* Both run on the board's link thread, one request at a time, so each is  *)
(* one step.  A poll byte is abstracted to the number of the poll that     *)
(* read it: what the queue must keep apart is which byte is which and in   *)
(* what order they were read.                                              *)
(***************************************************************************)
EXTENDS Naturals, Sequences, SequencesExt

CONSTANTS
  MaxStatusBytes,  \* max_nustatus_bytes of push_status_byte (1024)
  MaxPolls         \* bound on the polls of one behaviour

ASSUME QueueAssumption ==
  /\ MaxStatusBytes \in Nat \ {0}
  /\ MaxPolls \in Nat

VARIABLES
  status_bytes,   \* the stored bytes, oldest first
  dropped_byte,   \* "a byte was lost": makes the next pop fail with -EPIPE
  polls,          \* how many poll bytes the board has read so far
  delivered,      \* the bytes handed to callers, in order
  refused,        \* the bytes push_status_byte did not store
  failed,         \* the bytes of polls that read them and then failed
  reports         \* how often a caller was told of a loss (-EPIPE, ESTB)

queue_vars == <<status_bytes, dropped_byte, polls, delivered, refused, failed,
                reports>>

num_status_bytes == Len(status_bytes)

init_gpib_status_queue ==
  /\ status_bytes = <<>>
  /\ dropped_byte = FALSE
  /\ polls = 0
  /\ delivered = <<>>
  /\ refused = {}
  /\ failed = {}
  /\ reports = 0

-----------------------------------------------------------------------------
(* serial_poll_all finds the device requesting service and pushes its byte. *)
(* On a full queue push_status_byte sets dropped_byte and pops a byte to    *)
(* make room; that pop finds dropped_byte set, clears it and fails, and the *)
(* push returns its error without storing the new byte.                     *)

PushStores ==
  /\ num_status_bytes < MaxStatusBytes
  /\ status_bytes' = Append(status_bytes, polls')
  /\ UNCHANGED <<dropped_byte, refused>>

PushOnFull ==
  /\ num_status_bytes >= MaxStatusBytes
  /\ dropped_byte' = FALSE
  /\ refused' = refused \union {polls'}
  /\ UNCHANGED status_bytes

push_status_byte ==
  /\ polls < MaxPolls
  /\ polls' = polls + 1
  /\ PushStores \/ PushOnFull
  /\ UNCHANGED <<delivered, failed, reports>>

(* A device gives its byte and the poll fails nevertheless: in the read     *)
(* itself, in the clean-up, or by a time limit that ran out meanwhile.  The *)
(* device has cleared its request and the byte is gone.  serial_poll_all    *)
(* goes on with the next device and tells nobody.                           *)
ReadThenFail ==
  /\ polls < MaxPolls
  /\ polls' = polls + 1
  /\ failed' = failed \union {polls'}
  /\ UNCHANGED <<status_bytes, dropped_byte, delivered, refused, reports>>

(* A caller's get_serial_poll_byte with bytes stored: pop_status_byte.      *)

PopWithoutRemoval ==  \* mutant: the byte stays in the array
  /\ num_status_bytes > 0
  /\ delivered' = Append(delivered, Last(status_bytes))
  /\ UNCHANGED <<status_bytes, dropped_byte, polls, refused, failed, reports>>

pop_status_byte ==
  /\ num_status_bytes > 0
  /\ IF dropped_byte
     THEN /\ dropped_byte' = FALSE
          /\ reports' = reports + 1
          /\ UNCHANGED <<status_bytes, delivered>>
     ELSE /\ delivered' = Append(delivered, Last(status_bytes))
          /\ status_bytes' = Front(status_bytes)
          /\ UNCHANGED <<dropped_byte, reports>>
  /\ UNCHANGED <<polls, refused, failed>>

(* A caller's get_serial_poll_byte with nothing stored: dvrsp polls the     *)
(* device and the caller gets the fresh byte, or an error in place of a     *)
(* byte that was read.  A poll that fails before the byte is read changes   *)
(* nothing here.                                                            *)
PollAlways ==  \* mutant: the device is polled although bytes are stored
  /\ polls < MaxPolls
  /\ polls' = polls + 1
  /\ delivered' = Append(delivered, polls')
  /\ UNCHANGED <<status_bytes, dropped_byte, refused, failed, reports>>

PollGives ==
  /\ polls < MaxPolls
  /\ polls' = polls + 1
  /\ delivered' = Append(delivered, polls')
  /\ UNCHANGED <<status_bytes, dropped_byte, refused, failed, reports>>

PollDirectly ==
  /\ num_status_bytes = 0
  /\ PollGives \/ ReadThenFail

get_serial_poll_byte == pop_status_byte \/ PollDirectly

QueueNext == push_status_byte \/ ReadThenFail \/ get_serial_poll_byte

QueueSpec == init_gpib_status_queue /\ [][QueueNext]_queue_vars

-----------------------------------------------------------------------------
(* Type correctness: the queue never holds more than max_nustatus_bytes,    *)
(* and every byte is the byte of some poll.                                 *)
QueueTypeOK ==
  /\ status_bytes \in Seq(1..polls)
  /\ Len(status_bytes) <= MaxStatusBytes
  /\ dropped_byte \in BOOLEAN
  /\ polls \in Nat
  /\ delivered \in Seq(1..polls)
  /\ refused \subseteq 1..polls
  /\ failed \subseteq 1..polls
  /\ reports \in Nat

(* No byte is duplicated or invented, and there are two ways to lose one:    *)
(* every byte the board read is stored once, or was handed to exactly one    *)
(* caller, or was refused by a full queue, or was read by a poll that then   *)
(* failed, and never two of these.                                           *)
Stored == Range(status_bytes)
Handed == Range(delivered)

EachByteOnce ==
  /\ IsInjective(status_bytes)
  /\ IsInjective(delivered)
  /\ Stored \intersect Handed = {}
  /\ refused \intersect (Stored \union Handed) = {}
  /\ failed \intersect (Stored \union Handed \union refused) = {}
  /\ Stored \union Handed \union refused \union failed = 1..polls

(* The queue is a store as StatusBytes describes it: a byte leaves it only to *)
(* a caller, none is refused while there is room, only a poll that fails      *)
(* spoils one, and no fresh byte is read for a caller past the stored ones.   *)
Store == INSTANCE StatusBytes WITH
  Limit <- MaxStatusBytes, read <- polls, stored <- Range(status_bytes),
  given <- Range(delivered), lost <- refused, spoilt <- failed

IsStore == Store!Spec
=============================================================================
