----------------------------- MODULE MCLinkThread -----------------------------
(* Values for the constants of LinkThread. *)
EXTENDS LinkThread

CONSTANTS b1, b2, t1, t2, t3

(* Two threads meet on the first board, one of them closes it; the third has   *)
(* a board of its own that competes for hotplug_lock.                         *)
MCUses == t1 :> {b1} @@ t2 :> {b1} @@ t3 :> {b2}
MCCalls == t1 :> {"ioctl", "cancelThread", "getBoardName"} @@ t2 :> Kinds \ {"ioctl", "getBoardName"}
           @@ t3 :> {"ioctl", "IBONL", "iboffline"}
=============================================================================
