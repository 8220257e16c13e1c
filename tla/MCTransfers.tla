------------------------------ MODULE MCTransfers -----------------------------
(* Values for the constants of Transfers. *)
EXTENDS Transfers

MCBoard == [pad |-> 0, sad |-> -1]

(* One instrument with a primary address alone, two that share one.          *)
MCInstruments ==
  {[pad |-> 5, sad |-> -1], [pad |-> 6, sad |-> 1], [pad |-> 6, sad |-> 2]}

(* What IbcSAD leaves in the primary address.                                *)
MCMisnamed == {[pad |-> 99, sad |-> -1]}

(* The index of find_eos, of two values, reaches the EOS byte of the first     *)
(* and not that of the second.                                               *)
MCMessages == {<<"eos7", "eos">>, <<"plain", "plain", "eos">>, <<>>}

(* Reads look at REOS and BIN, writes at XEOS and BIN.                       *)
MCFlags == {{"REOS"}, {"XEOS"}, {"REOS", "XEOS", "BIN"}}

(* The board and all instruments but one have a time limit.                  *)
MCLimited == {MCBoard, [pad |-> 5, sad |-> -1], [pad |-> 6, sad |-> 1]}
=============================================================================
