------------------------------ MODULE MCSettings ------------------------------
(* Values for the constants of Settings. *)
EXTENDS Settings

(* For every option its legal values or some of them, the ones next to the    *)
(* limits of its range, and one that is cut down to a byte.                   *)
MCValues ==
  [option \in ibconfig_option |->
     CASE option = "PAD" -> {31, 261}
       [] option = "SAD" -> {99, 127}
       [] option \in {"TMO", "SPollTime", "PPollTime"} -> {0, 11, 18}
       [] option = "EOT" -> {0, 1, 256}
       [] option = "EOSchar" -> {200, 256}
       [] option = "PPC" -> {5, 104}
       [] option = "TIMING" -> {0, 1, 3}
       [] option = "Rsv" -> {64}
       [] option = "SPollBit" -> {0}
       [] option \in (OnlyZero \union OnlyNonzero \union {"PP2"}) \ {"IRQ"} -> {1}
       [] OTHER -> {0, 1}]
=============================================================================
