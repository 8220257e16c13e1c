---------------------------- MODULE MCPythonCalls ----------------------------
(* Values for the constants of PythonCalls. *)
EXTENDS PythonCalls

CONSTANTS t1, t2

(* One thread calls a function of every kind, the other waits, which holds    *)
(* the board without a limit and changes the numbers in between.  Those left *)
(* out do what one of these does: write what read does, config and           *)
(* remote_enable what timeout does, ibloc and trigger what clear does,       *)
(* write_async what command does, version what ibcnt does.                   *)
MCMethods ==
  [t \in Threads |->
     IF t = t1
     THEN {"find", "dev", "ask", "listener", "read", "command", "clear", "close",
           "timeout", "serial_poll", "spoll_bytes", "ibcnt"}
     ELSE {"wait"}]
=============================================================================
