---------------------------- MODULE MCGpibLibrary ----------------------------
(* GpibLibrary with the board (descriptor 0) and two devices (1 and 2), which *)
(* stand for 16 and 17.  A thread per descriptor, or all threads on all of    *)
(* them.                                                                      *)
EXTENDS GpibLibrary

CONSTANTS t1, t2

MCPads == {0, 4, 5, 97}
MCSads == {-96}
Separate == [t \in Threads |-> IF t = t1 THEN {0, 1} ELSE {2}]
Together == [t \in Threads |-> Uds]
Device1 == [t \in Threads |-> {1}]

(* Views: what no action and no property of the run asks for is left out.     *)
(* Nobody reads the last reply, a raise or an abort depends neither on the    *)
(* bus nor on the time limit, and blind is for a transfer that is to come.    *)
Table == <<m_descriptors, m_device_list, m_address, link_thread, raised>>
Guarded == <<Table, ibConfigs, call, known, aborted>>
ToTransfer(t) == \E i \in DOMAIN call[t].todo : call[t].todo[i] \in {"IBRD", "IBWRT"}
OnTheBus == <<Guarded, usec_timeout, bus, [t \in Threads |-> blind[t] /\ ToTransfer(t)]>>
==============================================================================
