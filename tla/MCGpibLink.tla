----------------------------- MODULE MCGpibLink -----------------------------
(* GpibLink with two primary addresses, one of them past gpib_addr_max, and *)
(* no secondary address: two addresses, three descriptors.                  *)
EXTENDS GpibLink

MCPads == {4, 31}
MCSads == {-1}
=============================================================================
