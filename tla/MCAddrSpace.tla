---------------------------- MODULE MCAddrSpace ----------------------------
(* AddrSpace on two CPUs: the roots of two processes lie under one last table,
   that of the third under another. *)
EXTENDS AddrSpace

MCPtOf == <<"pt1", "pt1", "pt2">>
=============================================================================
