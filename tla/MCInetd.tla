------------------------------- MODULE MCInetd ------------------------------
(* Inetd for TLC: one stream service between two datagram services. *)
EXTENDS Inetd

ThreeServices == <<"dg_echo", "str_dis", "dg_dis">>
TwoDatagram == {"dg_echo", "dg_dis"}
=============================================================================
