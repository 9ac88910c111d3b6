---------------------------- MODULE MCRecvMsgList ----------------------------
(* RecvMsgList with the two lists of a service, which share messages.      *)
EXTENDS RecvMsgList, TLC
=============================================================================
