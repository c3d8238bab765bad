--------------------------- MODULE MCBlockTransfer ---------------------------
(* The fourteen wrappers, for TLC.                                         *)
EXTENDS BlockTransfer

Wrappers ==
  {LibzmqCpp, RustZmq, Tmq, Monocoque, OmqTokio, OmqBlocking, Rzmq, ZmqRs, Pyzmq,
   OmqRb, OmqCr, ZeromqRs, Jeromq, Netmq}
=============================================================================
