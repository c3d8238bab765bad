---------------------------- MODULE MCWindowCount ----------------------------
(* The wrappers of the multi-peer kinds, for TLC.                          *)
EXTENDS WindowCount

Wrappers ==
  {LibzmqCpp, RustZmq, Tmq, Rzmq, ZeromqRs, Celerity, ZmqRs, MonocoquePubsub,
   MonocoqueFanout, MonocoqueFanin, OmqTokio, OmqMultiThread, OmqBlocking, Pyzmq,
   OmqRb, OmqCr, Jeromq, Netmq}
=============================================================================
