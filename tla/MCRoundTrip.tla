----------------------------- MODULE MCRoundTrip -----------------------------
(* The wrappers of the latency kind, for TLC.                              *)
EXTENDS RoundTrip

Wrappers ==
  {LibzmqCpp, RustZmq, Tmq, Monocoque, OmqTokio, OmqBlocking, Rzmq, ZmqRs,
   ZeromqRs, Celerity, Pyzmq, OmqRb, OmqCr, Jeromq, Netmq}
=============================================================================
