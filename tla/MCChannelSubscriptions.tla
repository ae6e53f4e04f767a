----------------------- MODULE MCChannelSubscriptions -----------------------
(* Two callers, two channels.                                              *)
EXTENDS ChannelSubscriptions
=============================================================================
