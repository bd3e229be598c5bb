----------------------------- MODULE MCSseStreams -----------------------------
(* The stream cap for TLC: its constants are given by the configuration.     *)
(* Liveness is checked in the same run, so requests are not declared         *)
(* symmetric.                                                                *)
EXTENDS SseStreams
=============================================================================
