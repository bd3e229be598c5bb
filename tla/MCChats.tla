------------------------------- MODULE MCChats -------------------------------
(* The lists of the chats page for TLC.                                     *)
EXTENDS Chats

\* Ids are numbers, for their order.
MCRows == 1..3
=============================================================================
