-------------------------- MODULE MCMediaDownloader --------------------------
(* The media downloader for TLC: jobs 1 to 3 are of a user who may run one  *)
(* at a time, 4 and 5 of two other users.  When those hold both global      *)
(* slots, jobs 1 and 2 wait and fill the queue, and job 3 finds it full.    *)
EXTENDS MediaDownloader

CONSTANTS u1, u2, u3

MCUsers == {u1, u2, u3}
MCJobs  == 1..5
MCOwner == [j \in MCJobs |-> CASE j = 4 -> u2 [] j = 5 -> u3 [] OTHER -> u1]
=============================================================================
