------------------------------ MODULE MCBackoff -----------------------------
(* Instances of Backoff for TLC: 16 bits stand for 64.  The default backoff of *)
(* 100 ms takes 27 of the 63 value bits, and its shift wraps after attempt 38. *)
EXTENDS Backoff

MCBackoffs == 1 .. 40
=============================================================================
