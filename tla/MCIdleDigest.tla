----------------------------- MODULE MCIdleDigest -----------------------------
(* Small instances of IdleDigest for TLC: i is the pinned header, m a mail *)
(* section, g the goal.                                                    *)
EXTENDS IdleDigest

CONSTANTS i, m, g, x, y

(* The backoff starts at one tick and doubles.                             *)
MCBackoff == [step \in 0..LastStep |-> 2 ^ step]
=============================================================================
