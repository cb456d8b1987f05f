---------------------------- MODULE MCTurnExecutor ----------------------------
(* Small instances of TurnExecutor for TLC.                                *)
EXTENDS TurnExecutor, TLC

CONSTANTS c1, c2, u1, u2, i1, h1, w1, f1

MCCtxOf == [r \in Request |-> IF r = f1 THEN c2 ELSE c1]

MCKindOf == [r \in Request |-> CASE r \in {u1, u2} -> "user"
                                 [] r = i1 -> "idle"
                                 [] r = h1 -> "legacy"
                                 [] r = w1 -> "wake"
                                 [] r = f1 -> "file"]

(* Two user messages of one conversation differ in nothing but the name.   *)
Symmetry == Permutations({u1, u2})
=============================================================================
