----------------------------- MODULE MCServices -----------------------------
(* An instance of Services for TLC. *)
EXTENDS Services

CONSTANTS c1, c2, p1, own, r1, r2, s1, g1, g2, t1, t2, w1, w2, k1, k2,
          a1, a2, u1, n1, n2, m1, b1, h1, h2, l1, l2, e1

TwoCalls == {c1, c2}
OnePeer == {p1}
OneSource == {own}
TwoRequests == {r1, r2}
OneStream == {s1}
TwoGated == {g1, g2}
TwoTasks == {t1, t2}
TwoPauses == {w1, w2}
TwoScripts == {k1, k2}
TwoSkills == {a1, a2}
OneUpload == {u1}
TwoNames == {n1, n2}
OneMade == {m1}
OneBranch == {b1}
TwoHooks == {h1, h2}
TwoLanes == {l1, l2}
OneCaller == {e1}
SomeRoles == {{"operator"}, {"read-only"}, {}}
=============================================================================
