--------------------------- MODULE MCProvisioning ---------------------------
(* An instance of Provisioning for TLC.  One part of the life of the process *)
(* at a time misbehaves.  Of the trees there are two sources, one of them    *)
(* pinned and with a second revision the manifest gate rejects, and a plugin *)
(* that only the shared directory has.  Of the files, the privileged plugin  *)
(* b is installed after a; its first revision ships the same hook handler as *)
(* a, the second drops it and a hook file that a ships too, and changes the  *)
(* skill file.                                                               *)
EXTENDS Provisioning

CONSTANTS A, B, x, y, a, b, s, f, h

OneAtATime == {{z} : z \in Part}
TwoBundles == {A, B}
TwoFiles == {x, y}

OnePinned == {b}
OneShared == {s}
SecondOfB == {<<b, 2>>}
AllNames == {a, b, s}
Declarable == {a, b}

TwoPlugins == {a, b}
Order == [p \in {a, b} |-> IF p = a THEN 1 ELSE 2]
OnlyB == {b}
OnlyA == {a}
OneSkill == {"skill"}
TwoPaths == {s, f}
DirectoryOf == [z \in {s, f} |-> IF z = f THEN "claude" ELSE "skill"]
OneHandler == {h}
Files == [p \in {a, b} |-> [r \in 1..2 |->
             IF p = a THEN {f} ELSE IF r = 1 THEN {s, f} ELSE {s}]]
Handlers == [p \in {a, b} |-> [r \in 1..2 |->
               IF p = b /\ r = 2 THEN {} ELSE {h}]]
=============================================================================
