----------------------------- MODULE ConfigRelay -----------------------------
(***************************************************************************)
(* The first thing a boot does (config_relay.py): the control plane has    *)
(* staged a one-shot bundle of configuration files; the boot fetches it,   *)
(* unpacks it file by file, leaves a marker with the bundle's hash and     *)
(* acknowledges it, upon which the control plane deletes the object.       *)
(*                                                                         *)
(* The bundle is its hash.  Module Boot puts these steps in their place.   *)
(***************************************************************************)
CONSTANTS
    Bundle,         \* configuration bundles
    File,           \* the files of a bundle
    NoBundle

ASSUME RelayAssumption == NoBundle \notin Bundle

VARIABLES
    offered,        \* the bundle the environment names, NoBundle when the relay is off
    staged,         \* whether the control plane still has the object
    conf,           \* the bundle each file on the volume comes from
    marker,         \* the marker file
    left,           \* files the unpacking still has to write
    dirty           \* history: something was unpacked since the marker was written

relay == <<offered, staged, conf, marker, left, dirty>>

RelayTypeOK ==
    /\ offered \in Bundle \cup {NoBundle} /\ marker \in Bundle \cup {NoBundle}
    /\ conf \in [File -> Bundle \cup {NoBundle}]
    /\ staged \in BOOLEAN /\ dirty \in BOOLEAN
    /\ left \in SUBSET File

RelayInit ==
    /\ offered = NoBundle /\ marker = NoBundle
    /\ conf = [x \in File |-> NoBundle]
    /\ staged = FALSE /\ dirty = FALSE /\ left = {}

\* The control plane provisions the workspace with a bundle.
Provision(b) ==
    /\ offered' = b /\ staged' = TRUE
    /\ UNCHANGED <<conf, marker, left, dirty>>

\* Mutant: any marker will do.
MaterializedOnce == offered = NoBundle \/ marker # NoBundle

\* Nothing to do without a relay, or when this bundle has been unpacked before.
Materialized == offered = NoBundle \/ marker = offered

\* The fetch verifies the hash of the whole body before anything is written.
Fetch ==
    /\ ~Materialized /\ staged
    /\ left' = File
    /\ UNCHANGED <<offered, staged, conf, marker, dirty>>

Unpack(x) ==
    /\ x \in left
    /\ conf' = [conf EXCEPT ![x] = offered]
    /\ left' = left \ {x}
    /\ dirty' = TRUE
    /\ UNCHANGED <<offered, staged, marker>>

\* A marker that cannot be written is no reason to stop; the bundle is
\* acknowledged all the same, as far as the control plane can be reached.
MarkAndAck(written, acked) ==
    /\ marker' = IF written THEN offered ELSE marker
    /\ dirty' = (dirty /\ ~written)
    /\ staged' = (staged /\ ~acked)
    /\ UNCHANGED <<offered, conf, left>>

\* What a process that ends leaves behind.
RelayLeft == left' = {} /\ UNCHANGED <<offered, staged, conf, marker, dirty>>
=============================================================================
