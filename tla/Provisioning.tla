---------------------------- MODULE Provisioning ----------------------------
(***************************************************************************)
(* How a workspace comes up on its volume, boot after boot: the life of    *)
(* its process (Boot, with the relay, the mailbox migration and the wake   *)
(* note), the installation of the plugin trees (PluginInstall) and what a  *)
(* plugin's adaptor does to the files of the workspace (PluginFiles).  Of  *)
(* an installation the life of the process sees only which plugins are     *)
(* there when it is over, and the adaptors only at which revision; no step *)
(* of one reads more of the other, and "focus" is the part whose steps a   *)
(* behaviour takes.                                                        *)
(***************************************************************************)
EXTENDS Boot, PluginInstall, PluginFiles

VARIABLE focus

vars == <<bootVars, installVars, filesVars, focus>>

TypeOK ==
    /\ BootTypeOK /\ InstallTypeOK /\ FilesTypeOK
    /\ focus \in {"life", "trees", "files"}

\* What misbehaves in the life of the process is of no interest out of focus.
Init ==
    /\ focus \in {"life", "trees", "files"}
    /\ BootInit
    /\ focus # "life" => trouble = {"relay"} /\ ~others /\ legacy = 0
    /\ InstallInit /\ FilesInit

Next ==
    /\ UNCHANGED focus
    /\ \/ focus = "life" /\ BootNext /\ UNCHANGED <<installVars, filesVars>>
       \/ focus = "trees" /\ InstallNext /\ UNCHANGED <<bootVars, filesVars>>
       \/ focus = "files" /\ FilesNext /\ UNCHANGED <<bootVars, installVars>>

Spec == Init /\ [][Next]_vars
=============================================================================
