-------------------------- MODULE DiskInstallation ---------------------------
(***************************************************************************)
(* What one installer promises the owner of the disks, without pages,      *)
(* timers, commands and mounts. It writes nothing before the user has      *)
(* agreed to the disk that was shown. From then on until the end it writes *)
(* only to that disk, does not begin twice, and does not reboot before it  *)
(* is finished. Exceptions: when the window was closed before it began the *)
(* disk may be any, and once a mount has failed or another installer has   *)
(* been at work its files go astray, though it never touches a partition   *)
(* of another disk. The other installers promise nothing to this one.      *)
(***************************************************************************)
CONSTANTS Disks, NoDisk, Live

VARIABLES
    phase,       \* "choosing", "agreed", "writing", "finished", "gone" or "rebooted"
    shown,       \* the disk the summary names
    target,      \* the disk agreed on, then the one installed to
    closed,      \* the user has closed the window
    astray,      \* a mount of this installation has failed, or another was at work
    partitions,  \* partitions[d]: partitions, file systems and boot sector of d
    files        \* files[d]: the files on d, files[Live] those of the live system

content == <<partitions, files>>
vars == <<phase, shown, target, closed, astray, content>>

Init ==
    /\ phase = "choosing" /\ shown = NoDisk /\ target = NoDisk
    /\ closed = FALSE /\ astray = FALSE

Show ==
    /\ phase = "choosing" /\ shown' \in Disks
    /\ UNCHANGED <<phase, target, closed, astray, content>>

Agree ==
    /\ phase = "choosing" /\ shown \in Disks
    /\ phase' = "agreed" /\ target' = shown
    /\ UNCHANGED <<shown, closed, astray, content>>

Begin ==
    /\ phase = "agreed"
    /\ phase' = "writing" \/ (closed /\ phase' = "gone")
    /\ target' = target \/ (closed /\ target' \in Disks)
    /\ astray' = FALSE
    /\ UNCHANGED <<shown, closed, content>>

Write ==
    /\ phase = "writing" /\ phase' \in {"writing", "finished", "gone"}
    /\ \A d \in Disks \ {target} : partitions'[d] = partitions[d]
    /\ \A d \in (Disks \cup {Live}) \ {target} : astray \/ files'[d] = files[d]
    /\ astray => astray'
    /\ UNCHANGED <<shown, target, closed>>

Close ==
    /\ phase \notin {"gone", "rebooted"} /\ ~closed
    /\ closed' = TRUE
    /\ UNCHANGED <<phase, shown, target, astray, content>>

Leave ==
    /\ phase \in {"choosing", "agreed", "finished"} /\ closed
    /\ phase' = "gone"
    /\ UNCHANGED <<shown, target, closed, astray, content>>

\* The installer is started again.
Again ==
    /\ phase = "gone"
    /\ phase' = "choosing" /\ shown' = NoDisk /\ target' = NoDisk
    /\ closed' = FALSE /\ astray' = FALSE
    /\ UNCHANGED content

Reboot ==
    /\ phase = "finished" /\ phase' = "rebooted"
    /\ UNCHANGED <<shown, target, closed, astray, content>>

\* Another installer changes what it likes, or reboots.
Disturb ==
    /\ phase # "rebooted" /\ phase' \in {phase, "rebooted"}
    /\ astray' = TRUE
    /\ UNCHANGED <<shown, target, closed>>

Next == Show \/ Agree \/ Begin \/ Write \/ Close \/ Leave \/ Again \/ Reboot \/ Disturb

Spec == Init /\ [][Next]_vars

=============================================================================
