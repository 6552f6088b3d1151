------------------------- MODULE InstallerRefinement -------------------------
(***************************************************************************)
(* The installer implements DiskInstallation: the phase is read off the    *)
(* process, the timer and the stage of run_installation.                   *)
(***************************************************************************)
EXTENDS Installer

Phase ==
    CASE process = "ended"                            -> "gone"
      [] process = "rebooted"                         -> "rebooted"
      [] process = "running" /\ stage = "done"        -> "finished"
      [] process = "running" /\ stage = "idle"        -> IF timer THEN "agreed" ELSE "choosing"
      [] OTHER                                        -> "writing"

\* The disk agreed on, until selected_disk is read.
Target == IF stage # "idle" THEN disk ELSE IF timer THEN confirmed ELSE NoDisk

\* The BIOS loader is in the boot sector of the disk, the EFI one a file on it.
Partitions == [d \in Disks |-> <<table[d], fs[d], boot[d] \cap {"bios"}>>]
Files == [d \in Disks \cup {Live} |-> <<tree[d], d \in Disks /\ "efi" \in boot[d]>>]

Installation == INSTANCE DiskInstallation WITH
    phase <- Phase,
    shown <- summary,
    target <- Target,
    closed <- app = "freed",
    astray <- "mount" \in failed \/ disturbed,
    partitions <- Partitions,
    files <- Files

\* Whatever is clicked while run_installation turns the event loop, fails, was left by an
\* installer that was killed or is done by others, every step is one of the promised
\* installation: nothing is written before the user agreed to the disk shown, then only
\* that disk, once, and no reboot of its own comes before the end.
ImplementsInstallation == Installation!Spec

=============================================================================
