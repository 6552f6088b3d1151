------------------------------ MODULE Installer ------------------------------
(***************************************************************************)
(* The graphical installer, installer/tizenos-installer: the wizard        *)
(* (installer-ui.c), the commands run_installation issues one after the    *)
(* other (partman.c, target-install.c, user-setup.c) and what they leave   *)
(* on the disks and in the mount table.                                    *)
(*                                                                         *)
(* GTK is one thread, but run_installation turns the event loop by hand    *)
(* (force_ui_update) before each of its five stages, so the user's clicks  *)
(* are handled between them. No result of a command is looked at. Closing  *)
(* the window frees the InstallerApp a running installation still uses:    *)
(* from then on reading it may crash, or find the widgets gone.            *)
(*                                                                         *)
(* The disk, the mount table and the live system outlive the process: an   *)
(* installer that was killed or crashed can be started again. And nothing  *)
(* keeps others from running beside it: the welcome window starts one with *)
(* "&", the session another, activating the application opens a second     *)
(* window in the same process. The module follows one installer command by *)
(* command; the others may put any command of theirs between two steps of  *)
(* it, so each installer that overlaps another is followed in turn.        *)
(***************************************************************************)
EXTENDS Naturals, Sequences

CONSTANTS
    Disks,        \* what lsblk lists
    DefaultDisk,  \* "/dev/sda"
    NoDisk,       \* no disk chosen, shown or confirmed yet
    Earlier,      \* the disks that hold an earlier installation
    Live,         \* the directory /mnt/target of the live system itself
    MaxLaunches,  \* bound of the model: times the installer is started
    MaxFaults,    \* bound of the model: commands that fail on their own
    MaxOthers     \* bound of the model: commands of other installers

ASSUME InstallerAssumption ==
    /\ DefaultDisk \in Disks
    /\ Earlier \subseteq Disks
    /\ NoDisk \notin Disks
    /\ Live \notin Disks
    /\ MaxLaunches \in Nat \ {0}
    /\ MaxFaults \in Nat
    /\ MaxOthers \in Nat

Confirmation == 5   \* the page with the summary and the start button
Progress == 6       \* the page shown while and after installing

\* The order of the commands.
After == [erase |-> "format", format |-> "mount", mount |-> "copy", copy |-> "fstab",
          fstab |-> "account", account |-> "hostname", hostname |-> "autologin",
          autologin |-> "bind", bind |-> "grub", grub |-> "unbind",
          unbind |-> "umount", umount |-> "done"]

Stages == {"idle", "done"} \cup DOMAIN After

\* The stages before which run_installation writes its label and turns the loop.
Announced == {"erase", "format", "copy", "fstab", "bind"}

\* What the table of a disk has under the numbers the installer counts on: the label,
\* partition 1 flagged for the BIOS loader, 2 for the ESP and 4 for the root; and what
\* is left when making one of the first, one of the last or setting the flag fails.
Parts == {"label", "bios", "esp", "root"}
PartialTables == {{"label"}, {"label", "bios", "esp"}, {"label", "esp", "root"}}

\* What an installed root file system holds, and the two ways to boot from it.
Items == {"etc", "rootfs", "fstab", "account", "hostname", "autologin"}
Loaders == {"bios", "efi"}
Virtual == {"dev", "pts", "proc", "sys", "run", "efivars"}

VARIABLES
    step,       \* current_step
    nextOn,     \* whether btn_next is sensitive
    selected,   \* the entry of combo_disk
    summary,    \* the disk lbl_summary names
    confirmed,  \* the disk the summary named when the start button was clicked
    timer,      \* a g_timeout_add(run_installation) is pending
    stage,      \* the next command of run_installation; "idle" before it runs
    disk,       \* selected_disk
    app,        \* the InstallerApp: "allocated" or "freed"
    process,    \* "running", "ended" or "rebooted" (the machine)
    table,      \* table[d]: which of Parts the partition table of d has
    fs,         \* fs[d]: the file systems in the places of "root" and "esp"
    tree,       \* tree[d]: what the root file system of d holds; tree[Live] too
    boot,       \* boot[d]: the boot loaders installed on d
    mounts,     \* the file systems stacked on /mnt/target, the live directory first
    found,      \* mounts when run_installation started
    failed,     \* the commands of this run that failed
    disturbed,  \* another installer issued a command since this run began
    liveHost,   \* the live system's own /etc/hostname was overwritten
    faults,     \* commands that failed on their own so far
    launches,   \* times the installer was started
    others      \* commands of other installers so far

uiVars == <<step, nextOn, selected, summary, confirmed, timer>>
runVars == <<stage, disk, found, failed, disturbed>>
sysVars == <<table, fs, tree, boot, mounts, liveHost>>
bounds == <<faults, launches, others>>
vars == <<uiVars, runVars, app, process, sysVars, bounds>>

Running == process = "running"

\* The event loop is turning, the outer one or the one inside run_installation.
LoopTurns == Running /\ stage \in {"idle", "done"} \cup Announced

Here == mounts[Len(mounts)]                       \* what /mnt/target leads to
Mounted(d) == \E i \in 1 .. Len(mounts) : mounts[i].disk = d

-----------------------------------------------------------------------------
(* The wizard. *)

\* update_navigation(): entering the confirmation page writes the summary.
UpdateNavigation(s) ==
    /\ step' = s
    /\ summary' = IF s = Confirmation THEN selected ELSE summary

\* The drop-down is on page 4 (current_step = 3), which must be the one shown.
SelectDisk(d) ==
    /\ LoopTurns /\ app = "allocated"
    /\ step = 3
    /\ selected' = d
    /\ UNCHANGED <<step, nextOn, summary, confirmed, timer, runVars, app, process, sysVars, bounds>>

\* Mutant: Back also works on the progress page.
BackFromProgress ==
    /\ LoopTurns /\ app = "allocated"
    /\ step > 0
    /\ UpdateNavigation(step - 1)
    /\ UNCHANGED <<nextOn, selected, confirmed, timer, runVars, app, process, sysVars, bounds>>

\* on_btn_back_clicked
Back ==
    /\ LoopTurns /\ app = "allocated"
    /\ step > 0 /\ step < Progress
    /\ UpdateNavigation(step - 1)
    /\ UNCHANGED <<nextOn, selected, confirmed, timer, runVars, app, process, sysVars, bounds>>

\* Mutant: the page number is not bounded.
PageAfterLast ==
    /\ LoopTurns /\ app = "allocated"
    /\ UpdateNavigation(step + 1)
    /\ UNCHANGED <<nextOn, selected, confirmed, timer, runVars, app, process, sysVars, bounds>>

\* on_btn_next_clicked on a page before the summary
NextPage ==
    /\ LoopTurns /\ app = "allocated"
    /\ nextOn /\ step < Confirmation
    /\ UpdateNavigation(step + 1)
    /\ UNCHANGED <<nextOn, selected, confirmed, timer, runVars, app, process, sysVars, bounds>>

\* Mutant: the button is not made insensitive.
ButtonStaysOn ==
    /\ LoopTurns /\ app = "allocated"
    /\ nextOn /\ step = Confirmation
    /\ step' = Progress
    /\ confirmed' = summary
    /\ timer' = TRUE
    /\ UNCHANGED <<nextOn, selected, summary, runVars, app, process, sysVars, bounds>>

\* on_btn_next_clicked on the summary: run_installation is due in 100 ms.
Start ==
    /\ LoopTurns /\ app = "allocated"
    /\ nextOn /\ step = Confirmation
    /\ step' = Progress
    /\ nextOn' = FALSE
    /\ confirmed' = summary
    /\ timer' = TRUE
    /\ UNCHANGED <<selected, summary, runVars, app, process, sysVars, bounds>>

\* on_btn_next_clicked on the progress page, had the button been made sensitive
\* again, and on_btn_reboot_now in the dialog of show_reboot_modal.
RebootOffered ==
    \/ nextOn /\ step = Progress /\ app = "allocated"
    \/ stage = "done"

Reboot ==
    /\ LoopTurns
    /\ RebootOffered
    /\ process' = "rebooted"
    /\ UNCHANGED <<uiVars, runVars, app, sysVars, bounds>>

\* on_window_destroy: g_free(app), whatever is pending or running.
CloseWindow ==
    /\ LoopTurns /\ app = "allocated"
    /\ app' = "freed"
    /\ UNCHANGED <<uiVars, runVars, process, sysVars, bounds>>

\* With its last window gone the application leaves its main loop (not so when it was
\* activated again and the other window is still there).
Exit ==
    /\ Running /\ app = "freed"
    /\ stage \in {"idle", "done"}
    /\ process' = "ended"
    /\ UNCHANGED <<uiVars, runVars, app, sysVars, bounds>>

\* Somebody kills it while it installs (before that, closing the window leaves
\* the same behind).
Killed ==
    /\ Running /\ stage \notin {"idle", "done"}
    /\ process' = "ended"
    /\ UNCHANGED <<uiVars, runVars, app, sysVars, bounds>>

\* on_app_activate of a new process that is followed once this one has ended; one
\* started before that is another installer.
Launch ==
    /\ process = "ended" /\ launches < MaxLaunches
    /\ launches' = launches + 1
    /\ process' = "running" /\ app' = "allocated"
    /\ step' = 0 /\ nextOn' = TRUE /\ timer' = FALSE
    /\ selected' = DefaultDisk /\ summary' = NoDisk /\ confirmed' = NoDisk
    /\ stage' = "idle" /\ disk' = NoDisk /\ failed' = {} /\ found' = mounts
    /\ disturbed' = FALSE
    /\ UNCHANGED <<sysVars, faults, others>>

-----------------------------------------------------------------------------
(* run_installation: each stage does its commands and goes on to the next.  *)

\* return G_SOURCE_REMOVE
TimerIsRemoved == timer' = FALSE

\* The timeout fires. After the window was closed it reads a drop-down through freed
\* memory, which another window may have taken: any disk comes out, or a crash.
BeginInstallation ==
    /\ Running /\ timer /\ stage \in {"idle", "done"}
    /\ TimerIsRemoved
    /\ disk' \in IF app = "allocated" THEN {selected} ELSE Disks
    /\ stage' = "erase" /\ failed' = {} /\ found' = mounts /\ disturbed' = FALSE
    /\ \/ process' = process
       \/ app = "freed" /\ process' = "ended"
    /\ UNCHANGED <<step, nextOn, selected, summary, confirmed, app, sysVars, bounds>>

\* On to the next stage; the label and the page it touches may be freed memory.
GoOn(s) ==
    /\ Running /\ stage = s
    /\ stage' = After[s]
    /\ \/ process' = process
       \/ app = "freed" /\ After[s] \in Announced \cup {"done"} /\ process' = "ended"
    /\ UNCHANGED <<uiVars, disk, found, disturbed, app, launches, others>>

Succeeds == UNCHANGED <<failed, faults>>

\* The command named fails: because it must, or on its own.
Fails(command, must) ==
    /\ failed' = failed \cup {command}
    /\ IF must THEN UNCHANGED faults ELSE faults < MaxFaults /\ faults' = faults + 1

\* parted writes the table of d and nothing else: what the partitions hold is there
\* again when they are made at the same places.
Repartition(d, parts) ==
    /\ table' = [table EXCEPT ![d] = parts]
    /\ UNCHANGED <<fs, tree, boot>>

\* partman_erase_disk: a mounted disk keeps its table, a failure may leave a
\* table that lacks something.
Erase ==
    /\ GoOn("erase")
    /\ \/ ~Mounted(disk) /\ Succeeds /\ Repartition(disk, Parts)
       \/ /\ ~Mounted(disk) /\ Fails("erase", FALSE)
          /\ \E parts \in PartialTables \cup {table[disk]} : Repartition(disk, parts)
       \/ Mounted(disk) /\ Fails("erase", TRUE) /\ Repartition(disk, table[disk])
    /\ UNCHANGED <<mounts, liveHost>>

\* The partitions of d mkfs can open: they are there and not mounted.
EspMounted(d) == \E i \in 1 .. Len(mounts) : mounts[i].disk = d /\ "efi" \in mounts[i].subs
Formattable(d) ==
    {p \in {"root", "esp"} \cap table[d] :
        IF p = "root" THEN ~Mounted(d) ELSE ~EspMounted(d)}

\* The file systems made on d, and those a broken mkfs destroyed.
Formatted(d, made, lost) ==
    /\ fs' = [fs EXCEPT ![d] = (@ \ lost) \cup made]
    /\ tree' = [tree EXCEPT ![d] = IF "root" \in made \cup lost THEN {} ELSE @]
    /\ boot' = [boot EXCEPT ![d] = IF "esp" \in made \cup lost THEN @ \ {"efi"} ELSE @]

\* partman_format_partitions: the three mkfs do not depend on each other; the
\* swap partition is left out.
Format ==
    /\ GoOn("format")
    /\ LET able == Formattable(disk) IN
       \/ able = {"root", "esp"} /\ Succeeds /\ Formatted(disk, able, {})
       \/ able # {"root", "esp"} /\ Fails("format", TRUE) /\ Formatted(disk, able, {})
       \/ \E broken \in able : \E lost \in {{}, {broken}} :
             Fails("format", FALSE) /\ Formatted(disk, able \ {broken}, lost)
    /\ UNCHANGED <<table, mounts, liveHost>>

\* Mutant: only the directory is made.
MountNothing ==
    /\ GoOn("mount")
    /\ Succeeds
    /\ UNCHANGED <<table, fs, tree, boot, mounts, liveHost>>

\* Mutant: mountpoint -q /mnt/target || mount ...
MountUnlessMounted ==
    /\ GoOn("mount")
    /\ Succeeds
    /\ mounts' = IF Len(mounts) > 1 THEN mounts
                 ELSE Append(mounts, [disk |-> disk, subs |-> {"efi"}])
    /\ UNCHANGED <<table, fs, tree, boot, liveHost>>

\* The kernel refuses a file system that is already on top of the mount point.
CanMount(d) == "root" \in fs[d] \cap table[d] /\ Here.disk # d

\* mount root /mnt/target && mkdir && mount esp /mnt/target/boot/efi
Mount ==
    /\ GoOn("mount")
    /\ LET able == CanMount(disk)
           esp == "esp" \in fs[disk] \cap table[disk]
       IN
       \/ /\ able /\ esp /\ Succeeds
          /\ mounts' = Append(mounts, [disk |-> disk, subs |-> {"efi"}])
       \/ /\ able /\ Fails("esp", ~esp)
          /\ mounts' = Append(mounts, [disk |-> disk, subs |-> {}])
       \/ /\ Fails("mount", ~able)
          /\ UNCHANGED mounts
    /\ UNCHANGED <<table, fs, tree, boot, liveHost>>

\* target_install_copy_rootfs: rsync from the live image or, failing that, from
\* "/"; a copy that stops half-way may have reached /etc.
CopyRootfs ==
    /\ GoOn("copy")
    /\ \/ /\ Succeeds
          /\ tree' = [tree EXCEPT ![Here.disk] = @ \cup {"etc", "rootfs"}]
       \/ /\ Fails("copy", FALSE)
          /\ \E part \in {{}, {"etc"}} :
                tree' = [tree EXCEPT ![Here.disk] = @ \cup part]
    /\ UNCHANGED <<table, fs, boot, mounts, liveHost>>

\* What adds one item to the file system on /mnt/target, if it can.
AddItem(item, able) ==
    \/ /\ able /\ Succeeds
       /\ tree' = [tree EXCEPT ![Here.disk] = @ \cup {item}]
    \/ /\ Fails(item, ~able)
       /\ UNCHANGED tree

\* target_install_generate_fstab
GenerateFstab ==
    /\ GoOn("fstab")
    /\ AddItem("fstab", "etc" \in tree[Here.disk])
    /\ UNCHANGED <<table, fs, boot, mounts, liveHost>>

\* The names are read through pointers into the entries; once these are gone
\* the account, the host name and the autologin may be anybody's.
NamesReadable == app = "allocated"

\* user_setup_create_account, by chroot into the new root file system
CreateAccount ==
    /\ GoOn("account")
    /\ \/ AddItem("account", "rootfs" \in tree[Here.disk])
       \/ ~NamesReadable /\ Fails("account", TRUE) /\ UNCHANGED tree
    /\ UNCHANGED <<table, fs, boot, mounts, liveHost>>

\* Mutant: the path lacks the mount point.
HostnameOfLive ==
    /\ GoOn("hostname")
    /\ Succeeds
    /\ liveHost' = TRUE
    /\ UNCHANGED <<table, fs, tree, boot, mounts>>

\* user_setup_set_hostname: when the file cannot be opened the live system's own
\* /etc/hostname is written instead.
SetHostname ==
    /\ GoOn("hostname")
    /\ \/ /\ AddItem("hostname", "etc" \in tree[Here.disk])
          /\ liveHost' = (liveHost \/ "hostname" \in failed')
       \/ /\ ~NamesReadable /\ Fails("hostname", TRUE)
          /\ UNCHANGED <<tree, liveHost>>
    /\ UNCHANGED <<table, fs, boot, mounts>>

\* user_setup_enable_autologin: mkdir -p makes /etc if it is not there.
EnableAutologin ==
    /\ GoOn("autologin")
    /\ \/ /\ Succeeds
          /\ tree' = [tree EXCEPT ![Here.disk] = @ \cup {"etc", "autologin"}]
       \/ /\ Fails("autologin", ~NamesReadable)
          /\ UNCHANGED tree
    /\ UNCHANGED <<table, fs, boot, mounts, liveHost>>

\* bind_virtual_fs: the mount points are in the copied root file system, those
\* of pts and efivars in what was just bound; a BIOS machine has no efivars.
BindVirtual ==
    /\ GoOn("bind")
    /\ \E bound \in {Virtual, Virtual \ {"efivars"}, {"proc", "sys", "run"}, {}} :
          /\ \/ "rootfs" \in tree[Here.disk] /\ {"dev", "pts"} \subseteq bound /\ Succeeds
             \/ bound = {} /\ Fails("bind", "rootfs" \notin tree[Here.disk])
             \/ bound = {"proc", "sys", "run"} /\ "rootfs" \in tree[Here.disk] /\ Fails("bind", FALSE)
          /\ mounts' = [mounts EXCEPT ![Len(mounts)].subs = @ \cup bound]
    /\ UNCHANGED <<table, fs, tree, boot, liveHost>>

\* The boot loaders that can be installed: the BIOS one goes to the chosen disk,
\* the EFI one to what is mounted on /boot/efi.
Bootable ==
    {l \in Loaders :
        /\ "rootfs" \in tree[Here.disk] /\ Here.disk # Live
        /\ l = "bios" => "dev" \in Here.subs /\ "bios" \in table[disk]
        /\ l = "efi" => "efi" \in Here.subs}

WithLoaders(chosen, installed) ==
    [d \in Disks |-> boot[d] \cup (IF d = chosen THEN installed \cap {"bios"} ELSE {})
                             \cup (IF d = Here.disk THEN installed \cap {"efi"} ELSE {})]

\* Both grub-install; one of them may fail and not the other.
InstallGrub ==
    /\ GoOn("grub")
    /\ \/ Bootable = Loaders /\ Succeeds /\ boot' = WithLoaders(disk, Loaders)
       \/ Bootable # Loaders /\ Fails("grub", TRUE) /\ boot' = WithLoaders(disk, Bootable)
       \/ \E broken \in Loaders :
             Fails("grub", FALSE) /\ boot' = WithLoaders(disk, Bootable \ {broken})
    /\ UNCHANGED <<table, fs, tree, mounts, liveHost>>

\* unbind_virtual_fs: lazy unmounts, which succeed on whatever is mounted.
UnbindVirtual ==
    /\ GoOn("unbind")
    /\ mounts' = [mounts EXCEPT ![Len(mounts)].subs = @ \ Virtual]
    /\ Succeeds
    /\ UNCHANGED <<table, fs, tree, boot, liveHost>>

\* Mutant: the unmount is repeated until it succeeds.
UnmountRetries ==
    \/ /\ GoOn("umount")
       /\ Len(mounts) > 1 /\ Succeeds
       /\ mounts' = SubSeq(mounts, 1, Len(mounts) - 1)
       /\ UNCHANGED <<table, fs, tree, boot, liveHost>>
    \/ Running /\ stage = "umount" /\ UNCHANGED vars

\* umount -R /mnt/target: the file system on top and what is mounted in it.
Unmount ==
    /\ GoOn("umount")
    /\ \/ /\ Len(mounts) > 1 /\ Succeeds
          /\ mounts' = SubSeq(mounts, 1, Len(mounts) - 1)
       \/ /\ Fails("umount", Len(mounts) = 1)
          /\ UNCHANGED mounts
    /\ UNCHANGED <<table, fs, tree, boot, liveHost>>

-----------------------------------------------------------------------------
(* The other installers: the same commands with whatever outcome, for any disk, in
   any order, since each of them may have failed at any step.                  *)

AnotherCommand ==
    \/ \E d \in Disks, parts \in {Parts} \cup PartialTables :
          ~Mounted(d) /\ Repartition(d, parts) /\ UNCHANGED <<mounts, liveHost>>
    \/ \E d \in Disks : \E made \in SUBSET Formattable(d) :
          Formatted(d, made, {}) /\ UNCHANGED <<table, mounts, liveHost>>
    \/ /\ \E d \in Disks, subs \in {{}, {"efi"}} :
             CanMount(d) /\ mounts' = Append(mounts, [disk |-> d, subs |-> subs])
       /\ UNCHANGED <<table, fs, tree, boot, liveHost>>
    \/ /\ \E item \in Items : tree' = [tree EXCEPT ![Here.disk] = @ \cup {item}]
       /\ UNCHANGED <<table, fs, boot, mounts, liveHost>>
    \/ liveHost' = TRUE /\ UNCHANGED <<table, fs, tree, boot, mounts>>
    \/ /\ \E bound \in {Virtual, {}} :
             mounts' = [mounts EXCEPT ![Len(mounts)].subs = (@ \ Virtual) \cup bound]
       /\ UNCHANGED <<table, fs, tree, boot, liveHost>>
    \/ /\ \E d \in Disks, installed \in SUBSET Loaders : boot' = WithLoaders(d, installed)
       /\ UNCHANGED <<table, fs, tree, mounts, liveHost>>
    \/ /\ Len(mounts) > 1 /\ mounts' = SubSeq(mounts, 1, Len(mounts) - 1)
       /\ UNCHANGED <<table, fs, tree, boot, liveHost>>

\* A command of another installer, or the reboot in its dialog.
Another ==
    /\ process # "rebooted" /\ others < MaxOthers
    /\ others' = others + 1 /\ disturbed' = TRUE
    /\ \/ AnotherCommand /\ UNCHANGED process
       \/ process' = "rebooted" /\ UNCHANGED sysVars
    /\ UNCHANGED <<uiVars, stage, disk, found, failed, app, faults, launches>>

-----------------------------------------------------------------------------

Init ==
    /\ step = 0 /\ nextOn = TRUE /\ timer = FALSE
    /\ selected = DefaultDisk /\ summary = NoDisk /\ confirmed = NoDisk
    /\ stage = "idle" /\ disk = NoDisk /\ failed = {} /\ disturbed = FALSE
    /\ app = "allocated" /\ process = "running"
    /\ table = [d \in Disks |-> IF d \in Earlier THEN Parts ELSE {}]
    /\ fs = [d \in Disks |-> IF d \in Earlier THEN {"root", "esp"} ELSE {}]
    /\ tree = [d \in Disks \cup {Live} |-> IF d \in Earlier THEN Items ELSE {}]
    /\ boot = [d \in Disks |-> IF d \in Earlier THEN Loaders ELSE {}]
    /\ mounts = <<[disk |-> Live, subs |-> {}]>> /\ found = mounts
    /\ liveHost = FALSE
    /\ faults = 0 /\ launches = 1 /\ others = 0

Installing ==
    \/ Erase \/ Format \/ Mount \/ CopyRootfs
    \/ GenerateFstab \/ CreateAccount \/ SetHostname \/ EnableAutologin
    \/ BindVirtual \/ InstallGrub \/ UnbindVirtual \/ Unmount

User ==
    \/ \E d \in Disks : SelectDisk(d)
    \/ Back \/ NextPage \/ Start \/ Reboot
    \/ CloseWindow \/ Killed \/ Launch

Next == User \/ BeginInstallation \/ Installing \/ Exit \/ Another

\* The commands end and the loop turns; nobody need click.
Fairness == WF_vars(BeginInstallation) /\ WF_vars(Installing)

Spec == Init /\ [][Next]_vars /\ Fairness

-----------------------------------------------------------------------------
(* Properties. *)

Layer == [disk : Disks \cup {Live}, subs : SUBSET (Virtual \cup {"efi"})]

\* Every variable has its type; /mnt/target always leads somewhere.
TypeOK ==
    /\ step \in 0 .. Progress /\ nextOn \in BOOLEAN /\ timer \in BOOLEAN
    /\ selected \in Disks
    /\ {summary, confirmed, disk} \subseteq Disks \cup {NoDisk}
    /\ stage \in Stages
    /\ app \in {"allocated", "freed"}
    /\ process \in {"running", "ended", "rebooted"}
    /\ table \in [Disks -> SUBSET Parts]
    /\ fs \in [Disks -> SUBSET {"root", "esp"}]
    /\ tree \in [Disks \cup {Live} -> SUBSET Items]
    /\ boot \in [Disks -> SUBSET Loaders]
    /\ mounts \in Seq(Layer) /\ Len(mounts) > 0 /\ mounts[1].disk = Live
    /\ found \in Seq(Layer)
    /\ liveHost \in BOOLEAN /\ disturbed \in BOOLEAN
    /\ faults \in 0 .. MaxFaults /\ launches \in 1 .. MaxLaunches /\ others \in 0 .. MaxOthers

\* Of the steps of this installer.
Own(A) == others' = others => A

\* The table of d or its file systems change, or files on it are lost.
Erased(d) == table'[d] # table[d] \/ fs'[d] # fs[d] \/ ~(tree[d] \subseteq tree'[d])

\* Only the disk the user saw on the summary page when the start button was
\* clicked is erased by this installer, whatever is clicked in the 100 ms before
\* run_installation and while it turns the event loop, and whatever other
\* installers do; unless its window was closed.
OnlyTheConfirmedDiskIsErased ==
    [][\A d \in Disks : Own(Erased(d) => d = confirmed \/ app = "freed")]_vars

\* The live system's own files change only after a mount that failed or with another
\* installer at work, its host name only when that of the target could not be written.
LiveSystemIsSpared ==
    [][/\ Own(tree'[Live] # tree[Live] => "mount" \in failed \/ disturbed)
       /\ Own(liveHost' # liveHost => "hostname" \in failed')]_vars

\* An earlier installation's disk, left mounted by an installer that was killed,
\* is written to only when the new mount fails or another installer is at work; no
\* other disk ever is.
OtherDisksAreSpared ==
    [][\A d \in Disks : Own(tree'[d] # tree[d] =>
           d = disk \/ "mount" \in failed \/ disturbed)]_vars

Installed(d) == tree[d] = Items /\ boot[d] = Loaders

\* When no command of a run failed and no other installer issued one meanwhile, the
\* disk is completely installed, and the mount table is as it was found, even after
\* an installer that was killed or beside one that waits.
CleanRunInstalls ==
    stage = "done" /\ failed = {} /\ ~disturbed => Installed(disk) /\ mounts = found

\* This installer does not reboot the machine while its run_installation is under way:
\* the button that would is insensitive whenever the event loop turns. (Another
\* installer's dialog does, whatever this one is doing.)
RebootOnlyWhenFinished == [][Own(process' = "rebooted" => stage = "done")]_vars

\* An installer that has finished does not install again.
DoneIsFinal == [][stage = "done" /\ launches' = launches => stage' = "done"]_vars

\* An installation that was started ends, or its process does.
InstallationEnds == timer ~> stage = "done" \/ ~Running

-----------------------------------------------------------------------------
(* The inductive invariant behind the safety properties above.              *)

\* The button that starts leads to the last page; the summary shows the disk that
\* is selected, and nothing changes it once it is confirmed.
PagesAgree ==
    /\ nextOn => step < Progress
    /\ step = Confirmation => summary = selected
    /\ step = Progress => confirmed = selected

\* The timer and what it starts belong to the progress page, and only one
\* installation runs in a process.
OneInstallation ==
    /\ timer \/ stage # "idle" => step = Progress
    /\ stage # "idle" => ~timer

RightDisk ==
    stage # "idle" =>
        /\ disk \in Disks
        /\ disk = confirmed \/ app = "freed"

\* The stages that write files to whatever /mnt/target leads to.
Writing == {"copy", "fstab", "account", "hostname", "autologin"}
TargetMounted == stage \in Writing /\ "mount" \notin failed /\ ~disturbed => Here.disk = disk

InstallerInv ==
    /\ TypeOK
    /\ PagesAgree
    /\ OneInstallation
    /\ RightDisk
    /\ TargetMounted

=============================================================================
