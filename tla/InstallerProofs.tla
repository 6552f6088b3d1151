--------------------------- MODULE InstallerProofs ---------------------------
(***************************************************************************)
(* Proofs about the installer for every set of disks and every bound:      *)
(* InstallerInv is inductive, hence the safety properties of Installer;    *)
(* CleanInv on top of it is what a run without a failure has left. The     *)
(* installer implements DiskInstallation, and an installation ends, given  *)
(* what ENABLED of its actions amounts to, which is out of the provers'    *)
(* reach. Other installers may issue commands at any time.                 *)
(***************************************************************************)
EXTENDS InstallerRefinement, SequenceTheorems, TLAPS

\* The order of the commands, as equations.
LEMMA NextStage ==
    /\ After["erase"] = "format" /\ After["format"] = "mount" /\ After["mount"] = "copy"
    /\ After["copy"] = "fstab" /\ After["fstab"] = "account" /\ After["account"] = "hostname"
    /\ After["hostname"] = "autologin" /\ After["autologin"] = "bind"
    /\ After["bind"] = "grub" /\ After["grub"] = "unbind"
    /\ After["unbind"] = "umount" /\ After["umount"] = "done"
    /\ DOMAIN After = {"erase", "format", "mount", "copy", "fstab", "account", "hostname",
                       "autologin", "bind", "grub", "unbind", "umount"}
BY DEF After

\* /mnt/target always leads to a layer, the live one or one on top of it.
LEMMA TopOfMounts ==
    ASSUME TypeOK
    PROVE  /\ Len(mounts) \in Nat \ {0}
           /\ Here \in Layer
           /\ Here.disk \in Disks \cup {Live}
<1>1. Len(mounts) \in Nat /\ Len(mounts) > 0
  BY LenProperties DEF TypeOK
<1>2. mounts[Len(mounts)] \in Layer
  BY <1>1, ElementOfSeq DEF TypeOK
<1>3. QED
  BY <1>1, <1>2 DEF Here, Layer

\* Whether a command succeeds or fails, failures are only added.
LEMMA FailuresAccumulate ==
    ASSUME TypeOK, NEW c, NEW must \in BOOLEAN, Succeeds \/ Fails(c, must)
    PROVE  faults' \in 0 .. MaxFaults /\ failed \subseteq failed'
BY InstallerAssumption DEF TypeOK, Succeeds, Fails

\* What is common to the steps of run_installation: the wizard stays as it is and
\* the installation goes on with the same disk.
LEMMA GoingOn ==
    ASSUME InstallerInv, NEW s \in DOMAIN After, GoOn(s)
    PROVE  /\ PagesAgree' /\ OneInstallation' /\ RightDisk'
           /\ step' \in 0 .. Progress /\ nextOn' \in BOOLEAN /\ timer' \in BOOLEAN
           /\ selected' \in Disks
           /\ {summary', confirmed', disk'} \subseteq Disks \cup {NoDisk}
           /\ stage' = After[s] /\ stage' \in Stages
           /\ disk' = disk /\ disk \in Disks
           /\ app' \in {"allocated", "freed"}
           /\ process' \in {"running", "ended", "rebooted"}
           /\ found' \in Seq(Layer)
           /\ disturbed' = disturbed /\ disturbed' \in BOOLEAN
           /\ launches' \in 1 .. MaxLaunches /\ others' \in 0 .. MaxOthers
<1>1. s # "idle" /\ After[s] # "idle" /\ After[s] \in Stages
  BY NextStage DEF Stages
<1>2. stage = s /\ stage' = After[s] /\ UNCHANGED <<step, nextOn, selected, summary, confirmed,
                                          timer, disk, found, disturbed, app, launches, others>>
  BY DEF GoOn, uiVars
<1>3. process' \in {process, "ended"}
  BY DEF GoOn
<1>4. PagesAgree' /\ OneInstallation' /\ RightDisk' /\ disk \in Disks
  BY <1>1, <1>2 DEF InstallerInv, PagesAgree, OneInstallation, RightDisk
<1>5. QED
  BY <1>1, <1>2, <1>3, <1>4 DEF InstallerInv, TypeOK

\* What a failed partitioning leaves is part of the whole.
LEMMA PartsOfTables == PartialTables \subseteq SUBSET Parts
BY DEF PartialTables, Parts

\* Formatting keeps the types, on whatever disk.
LEMMA FormattedTypes ==
    ASSUME TypeOK, NEW d \in Disks, NEW made \in SUBSET {"root", "esp"}, NEW lost,
           Formatted(d, made, lost)
    PROVE  /\ fs' \in [Disks -> SUBSET {"root", "esp"}]
           /\ tree' \in [Disks \cup {Live} -> SUBSET Items]
           /\ boot' \in [Disks -> SUBSET Loaders]
<1>1. /\ fs \in [Disks -> SUBSET {"root", "esp"}]
      /\ tree \in [Disks \cup {Live} -> SUBSET Items]
      /\ boot \in [Disks -> SUBSET Loaders]
  BY DEF TypeOK
<1>2. (fs[d] \ lost) \cup made \in SUBSET {"root", "esp"}
  BY <1>1
<1>3. (IF "root" \in made \cup lost THEN {} ELSE tree[d]) \in SUBSET Items
  BY <1>1
<1>4. (IF "esp" \in made \cup lost THEN boot[d] \ {"efi"} ELSE boot[d]) \in SUBSET Loaders
  BY <1>1
<1>5. QED
  BY <1>1, <1>2, <1>3, <1>4 DEF Formatted

LEMMA EraseStep == InstallerInv /\ Erase => InstallerInv'
<1> SUFFICES ASSUME InstallerInv, Erase PROVE InstallerInv'
  OBVIOUS
<1>1. GoOn("erase") /\ UNCHANGED <<mounts, liveHost>>
  BY DEF Erase
<1>2. \E m \in BOOLEAN : Succeeds \/ Fails("erase", m)
  BY DEF Erase, Mounted
<1>3. disk \in Disks /\ stage' = "format"
  BY <1>1, NextStage, GoingOn
<1>4. /\ table' \in [Disks -> SUBSET Parts]
      /\ UNCHANGED <<fs, tree, boot>>
  <2>1. /\ \E parts \in {Parts, table[disk]} \cup PartialTables :
              table' = [table EXCEPT ![disk] = parts]
        /\ UNCHANGED <<fs, tree, boot>>
    BY DEF Erase, Repartition
  <2>2. table \in [Disks -> SUBSET Parts]
    BY DEF InstallerInv, TypeOK
  <2>3. {Parts, table[disk]} \cup PartialTables \subseteq SUBSET Parts
    BY <1>3, <2>2, PartsOfTables
  <2>4. QED
    BY <2>1, <2>2, <2>3
<1>5. faults' \in 0 .. MaxFaults
  BY <1>2, FailuresAccumulate DEF InstallerInv
<1>6. TypeOK'
  BY <1>1, <1>4, <1>5, GoingOn, NextStage DEF InstallerInv, TypeOK
<1>7. TargetMounted'
  BY <1>3 DEF TargetMounted, Writing
<1>8. QED
  BY <1>1, <1>6, <1>7, GoingOn, NextStage DEF InstallerInv

LEMMA FormatStep == InstallerInv /\ Format => InstallerInv'
<1> SUFFICES ASSUME InstallerInv, Format PROVE InstallerInv'
  OBVIOUS
<1>1. GoOn("format") /\ UNCHANGED <<table, mounts, liveHost>>
  BY DEF Format
<1>2. \E m \in BOOLEAN : Succeeds \/ Fails("format", m)
  BY DEF Format
<1>3. disk \in Disks /\ stage' = "mount"
  BY <1>1, NextStage, GoingOn
<1>4. /\ fs' \in [Disks -> SUBSET {"root", "esp"}]
      /\ tree' \in [Disks \cup {Live} -> SUBSET Items]
      /\ boot' \in [Disks -> SUBSET Loaders]
  <2>1. \E made \in SUBSET {"root", "esp"} : \E lost : Formatted(disk, made, lost)
    <3>1. \A s \in SUBSET Formattable(disk) : s \in SUBSET {"root", "esp"}
      BY DEF Formattable
    <3>2. \E made \in SUBSET Formattable(disk) : \E lost : Formatted(disk, made, lost)
      BY DEF Format
    <3>3. QED
      BY <3>1, <3>2
  <2>2. QED
    BY <1>3, <2>1, FormattedTypes DEF InstallerInv
<1>5. faults' \in 0 .. MaxFaults
  BY <1>2, FailuresAccumulate DEF InstallerInv
<1>6. TypeOK'
  BY <1>1, <1>4, <1>5, GoingOn, NextStage DEF InstallerInv, TypeOK
<1>7. TargetMounted'
  BY <1>3 DEF TargetMounted, Writing
<1>8. QED
  BY <1>1, <1>6, <1>7, GoingOn, NextStage DEF InstallerInv

\* After a mount that did not fail /mnt/target leads to the chosen disk.
LEMMA MountStep == InstallerInv /\ Mount => InstallerInv'
<1> SUFFICES ASSUME InstallerInv, Mount PROVE InstallerInv'
  OBVIOUS
<1>1. GoOn("mount") /\ UNCHANGED <<table, fs, tree, boot, liveHost>>
  BY DEF Mount
<1>2. \E c \in {"esp", "mount"}, m \in BOOLEAN : Succeeds \/ Fails(c, m)
  BY DEF Mount
<1>3. disk \in Disks /\ disk' = disk /\ stage' = "copy"
  BY <1>1, NextStage, GoingOn
<1>4. faults' \in 0 .. MaxFaults
  BY <1>2, FailuresAccumulate DEF InstallerInv
<1>5. \/ UNCHANGED mounts /\ "mount" \in failed'
      \/ \E l \in Layer : l.disk = disk /\ mounts' = Append(mounts, l)
  <2>1. /\ [disk |-> disk, subs |-> {"efi"}] \in Layer
        /\ [disk |-> disk, subs |-> {}] \in Layer
    BY <1>3 DEF Layer
  <2>2. QED
    BY <2>1 DEF Mount, Fails
<1>6. /\ mounts' \in Seq(Layer) /\ Len(mounts') > 0 /\ mounts'[1].disk = Live
      /\ "mount" \notin failed' => Here'.disk = disk
  <2>1. CASE UNCHANGED mounts /\ "mount" \in failed'
    BY <2>1 DEF InstallerInv, TypeOK
  <2>2. CASE \E l \in Layer : l.disk = disk /\ mounts' = Append(mounts, l)
    <3>1. PICK l \in Layer : l.disk = disk /\ mounts' = Append(mounts, l)
      BY <2>2
    <3>2. mounts \in Seq(Layer) /\ Len(mounts) \in Nat \ {0} /\ mounts[1].disk = Live
      BY TopOfMounts DEF InstallerInv, TypeOK
    <3>3. /\ mounts' \in Seq(Layer) /\ Len(mounts') = Len(mounts) + 1
          /\ mounts'[1] = mounts[1] /\ mounts'[Len(mounts')] = l
      BY <3>1, <3>2, AppendProperties
    <3>4. QED
      BY <3>1, <3>2, <3>3 DEF Here
  <2>3. QED
    BY <1>5, <2>1, <2>2
<1>7. TypeOK'
  BY <1>1, <1>4, <1>6, GoingOn, NextStage DEF InstallerInv, TypeOK
<1>8. TargetMounted'
  BY <1>3, <1>6 DEF TargetMounted
<1>9. QED
  BY <1>1, <1>7, <1>8, GoingOn, NextStage DEF InstallerInv

\* The commands that write files where /mnt/target leads: they change neither the
\* partitions nor the mounts.
LEMMA WritingStep ==
    ASSUME InstallerInv, NEW s \in Writing, GoOn(s),
           UNCHANGED <<table, fs, boot, mounts>>,
           tree' \in [Disks \cup {Live} -> SUBSET Items],
           liveHost' \in BOOLEAN,
           NEW c, NEW must \in BOOLEAN, Succeeds \/ Fails(c, must)
    PROVE  InstallerInv'
<1>1. s \in DOMAIN After /\ stage = s
  BY NextStage DEF Writing, GoOn
<1>2. faults' \in 0 .. MaxFaults /\ failed \subseteq failed'
  BY FailuresAccumulate DEF InstallerInv
<1>3. TypeOK'
  BY <1>1, <1>2, GoingOn DEF InstallerInv, TypeOK
<1>4. TargetMounted'
  BY <1>1, <1>2, GoingOn DEF InstallerInv, TargetMounted, Here
<1>5. QED
  BY <1>1, <1>3, <1>4, GoingOn DEF InstallerInv

\* Adding items to the file system on /mnt/target keeps the type of the trees.
LEMMA TreeGrows ==
    ASSUME TypeOK, NEW part \in SUBSET Items
    PROVE  [tree EXCEPT ![Here.disk] = @ \cup part] \in [Disks \cup {Live} -> SUBSET Items]
<1>1. tree \in [Disks \cup {Live} -> SUBSET Items] /\ Here.disk \in Disks \cup {Live}
  BY TopOfMounts DEF TypeOK
<1>2. tree[Here.disk] \cup part \in SUBSET Items
  BY <1>1
<1>3. QED
  BY <1>1, <1>2

LEMMA CopyStep == InstallerInv /\ CopyRootfs => InstallerInv'
<1> SUFFICES ASSUME InstallerInv, CopyRootfs PROVE InstallerInv'
  OBVIOUS
<1>1. /\ GoOn("copy") /\ UNCHANGED <<table, fs, boot, mounts, liveHost>>
      /\ Succeeds \/ Fails("copy", FALSE)
  BY DEF CopyRootfs
<1>2. tree' \in [Disks \cup {Live} -> SUBSET Items]
  <2>1. \E part \in {{"etc", "rootfs"}, {}, {"etc"}} :
           tree' = [tree EXCEPT ![Here.disk] = @ \cup part]
    BY DEF CopyRootfs
  <2>2. \A part \in {{"etc", "rootfs"}, {}, {"etc"}} : part \in SUBSET Items
    BY DEF Items
  <2>3. QED
    BY <2>1, <2>2, TreeGrows DEF InstallerInv
<1>3. "copy" \in Writing /\ liveHost' \in BOOLEAN /\ FALSE \in BOOLEAN
  BY <1>1 DEF Writing, InstallerInv, TypeOK
<1>4. QED
  BY <1>1, <1>2, <1>3, WritingStep

\* What AddItem leaves of the file systems.
LEMMA AddedItem ==
    ASSUME TypeOK, NEW item \in Items, NEW able \in BOOLEAN, AddItem(item, able)
    PROVE  /\ tree' \in [Disks \cup {Live} -> SUBSET Items]
           /\ Succeeds \/ Fails(item, ~able)
BY TopOfMounts DEF AddItem, TypeOK

LEMMA FstabStep == InstallerInv /\ GenerateFstab => InstallerInv'
<1> SUFFICES ASSUME InstallerInv, GenerateFstab PROVE InstallerInv'
  OBVIOUS
<1> DEFINE able == "etc" \in tree[Here.disk]
<1>1. /\ GoOn("fstab") /\ UNCHANGED <<table, fs, boot, mounts, liveHost>>
      /\ AddItem("fstab", able) /\ able \in BOOLEAN /\ "fstab" \in Items
  BY DEF GenerateFstab, Items
<1>2. "fstab" \in Writing /\ liveHost' \in BOOLEAN
  BY <1>1 DEF Writing, InstallerInv, TypeOK
<1>3. tree' \in [Disks \cup {Live} -> SUBSET Items] /\ (Succeeds \/ Fails("fstab", ~able))
  BY <1>1, AddedItem DEF InstallerInv
<1>4. (~able) \in BOOLEAN
  OBVIOUS
<1> HIDE DEF able
<1>5. QED
  BY <1>1, <1>2, <1>3, <1>4, WritingStep

LEMMA AccountStep == InstallerInv /\ CreateAccount => InstallerInv'
<1> SUFFICES ASSUME InstallerInv, CreateAccount PROVE InstallerInv'
  OBVIOUS
<1> DEFINE able == "rootfs" \in tree[Here.disk]
<1>1. /\ GoOn("account") /\ UNCHANGED <<table, fs, boot, mounts, liveHost>>
      /\ \/ AddItem("account", able)
         \/ Fails("account", TRUE) /\ UNCHANGED tree
      /\ able \in BOOLEAN /\ "account" \in Items
  <2>1. GoOn("account") /\ UNCHANGED <<table, fs, boot, mounts, liveHost>>
    BY DEF CreateAccount
  <2>2. \/ AddItem("account", able)
        \/ Fails("account", TRUE) /\ UNCHANGED tree
    BY DEF CreateAccount
  <2>3. able \in BOOLEAN /\ "account" \in Items
    BY DEF Items
  <2>4. QED
    BY <2>1, <2>2, <2>3
<1>2. "account" \in Writing /\ liveHost' \in BOOLEAN
  BY <1>1 DEF Writing, InstallerInv, TypeOK
<1>3. /\ tree' \in [Disks \cup {Live} -> SUBSET Items]
      /\ \E must \in BOOLEAN : Succeeds \/ Fails("account", must)
  <2>1. CASE AddItem("account", able)
    <3>1. (~able) \in BOOLEAN
      OBVIOUS
    <3> HIDE DEF able
    <3>2. QED
      BY <1>1, <2>1, <3>1, AddedItem DEF InstallerInv
  <2>2. CASE Fails("account", TRUE) /\ UNCHANGED tree
    BY <2>2 DEF InstallerInv, TypeOK
  <2>3. QED
    BY <1>1, <2>1, <2>2
<1>4. QED
  BY <1>1, <1>2, <1>3, WritingStep

LEMMA HostnameStep == InstallerInv /\ SetHostname => InstallerInv'
<1> SUFFICES ASSUME InstallerInv, SetHostname PROVE InstallerInv'
  OBVIOUS
<1> DEFINE able == "etc" \in tree[Here.disk]
<1>1. /\ GoOn("hostname") /\ UNCHANGED <<table, fs, boot, mounts>>
      /\ \/ AddItem("hostname", able)
         \/ Fails("hostname", TRUE) /\ UNCHANGED tree
      /\ able \in BOOLEAN /\ "hostname" \in Items
  <2>1. GoOn("hostname") /\ UNCHANGED <<table, fs, boot, mounts>>
    BY DEF SetHostname
  <2>2. \/ AddItem("hostname", able)
        \/ Fails("hostname", TRUE) /\ UNCHANGED tree
    BY DEF SetHostname
  <2>3. able \in BOOLEAN /\ "hostname" \in Items
    BY DEF Items
  <2>4. QED
    BY <2>1, <2>2, <2>3
<1>2. "hostname" \in Writing /\ liveHost' \in BOOLEAN
  <2>1. liveHost \in BOOLEAN
    BY DEF InstallerInv, TypeOK
  <2>2. liveHost' = liveHost \/ liveHost' = (liveHost \/ "hostname" \in failed')
    BY DEF SetHostname
  <2>3. QED
    BY <2>1, <2>2 DEF Writing
<1>3. /\ tree' \in [Disks \cup {Live} -> SUBSET Items]
      /\ \E must \in BOOLEAN : Succeeds \/ Fails("hostname", must)
  <2>1. CASE AddItem("hostname", able)
    <3>1. (~able) \in BOOLEAN
      OBVIOUS
    <3> HIDE DEF able
    <3>2. QED
      BY <1>1, <2>1, <3>1, AddedItem DEF InstallerInv
  <2>2. CASE Fails("hostname", TRUE) /\ UNCHANGED tree
    BY <2>2 DEF InstallerInv, TypeOK
  <2>3. QED
    BY <1>1, <2>1, <2>2
<1>4. QED
  BY <1>1, <1>2, <1>3, WritingStep

LEMMA AutologinStep == InstallerInv /\ EnableAutologin => InstallerInv'
<1> SUFFICES ASSUME InstallerInv, EnableAutologin PROVE InstallerInv'
  OBVIOUS
<1>1. /\ GoOn("autologin") /\ UNCHANGED <<table, fs, boot, mounts, liveHost>>
      /\ Succeeds \/ Fails("autologin", ~NamesReadable)
  BY DEF EnableAutologin
<1>2. tree' \in [Disks \cup {Live} -> SUBSET Items]
  BY TopOfMounts DEF EnableAutologin, InstallerInv, TypeOK, Items
<1>3. "autologin" \in Writing /\ liveHost' \in BOOLEAN /\ (~NamesReadable) \in BOOLEAN
  BY <1>1 DEF Writing, InstallerInv, TypeOK
<1>4. QED
  BY <1>1, <1>2, <1>3, WritingStep

\* The commands that change what is mounted but write no files.
LEMMA MountingStep ==
    ASSUME InstallerInv, NEW s \in {"bind", "grub", "unbind", "umount"}, GoOn(s),
           UNCHANGED <<table, fs, tree, liveHost>>,
           boot' \in [Disks -> SUBSET Loaders],
           mounts' \in Seq(Layer), Len(mounts') > 0, mounts'[1].disk = Live,
           faults' \in 0 .. MaxFaults
    PROVE  InstallerInv'
<1>1. s \in DOMAIN After /\ After[s] \notin Writing
  BY NextStage DEF Writing
<1>2. TypeOK'
  BY <1>1, GoingOn DEF InstallerInv, TypeOK
<1>3. TargetMounted'
  BY <1>1, GoingOn DEF TargetMounted
<1>4. QED
  BY <1>1, <1>2, <1>3, GoingOn DEF InstallerInv

\* Mounting and unmounting below the top layer changes no other layer.
LEMMA TopChanges ==
    ASSUME TypeOK, NEW subs \in SUBSET (Virtual \cup {"efi"}),
           mounts' = [mounts EXCEPT ![Len(mounts)].subs = subs]
    PROVE  mounts' \in Seq(Layer) /\ Len(mounts') > 0 /\ mounts'[1].disk = Live
<1> DEFINE top == [Here EXCEPT !.subs = subs]
<1>1. mounts \in Seq(Layer) /\ Len(mounts) \in Nat \ {0} /\ Here \in Layer
  BY TopOfMounts DEF TypeOK
<1>2. top \in Layer /\ top.disk = Here.disk
  BY <1>1 DEF Layer
<1>3. mounts' = [mounts EXCEPT ![Len(mounts)] = top]
  BY DEF Here
<1>4. Len(mounts) \in 1 .. Len(mounts)
  BY <1>1
<1> HIDE DEF top
<1>5. /\ mounts' \in Seq(Layer) /\ Len(mounts') = Len(mounts)
      /\ mounts'[1] = IF 1 = Len(mounts) THEN top ELSE mounts[1]
  BY <1>1, <1>2, <1>3, <1>4, ExceptSeq
<1>6. QED
  BY <1>1, <1>2, <1>5 DEF TypeOK, Here

LEMMA BindStep == InstallerInv /\ BindVirtual => InstallerInv'
<1> SUFFICES ASSUME InstallerInv, BindVirtual PROVE InstallerInv'
  OBVIOUS
<1>1. GoOn("bind") /\ UNCHANGED <<table, fs, tree, boot, liveHost>>
  BY DEF BindVirtual
<1>2. PICK bound \in SUBSET Virtual :
         /\ mounts' = [mounts EXCEPT ![Len(mounts)].subs = @ \cup bound]
         /\ \E m \in BOOLEAN : Succeeds \/ Fails("bind", m)
  <2>1. \A bound \in {Virtual, Virtual \ {"efivars"}, {"proc", "sys", "run"}, {}} :
           bound \in SUBSET Virtual
    BY DEF Virtual
  <2>2. QED
    BY <2>1 DEF BindVirtual
<1>3. Here.subs \cup bound \in SUBSET (Virtual \cup {"efi"})
  BY TopOfMounts DEF InstallerInv, Layer
<1>4. mounts' \in Seq(Layer) /\ Len(mounts') > 0 /\ mounts'[1].disk = Live
  BY <1>2, <1>3, TopChanges DEF InstallerInv, Here
<1>5. faults' \in 0 .. MaxFaults
  BY <1>2, FailuresAccumulate DEF InstallerInv
<1>6. QED
  BY <1>1, <1>4, <1>5, MountingStep DEF InstallerInv, TypeOK

LEMMA GrubStep == InstallerInv /\ InstallGrub => InstallerInv'
<1> SUFFICES ASSUME InstallerInv, InstallGrub PROVE InstallerInv'
  OBVIOUS
<1>1. GoOn("grub") /\ UNCHANGED <<table, fs, tree, mounts, liveHost>>
  BY DEF InstallGrub
<1>2. \E m \in BOOLEAN : Succeeds \/ Fails("grub", m)
  BY DEF InstallGrub
<1>3. boot' \in [Disks -> SUBSET Loaders]
  <2>1. boot \in [Disks -> SUBSET Loaders]
    BY DEF InstallerInv, TypeOK
  <2>2. PICK installed : boot' = WithLoaders(disk, installed)
    BY DEF InstallGrub
  <2>3. QED
    BY <2>1, <2>2 DEF WithLoaders, Loaders
<1>4. faults' \in 0 .. MaxFaults
  BY <1>2, FailuresAccumulate DEF InstallerInv
<1>5. mounts' \in Seq(Layer) /\ Len(mounts') > 0 /\ mounts'[1].disk = Live
  BY <1>1 DEF InstallerInv, TypeOK
<1>6. QED
  BY <1>1, <1>3, <1>4, <1>5, MountingStep

LEMMA UnbindStep == InstallerInv /\ UnbindVirtual => InstallerInv'
<1> SUFFICES ASSUME InstallerInv, UnbindVirtual PROVE InstallerInv'
  OBVIOUS
<1>1. /\ GoOn("unbind") /\ UNCHANGED <<table, fs, tree, boot, liveHost>> /\ Succeeds
      /\ mounts' = [mounts EXCEPT ![Len(mounts)].subs = @ \ Virtual]
  BY DEF UnbindVirtual
<1>2. Here.subs \ Virtual \in SUBSET (Virtual \cup {"efi"})
  BY TopOfMounts DEF InstallerInv, Layer
<1>3. mounts' \in Seq(Layer) /\ Len(mounts') > 0 /\ mounts'[1].disk = Live
  BY <1>1, <1>2, TopChanges DEF InstallerInv, Here
<1>4. faults' \in 0 .. MaxFaults
  BY <1>1 DEF Succeeds, InstallerInv, TypeOK
<1>5. QED
  BY <1>1, <1>3, <1>4, MountingStep DEF InstallerInv, TypeOK

\* umount takes the top layer away, never the live directory below.
LEMMA UnmountStep == InstallerInv /\ Unmount => InstallerInv'
<1> SUFFICES ASSUME InstallerInv, Unmount PROVE InstallerInv'
  OBVIOUS
<1>1. GoOn("umount") /\ UNCHANGED <<table, fs, tree, boot, liveHost>>
  BY DEF Unmount
<1>2. \E m \in BOOLEAN : Succeeds \/ Fails("umount", m)
  BY DEF Unmount
<1>3. mounts \in Seq(Layer) /\ Len(mounts) \in Nat \ {0} /\ mounts[1].disk = Live
  BY TopOfMounts DEF InstallerInv, TypeOK
<1>4. mounts' \in Seq(Layer) /\ Len(mounts') > 0 /\ mounts'[1].disk = Live
  <2>1. CASE UNCHANGED mounts
    BY <1>3, <2>1
  <2>2. CASE Len(mounts) > 1 /\ mounts' = SubSeq(mounts, 1, Len(mounts) - 1)
    <3>1. \A i \in 1 .. Len(mounts) - 1 : mounts[i] \in Layer
      BY <1>3, ElementOfSeq
    <3>2. /\ mounts' \in Seq(Layer) /\ Len(mounts') = Len(mounts) - 1
          /\ mounts'[1] = mounts[1]
      BY <1>3, <2>2, <3>1, SubSeqProperties
    <3>3. QED
      BY <1>3, <2>2, <3>2
  <2>3. QED
    BY <2>1, <2>2 DEF Unmount
<1>5. faults' \in 0 .. MaxFaults
  BY <1>2, FailuresAccumulate DEF InstallerInv
<1>6. QED
  BY <1>1, <1>4, <1>5, MountingStep DEF InstallerInv, TypeOK

LEMMA InstallingStep == InstallerInv /\ Installing => InstallerInv'
BY EraseStep, FormatStep, MountStep, CopyStep, FstabStep, AccountStep, HostnameStep,
   AutologinStep, BindStep, GrubStep, UnbindStep, UnmountStep DEF Installing

\* The clicks, the window, the process: the wizard cannot leave the progress page
\* and cannot change the disk there.
LEMMA UserStep == InstallerInv /\ User => InstallerInv'
<1> SUFFICES ASSUME InstallerInv, User PROVE InstallerInv'
  OBVIOUS
<1> USE InstallerAssumption DEF InstallerInv, Confirmation, Progress
<1>1. CASE \E d \in Disks : SelectDisk(d)
  BY <1>1 DEF SelectDisk, TypeOK, PagesAgree, OneInstallation, RightDisk, TargetMounted, Here,
              runVars, sysVars, bounds
<1>2. CASE Back
  BY <1>2 DEF Back, UpdateNavigation, TypeOK, PagesAgree, OneInstallation, RightDisk,
              TargetMounted, Here, runVars, sysVars, bounds
<1>3. CASE NextPage
  BY <1>3 DEF NextPage, UpdateNavigation, TypeOK, PagesAgree, OneInstallation, RightDisk,
              TargetMounted, Here, runVars, sysVars, bounds
<1>4. CASE Start
  <2>1. stage = "idle" /\ step = Confirmation /\ UNCHANGED <<stage, disk, failed, found>>
    BY <1>4 DEF Start, OneInstallation, runVars
  <2>2. summary = selected /\ confirmed' = selected /\ selected' = selected
    BY <1>4 DEF Start, PagesAgree
  <2>3. TypeOK'
    <3>1. step' \in 0 .. Progress
      BY <1>4 DEF Start
    <3>2. nextOn' \in BOOLEAN /\ timer' \in BOOLEAN
      BY <1>4 DEF Start
    <3>3. selected' \in Disks /\ {summary', confirmed', disk'} \subseteq Disks \cup {NoDisk}
      BY <1>4, <2>1, <2>2 DEF Start, TypeOK
    <3>4. UNCHANGED <<stage, app, process, table, fs, tree, boot, mounts, found, liveHost,
                      disturbed, faults, launches, others>>
      BY <1>4 DEF Start, runVars, sysVars, bounds
    <3>5. QED
      BY <3>1, <3>2, <3>3, <3>4 DEF TypeOK
  <2>4. PagesAgree' /\ OneInstallation'
    BY <1>4, <2>1, <2>2 DEF Start, PagesAgree, OneInstallation
  <2>5. QED
    BY <2>1, <2>3, <2>4 DEF RightDisk, TargetMounted, Writing
<1>5. CASE Reboot
  BY <1>5 DEF Reboot, TypeOK, PagesAgree, OneInstallation, RightDisk, TargetMounted, Here,
              uiVars, runVars, sysVars, bounds
<1>6. CASE CloseWindow
  BY <1>6 DEF CloseWindow, TypeOK, PagesAgree, OneInstallation, RightDisk, TargetMounted, Here,
              uiVars, runVars, sysVars, bounds
<1>7. CASE Killed
  BY <1>7 DEF Killed, TypeOK, PagesAgree, OneInstallation, RightDisk, TargetMounted, Here,
              uiVars, runVars, sysVars, bounds
<1>8. CASE Launch
  <2>1. launches' \in 1 .. MaxLaunches
    BY <1>8 DEF Launch, TypeOK
  <2>2. stage' = "idle" /\ ~timer' /\ step' = 0 /\ stage' \notin Writing
    BY <1>8 DEF Launch, Writing
  <2>3. TypeOK'
    <3>1. /\ selected' \in Disks
          /\ {summary', confirmed', disk'} \subseteq Disks \cup {NoDisk}
          /\ stage' \in Stages
          /\ app' \in {"allocated", "freed"}
          /\ process' \in {"running", "ended", "rebooted"}
      BY <1>8 DEF Launch, Stages
    <3>2. step' \in 0 .. Progress
      BY <1>8 DEF Launch
    <3>3. nextOn' \in BOOLEAN /\ timer' \in BOOLEAN /\ disturbed' \in BOOLEAN
      BY <1>8 DEF Launch
    <3>4. UNCHANGED <<table, fs, tree, boot, mounts, liveHost, faults, others>> /\ found' = mounts
      BY <1>8 DEF Launch, sysVars
    <3>5. QED
      BY <2>1, <3>1, <3>2, <3>3, <3>4 DEF TypeOK
  <2>4. QED
    BY <2>2, <2>3 DEF PagesAgree, OneInstallation, RightDisk, TargetMounted
<1>9. QED
  BY <1>1, <1>2, <1>3, <1>4, <1>5, <1>6, <1>7, <1>8 DEF User

\* The timer fires at most once per process: it finds the wizard on the progress
\* page, with the disk that was confirmed.
LEMMA BeginStep == InstallerInv /\ BeginInstallation => InstallerInv'
<1> SUFFICES ASSUME InstallerInv, BeginInstallation PROVE InstallerInv'
  OBVIOUS
<1>1. /\ UNCHANGED <<step, nextOn, selected, summary, confirmed, app, sysVars, bounds>>
      /\ timer' = FALSE /\ stage' = "erase" /\ found' = mounts
      /\ process' \in {process, "ended"} /\ disturbed' = FALSE
      /\ disk' \in IF app = "allocated" THEN {selected} ELSE Disks
  BY DEF BeginInstallation, TimerIsRemoved
<1>2. step = Progress /\ confirmed = selected
  BY DEF BeginInstallation, InstallerInv, OneInstallation, PagesAgree
<1>3. disk' \in Disks
  BY <1>1, InstallerAssumption DEF InstallerInv, TypeOK
<1>4. RightDisk'
  BY <1>1, <1>2, <1>3 DEF RightDisk, InstallerInv, TypeOK
<1>5. "erase" \in Stages /\ "erase" \notin Writing /\ "erase" # "idle"
  BY NextStage DEF Stages, Writing
<1>6. TypeOK'
  <2>1. /\ timer' \in BOOLEAN /\ disturbed' \in BOOLEAN
        /\ stage' \in Stages /\ process' \in {"running", "ended", "rebooted"}
    BY <1>1, <1>5 DEF InstallerInv, TypeOK
  <2>2. UNCHANGED <<step, nextOn, selected, summary, confirmed, app, table, fs, tree, boot,
                    mounts, liveHost, faults, launches, others>> /\ found' = mounts
    BY <1>1 DEF sysVars, bounds
  <2>3. QED
    BY <1>3, <2>1, <2>2 DEF InstallerInv, TypeOK
<1>7. PagesAgree' /\ OneInstallation'
  BY <1>1, <1>2 DEF InstallerInv, PagesAgree, OneInstallation
<1>8. QED
  BY <1>1, <1>4, <1>5, <1>6, <1>7 DEF InstallerInv, TargetMounted

\* Another installer's command leaves every type as it is.
LEMMA AnotherCommandTypes ==
    ASSUME TypeOK, AnotherCommand
    PROVE  /\ table' \in [Disks -> SUBSET Parts]
           /\ fs' \in [Disks -> SUBSET {"root", "esp"}]
           /\ tree' \in [Disks \cup {Live} -> SUBSET Items]
           /\ boot' \in [Disks -> SUBSET Loaders]
           /\ mounts' \in Seq(Layer) /\ Len(mounts') > 0 /\ mounts'[1].disk = Live
           /\ liveHost' \in BOOLEAN
<1>1. /\ table \in [Disks -> SUBSET Parts] /\ fs \in [Disks -> SUBSET {"root", "esp"}]
      /\ tree \in [Disks \cup {Live} -> SUBSET Items] /\ boot \in [Disks -> SUBSET Loaders]
      /\ mounts \in Seq(Layer) /\ Len(mounts) \in Nat \ {0} /\ mounts[1].disk = Live
      /\ liveHost \in BOOLEAN
  BY TopOfMounts DEF TypeOK
<1>2. CASE /\ \E d \in Disks, parts \in {Parts} \cup PartialTables : Repartition(d, parts)
           /\ UNCHANGED <<mounts, liveHost>>
  BY <1>1, <1>2, PartsOfTables DEF Repartition
<1>3. CASE /\ \E d \in Disks : \E made \in SUBSET Formattable(d) : Formatted(d, made, {})
           /\ UNCHANGED <<table, mounts, liveHost>>
  <2>1. PICK d \in Disks, made \in SUBSET {"root", "esp"} : Formatted(d, made, {})
    BY <1>3 DEF Formattable
  <2>2. /\ fs' \in [Disks -> SUBSET {"root", "esp"}]
        /\ tree' \in [Disks \cup {Live} -> SUBSET Items]
        /\ boot' \in [Disks -> SUBSET Loaders]
    BY <2>1, FormattedTypes
  <2>3. QED
    BY <1>1, <1>3, <2>2
<1>4. CASE /\ \E d \in Disks, subs \in {{}, {"efi"}} :
                 mounts' = Append(mounts, [disk |-> d, subs |-> subs])
           /\ UNCHANGED <<table, fs, tree, boot, liveHost>>
  <2>1. PICK d \in Disks, subs \in {{}, {"efi"}} :
           mounts' = Append(mounts, [disk |-> d, subs |-> subs])
    BY <1>4
  <2>2. [disk |-> d, subs |-> subs] \in Layer
    BY DEF Layer
  <2>3. /\ mounts' \in Seq(Layer) /\ Len(mounts') = Len(mounts) + 1
        /\ mounts'[1] = mounts[1]
    BY <1>1, <2>1, <2>2, AppendProperties
  <2>4. QED
    BY <1>1, <1>4, <2>3
<1>5. CASE /\ \E item \in Items : tree' = [tree EXCEPT ![Here.disk] = @ \cup {item}]
           /\ UNCHANGED <<table, fs, boot, mounts, liveHost>>
  <2>1. PICK item \in Items : tree' = [tree EXCEPT ![Here.disk] = @ \cup {item}]
    BY <1>5
  <2>2. tree' \in [Disks \cup {Live} -> SUBSET Items]
    BY <2>1, TreeGrows
  <2>3. QED
    BY <1>1, <1>5, <2>2
<1>6. CASE liveHost' = TRUE /\ UNCHANGED <<table, fs, tree, boot, mounts>>
  BY <1>1, <1>6
<1>7. CASE /\ \E bound \in {Virtual, {}} :
                 mounts' = [mounts EXCEPT ![Len(mounts)].subs = (@ \ Virtual) \cup bound]
           /\ UNCHANGED <<table, fs, tree, boot, liveHost>>
  <2>1. PICK bound \in {Virtual, {}} :
           mounts' = [mounts EXCEPT ![Len(mounts)].subs = (@ \ Virtual) \cup bound]
    BY <1>7
  <2>2. (Here.subs \ Virtual) \cup bound \in SUBSET (Virtual \cup {"efi"})
    BY TopOfMounts DEF Layer
  <2>3. mounts' \in Seq(Layer) /\ Len(mounts') > 0 /\ mounts'[1].disk = Live
    BY <2>1, <2>2, TopChanges DEF Here
  <2>4. QED
    BY <1>1, <1>7, <2>3
<1>8. CASE /\ \E d \in Disks, installed \in SUBSET Loaders : boot' = WithLoaders(d, installed)
           /\ UNCHANGED <<table, fs, tree, mounts, liveHost>>
  <2>1. boot' \in [Disks -> SUBSET Loaders]
    BY <1>1, <1>8 DEF WithLoaders, Loaders
  <2>2. QED
    BY <1>1, <1>8, <2>1
<1>9. CASE /\ Len(mounts) > 1 /\ mounts' = SubSeq(mounts, 1, Len(mounts) - 1)
           /\ UNCHANGED <<table, fs, tree, boot, liveHost>>
  <2>1. \A i \in 1 .. Len(mounts) - 1 : mounts[i] \in Layer
    BY <1>1, ElementOfSeq
  <2>2. /\ mounts' \in Seq(Layer) /\ Len(mounts') = Len(mounts) - 1
        /\ mounts'[1] = mounts[1]
    BY <1>1, <1>9, <2>1, SubSeqProperties
  <2>3. QED
    BY <1>1, <1>9, <2>2
<1>10. QED
  BY <1>2, <1>3, <1>4, <1>5, <1>6, <1>7, <1>8, <1>9 DEF AnotherCommand

\* Another installer moves nothing of this one's wizard and run.
LEMMA AnotherStep == InstallerInv /\ Another => InstallerInv'
<1> SUFFICES ASSUME InstallerInv, Another PROVE InstallerInv'
  OBVIOUS
<1>1. /\ UNCHANGED <<step, nextOn, selected, summary, confirmed, timer, stage, disk, found, failed,
                     app, faults, launches>>
      /\ disturbed' = TRUE /\ process' \in {process, "rebooted"}
      /\ AnotherCommand \/ UNCHANGED sysVars
  BY DEF Another, uiVars
<1>2. others' \in 0 .. MaxOthers
  BY InstallerAssumption DEF Another, InstallerInv, TypeOK
<1>3. /\ table' \in [Disks -> SUBSET Parts]
      /\ fs' \in [Disks -> SUBSET {"root", "esp"}]
      /\ tree' \in [Disks \cup {Live} -> SUBSET Items]
      /\ boot' \in [Disks -> SUBSET Loaders]
      /\ mounts' \in Seq(Layer) /\ Len(mounts') > 0 /\ mounts'[1].disk = Live
      /\ liveHost' \in BOOLEAN
  <2>1. CASE AnotherCommand
    BY <2>1, AnotherCommandTypes DEF InstallerInv
  <2>2. CASE UNCHANGED sysVars
    BY <2>2 DEF sysVars, InstallerInv, TypeOK
  <2>3. QED
    BY <1>1, <2>1, <2>2
<1>4. TypeOK'
  BY <1>1, <1>2, <1>3 DEF InstallerInv, TypeOK
<1>5. PagesAgree' /\ OneInstallation' /\ RightDisk'
  BY <1>1 DEF InstallerInv, PagesAgree, OneInstallation, RightDisk
<1>6. QED
  BY <1>1, <1>4, <1>5 DEF InstallerInv, TargetMounted

LEMMA ExitStep == InstallerInv /\ Exit => InstallerInv'
BY DEF Exit, InstallerInv, TypeOK, PagesAgree, OneInstallation, RightDisk, TargetMounted, Here,
       uiVars, runVars, sysVars, bounds

LEMMA StutterStep == InstallerInv /\ UNCHANGED vars => InstallerInv'
BY DEF InstallerInv, TypeOK, PagesAgree, OneInstallation, RightDisk, TargetMounted, Here,
       vars, uiVars, runVars, sysVars, bounds

LEMMA InitHolds == Init => InstallerInv
<1> SUFFICES ASSUME Init PROVE InstallerInv
  OBVIOUS
<1> DEFINE layer == [disk |-> Live, subs |-> {}]
<1>1. /\ step \in 0 .. Progress /\ launches \in 1 .. MaxLaunches /\ faults \in 0 .. MaxFaults
      /\ others \in 0 .. MaxOthers
  BY InstallerAssumption DEF Init, Progress
<1>2. nextOn \in BOOLEAN /\ timer \in BOOLEAN /\ liveHost \in BOOLEAN /\ disturbed \in BOOLEAN
  BY DEF Init
<1>3. /\ selected \in Disks /\ {summary, confirmed, disk} \subseteq Disks \cup {NoDisk}
      /\ stage = "idle" /\ stage \in Stages
      /\ app \in {"allocated", "freed"} /\ process \in {"running", "ended", "rebooted"}
  BY InstallerAssumption DEF Init, Stages
<1>4. /\ table \in [Disks -> SUBSET Parts]
      /\ fs \in [Disks -> SUBSET {"root", "esp"}]
      /\ tree \in [Disks \cup {Live} -> SUBSET Items]
      /\ boot \in [Disks -> SUBSET Loaders]
  BY DEF Init
<1>5. /\ mounts \in Seq(Layer) /\ Len(mounts) > 0 /\ mounts[1].disk = Live
      /\ found \in Seq(Layer)
  <2>1. layer \in Layer /\ layer.disk = Live
    BY DEF Layer
  <2> HIDE DEF layer
  <2>2. <<layer>> \in Seq(Layer) /\ Len(<<layer>>) = 1 /\ <<layer>>[1] = layer
    BY <2>1
  <2>3. mounts = <<layer>> /\ found = <<layer>>
    BY DEF Init, layer
  <2>4. QED
    BY <2>1, <2>2, <2>3
<1>6. TypeOK
  BY <1>1, <1>2, <1>3, <1>4, <1>5 DEF TypeOK
<1>7. step = 0 /\ timer = FALSE
  BY DEF Init
<1>8. PagesAgree /\ OneInstallation
  BY <1>3, <1>7 DEF PagesAgree, OneInstallation, Progress, Confirmation
<1>9. QED
  BY <1>3, <1>6, <1>8 DEF InstallerInv, RightDisk, TargetMounted, Writing

\* The inductive invariant of the installer.
THEOREM InstallerInvariant == Spec => []InstallerInv
<1>1. InstallerInv /\ [Next]_vars => InstallerInv'
  BY UserStep, BeginStep, InstallingStep, ExitStep, AnotherStep, StutterStep DEF Next
<1>2. QED
  BY <1>1, InitHolds, PTL DEF Spec

\* TypeOK: every variable of the installer keeps its type, and /mnt/target always
\* leads to the live directory or to a file system mounted over it.
THEOREM InstallerTypeCorrect == Spec => []TypeOK
<1>1. InstallerInv => TypeOK
  BY DEF InstallerInv
<1>2. QED
  BY <1>1, InstallerInvariant, PTL

\* Only the commands change disks and files, this installer's or another's.
LEMMA OnlyCommandsWrite ==
    ASSUME InstallerInv, [Next]_vars, ~Installing, others' = others
    PROVE  UNCHANGED <<table, fs, tree, boot, liveHost>>
<1>1. ~Another
  BY DEF Another, InstallerInv, TypeOK
<1>2. QED
  BY <1>1 DEF Next, User, SelectDisk, Back, NextPage, Start, Reboot, CloseWindow, Killed, Launch,
       BeginInstallation, Exit, vars, sysVars

\* Where a command writes: partitions and file systems of the chosen disk, files
\* of what /mnt/target leads to.
LEMMA WhereCommandsWrite ==
    ASSUME InstallerInv, Installing
    PROVE  /\ disk \in Disks /\ stage # "idle"
           /\ \A d \in Disks \ {disk} :
                 table'[d] = table[d] /\ fs'[d] = fs[d] /\ tree[d] \subseteq tree'[d]
           /\ \A d \in Disks \cup {Live} :
                 tree'[d] # tree[d] => d = disk \/ (stage \in Writing /\ d = Here.disk)
           /\ liveHost' # liveHost => "hostname" \in failed'
<1>1. stage \in DOMAIN After /\ stage # "idle" /\ disk \in Disks
  <2>1. PICK s \in DOMAIN After : GoOn(s)
    BY NextStage DEF Installing, Erase, Format, Mount, CopyRootfs, GenerateFstab, CreateAccount,
         SetHostname, EnableAutologin, BindVirtual, InstallGrub, UnbindVirtual, Unmount
  <2>2. stage = s /\ s # "idle"
    BY <2>1, NextStage DEF GoOn
  <2>3. QED
    BY <2>1, <2>2, GoingOn
<1>2. \A d \in Disks \ {disk} : table'[d] = table[d] /\ fs'[d] = fs[d]
  <2>1. table \in [Disks -> SUBSET Parts] /\ fs \in [Disks -> SUBSET {"root", "esp"}]
    BY DEF InstallerInv, TypeOK
  <2>2. CASE Erase
    BY <1>1, <2>1, <2>2 DEF Erase, Repartition
  <2>3. CASE Format
    <3>1. UNCHANGED table /\ \E made, lost : fs' = [fs EXCEPT ![disk] = (@ \ lost) \cup made]
      BY <2>3 DEF Format, Formatted
    <3>2. QED
      BY <1>1, <2>1, <3>1
  <2>4. CASE UNCHANGED <<table, fs>>
    BY <2>4
  <2>5. QED
    BY <2>2, <2>3, <2>4 DEF Installing, Mount, CopyRootfs, GenerateFstab, CreateAccount,
         SetHostname, EnableAutologin, BindVirtual, InstallGrub, UnbindVirtual, Unmount
<1>3. \A d \in Disks \cup {Live} :
         /\ tree'[d] # tree[d] => d = disk \/ (stage \in Writing /\ d = Here.disk)
         /\ d # disk => tree[d] \subseteq tree'[d]
  <2>1. tree \in [Disks \cup {Live} -> SUBSET Items]
    BY DEF InstallerInv, TypeOK
  <2>2. CASE \E x : tree' = [tree EXCEPT ![disk] = x]
    BY <2>1, <2>2
  <2>3. CASE stage \in Writing /\ \E x : tree' = [tree EXCEPT ![Here.disk] = @ \cup x]
    BY <2>1, <2>3
  <2>4. CASE UNCHANGED tree
    BY <2>4
  <2>5. Erase \/ Format => UNCHANGED tree \/ \E x : tree' = [tree EXCEPT ![disk] = x]
    <3>1. Erase => UNCHANGED tree
      BY DEF Erase, Repartition
    <3>2. Format => \E made, lost : Formatted(disk, made, lost)
      BY DEF Format
    <3>3. \A made, lost : Formatted(disk, made, lost) =>
             tree' = [tree EXCEPT ![disk] = IF "root" \in made \cup lost THEN {} ELSE @]
      BY DEF Formatted
    <3>4. QED
      BY <3>1, <3>2, <3>3
  <2>6. CopyRootfs => stage \in Writing /\ \E x : tree' = [tree EXCEPT ![Here.disk] = @ \cup x]
    BY DEF CopyRootfs, GoOn, Writing
  <2>7. \A item, able : AddItem(item, able) =>
           UNCHANGED tree \/ \E x : tree' = [tree EXCEPT ![Here.disk] = @ \cup x]
    BY DEF AddItem
  <2>8. GenerateFstab \/ CreateAccount \/ SetHostname =>
           \/ UNCHANGED tree
           \/ stage \in Writing /\ \E x : tree' = [tree EXCEPT ![Here.disk] = @ \cup x]
    BY <2>7 DEF GenerateFstab, CreateAccount, SetHostname, GoOn, Writing
  <2>9. EnableAutologin =>
           \/ UNCHANGED tree
           \/ stage \in Writing /\ \E x : tree' = [tree EXCEPT ![Here.disk] = @ \cup x]
    BY DEF EnableAutologin, GoOn, Writing
  <2>10. Mount \/ BindVirtual \/ InstallGrub \/ UnbindVirtual \/ Unmount => UNCHANGED tree
    BY DEF Mount, BindVirtual, InstallGrub, UnbindVirtual, Unmount
  <2>11. QED
    BY <2>2, <2>3, <2>4, <2>5, <2>6, <2>8, <2>9, <2>10 DEF Installing
<1>4. liveHost' # liveHost => "hostname" \in failed'
  <2>1. SetHostname => (liveHost' # liveHost => "hostname" \in failed')
    BY DEF SetHostname, InstallerInv, TypeOK
  <2>2. ~SetHostname => UNCHANGED liveHost
    BY DEF Installing, Erase, Format, Mount, CopyRootfs, GenerateFstab, CreateAccount,
         EnableAutologin, BindVirtual, InstallGrub, UnbindVirtual, Unmount
  <2>3. QED
    BY <2>1, <2>2
<1>5. QED
  BY <1>1, <1>2, <1>3, <1>4

\* OnlyTheConfirmedDiskIsErased: this installer changes partitions and file systems,
\* and takes files away, only on the disk the summary named when the start button was
\* clicked, whatever the others do, as long as its window was not closed.
THEOREM ConfirmedDiskOnly == Spec => OnlyTheConfirmedDiskIsErased
<1>1. ASSUME InstallerInv, [Next]_vars, NEW d \in Disks, others' = others, Erased(d)
      PROVE  d = confirmed \/ app = "freed"
  <2>1. Installing
    BY <1>1, OnlyCommandsWrite DEF Erased
  <2>2. d = disk /\ stage # "idle"
    BY <1>1, <2>1, WhereCommandsWrite DEF Erased
  <2>3. QED
    BY <1>1, <2>2 DEF InstallerInv, RightDisk
<1>2. InstallerInv /\ [Next]_vars =>
         \A d \in Disks : Own(Erased(d) => d = confirmed \/ app = "freed")
  BY <1>1 DEF Own
<1>3. QED
  BY <1>2, InstallerInvariant, PTL DEF Spec, OnlyTheConfirmedDiskIsErased

\* LiveSystemIsSpared: this installer changes files of the live system only when its
\* mount failed or another one is at work, the host name only when that of the target
\* could not be written.
THEOREM LiveSystemSpared == Spec => LiveSystemIsSpared
<1>1. ASSUME InstallerInv, [Next]_vars, others' = others
      PROVE  /\ tree'[Live] # tree[Live] => "mount" \in failed \/ disturbed
             /\ liveHost' # liveHost => "hostname" \in failed'
  <2>1. CASE ~Installing
    BY <1>1, <2>1, OnlyCommandsWrite
  <2>2. CASE Installing
    <3>1. tree'[Live] # tree[Live] => Live = disk \/ (stage \in Writing /\ Live = Here.disk)
      BY <1>1, <2>2, WhereCommandsWrite
    <3>2. disk # Live
      BY <1>1, <2>2, WhereCommandsWrite, InstallerAssumption
    <3>3. QED
      BY <1>1, <2>2, <3>1, <3>2, WhereCommandsWrite DEF InstallerInv, TargetMounted
  <2>3. QED
    BY <2>1, <2>2
<1>2. InstallerInv /\ [Next]_vars =>
         /\ Own(tree'[Live] # tree[Live] => "mount" \in failed \/ disturbed)
         /\ Own(liveHost' # liveHost => "hostname" \in failed')
  BY <1>1 DEF Own
<1>3. QED
  BY <1>2, InstallerInvariant, PTL DEF Spec, LiveSystemIsSpared

\* OtherDisksAreSpared: this installer changes files on the chosen disk only, unless
\* its mount failed or another installer is at work.
THEOREM OtherDisksSpared == Spec => OtherDisksAreSpared
<1>1. ASSUME InstallerInv, [Next]_vars, others' = others, NEW d \in Disks, tree'[d] # tree[d]
      PROVE  d = disk \/ "mount" \in failed \/ disturbed
  <2>1. Installing
    BY <1>1, OnlyCommandsWrite
  <2>2. d = disk \/ (stage \in Writing /\ d = Here.disk)
    BY <1>1, <2>1, WhereCommandsWrite
  <2>3. QED
    BY <1>1, <2>2 DEF InstallerInv, TargetMounted
<1>2. InstallerInv /\ [Next]_vars =>
         \A d \in Disks : Own(tree'[d] # tree[d] => d = disk \/ "mount" \in failed \/ disturbed)
  BY <1>1 DEF Own
<1>3. QED
  BY <1>2, InstallerInvariant, PTL DEF Spec, OtherDisksAreSpared

\* RebootOnlyWhenFinished: the reboot button of the wizard is never sensitive on
\* the progress page, so of this installer only the dialog at the end reboots. Another
\* installer may reboot the machine while this one is writing.
THEOREM RebootWhenFinished == Spec => RebootOnlyWhenFinished
<1>1. ASSUME InstallerInv, Next, others' = others, process' = "rebooted" PROVE stage = "done"
  <2>1. CASE Reboot
    BY <1>1, <2>1 DEF Reboot, RebootOffered, InstallerInv, PagesAgree, Progress
  <2>2. CASE ~Reboot
    <3>1. Installing => process' # "rebooted"
      BY DEF Installing, Erase, Format, Mount, CopyRootfs, GenerateFstab, CreateAccount,
           SetHostname, EnableAutologin, BindVirtual, InstallGrub, UnbindVirtual, Unmount,
           GoOn, Running
    <3>2. BeginInstallation \/ Exit => process' # "rebooted"
      BY DEF BeginInstallation, Exit, Running
    <3>3. User => process' # "rebooted"
      BY <2>2 DEF User, SelectDisk, Back, NextPage, Start, CloseWindow, Killed, Launch,
           LoopTurns, Running
    <3>4. ~Another
      BY <1>1 DEF Another, InstallerInv, TypeOK
    <3>5. QED
      BY <1>1, <3>1, <3>2, <3>3, <3>4 DEF Next
  <2>3. QED
    BY <2>1, <2>2
<1>2. ASSUME InstallerInv, [Next]_vars
      PROVE  Own(process' = "rebooted" => stage = "done") \/ UNCHANGED vars
  BY <1>1, <1>2 DEF Own
<1>3. QED
  BY <1>2, InstallerInvariant, PTL DEF Spec, RebootOnlyWhenFinished

\* DoneIsFinal: a process that has finished installing has no timer left to start
\* another installation.
THEOREM DoneOnce == Spec => DoneIsFinal
<1>1. ASSUME InstallerInv, [Next]_vars, stage = "done", launches' = launches
      PROVE  stage' = "done"
  <2>1. ~Installing
    BY <1>1, NextStage DEF Installing, Erase, Format, Mount, CopyRootfs, GenerateFstab,
         CreateAccount, SetHostname, EnableAutologin, BindVirtual, InstallGrub, UnbindVirtual,
         Unmount, GoOn
  <2>2. ~BeginInstallation
    BY <1>1 DEF BeginInstallation, InstallerInv, OneInstallation
  <2>3. ~Launch
    BY <1>1 DEF Launch, InstallerInv, TypeOK
  <2>4. QED
    BY <1>1, <2>1, <2>2, <2>3 DEF Next, User, SelectDisk, Back, NextPage, Start, Reboot,
         CloseWindow, Killed, Exit, Another, vars, runVars
<1>2. QED
  BY <1>1, InstallerInvariant, PTL DEF Spec, DoneIsFinal

-----------------------------------------------------------------------------
(* A run in which no command failed.                                        *)

\* What the commands before each stage have put on the chosen disk.
Written ==
    [erase |-> {}, format |-> {}, mount |-> {}, copy |-> {}, fstab |-> {"etc", "rootfs"},
     account |-> {"etc", "rootfs", "fstab"},
     hostname |-> {"etc", "rootfs", "fstab", "account"},
     autologin |-> {"etc", "rootfs", "fstab", "account", "hostname"},
     bind |-> Items, grub |-> Items, unbind |-> Items, umount |-> Items, done |-> Items]

OffTarget == {"erase", "format", "mount", "done"}
OnTarget == {"copy", "fstab", "account", "hostname", "autologin", "bind", "grub", "unbind",
             "umount"}

\* The chosen disk is the one layer added to the mounts found, and it holds what
\* the earlier stages wrote.
CleanAt(s) ==
    /\ s \in OffTarget => mounts = found
    /\ s \in OnTarget => \E l \in Layer : l.disk = disk /\ mounts = Append(found, l)
    /\ Written[s] \subseteq tree[disk]
    /\ s \in {"unbind", "umount", "done"} => boot[disk] = Loaders

CleanInv == stage # "idle" /\ failed = {} /\ ~disturbed => CleanAt(stage)

\* Replacing the last layer of a stack, and taking it away.
LEMMA TopAndRest ==
    ASSUME NEW seq \in Seq(Layer), NEW n \in Nat, Len(seq) = n + 1, NEW m \in Layer
    PROVE  /\ [seq EXCEPT ![n + 1] = m] \in Seq(Layer)
           /\ Len([seq EXCEPT ![n + 1] = m]) = n + 1
           /\ \A i \in 1 .. n + 1 :
                 [seq EXCEPT ![n + 1] = m][i] = IF i = n + 1 THEN m ELSE seq[i]
           /\ SubSeq(seq, 1, n) \in Seq(Layer)
           /\ Len(SubSeq(seq, 1, n)) = n
           /\ \A i \in 1 .. n : SubSeq(seq, 1, n)[i] = seq[i]
<1>1. n + 1 \in 1 .. Len(seq)
  OBVIOUS
<1>2. /\ [seq EXCEPT ![n + 1] = m] \in Seq(Layer)
      /\ Len([seq EXCEPT ![n + 1] = m]) = Len(seq)
      /\ \A i \in 1 .. Len(seq) :
            [seq EXCEPT ![n + 1] = m][i] = IF i = n + 1 THEN m ELSE seq[i]
  BY <1>1, ExceptSeq
<1>3. \A i \in 1 .. n : seq[i] \in Layer
  <2>1. \A i \in 1 .. Len(seq) : seq[i] \in Layer
    BY ElementOfSeq
  <2>2. QED
    BY <2>1
<1>4. /\ SubSeq(seq, 1, n) \in Seq(Layer)
      /\ Len(SubSeq(seq, 1, n)) = IF 1 <= n THEN n - 1 + 1 ELSE 0
      /\ \A i \in 1 .. n - 1 + 1 : SubSeq(seq, 1, n)[i] = seq[1 + i - 1]
  BY <1>3, SubSeqProperties
<1>5. QED
  BY <1>2, <1>4

\* The layer on top of the mounts that were found is the one /mnt/target leads to;
\* changing it or taking it away leaves those.
LEMMA TopOfFound ==
    ASSUME NEW base \in Seq(Layer), NEW l \in Layer, NEW m \in Layer, mounts = Append(base, l)
    PROVE  /\ Here = l
           /\ [mounts EXCEPT ![Len(mounts)] = m] = Append(base, m)
           /\ SubSeq(mounts, 1, Len(mounts) - 1) = base
<1> DEFINE n == Len(base)
<1>1. n \in Nat
  BY LenProperties
<1>2. /\ mounts \in Seq(Layer) /\ Len(mounts) = n + 1
      /\ \A i \in 1 .. n : mounts[i] = base[i]
      /\ mounts[n + 1] = l
  BY AppendProperties
<1>3. /\ Append(base, m) \in Seq(Layer) /\ Len(Append(base, m)) = n + 1
      /\ \A i \in 1 .. n : Append(base, m)[i] = base[i]
      /\ Append(base, m)[n + 1] = m
  BY AppendProperties
<1> HIDE DEF n
<1>4. Here = l
  BY <1>1, <1>2 DEF Here
<1>5. /\ [mounts EXCEPT ![n + 1] = m] \in Seq(Layer)
      /\ Len([mounts EXCEPT ![n + 1] = m]) = n + 1
      /\ \A i \in 1 .. n + 1 :
            [mounts EXCEPT ![n + 1] = m][i] = IF i = n + 1 THEN m ELSE mounts[i]
      /\ SubSeq(mounts, 1, n) \in Seq(Layer)
      /\ Len(SubSeq(mounts, 1, n)) = n
      /\ \A i \in 1 .. n : SubSeq(mounts, 1, n)[i] = mounts[i]
  BY <1>1, <1>2, TopAndRest
<1>6. [mounts EXCEPT ![n + 1] = m] = Append(base, m)
  <2>1. \A i \in 1 .. n + 1 : i \in 1 .. n \/ i = n + 1
    BY <1>1
  <2>2. \A i \in 1 .. n + 1 : [mounts EXCEPT ![n + 1] = m][i] = Append(base, m)[i]
    BY <1>1, <1>2, <1>3, <1>5, <2>1
  <2>3. QED
    BY <1>3, <1>5, <2>2, SeqEqual
<1>7. SubSeq(mounts, 1, n) = base
  BY <1>2, <1>5, SeqEqual DEF n
<1>8. QED
  BY <1>1, <1>2, <1>4, <1>6, <1>7

LEMMA FailureIsRecorded ==
    ASSUME NEW c, NEW must, Fails(c, must)
    PROVE  failed' # {}
BY DEF Fails

\* Every command that leaves no failure behind has succeeded, and takes a clean run
\* to the next stage.
LEMMA CommandsStayClean ==
    ASSUME InstallerInv, InstallerInv', CleanInv, Installing, failed' = {}, ~disturbed'
    PROVE  CleanAt(stage)'
<1> USE FailureIsRecorded, NextStage DEF Succeeds
<1>1. PICK s \in DOMAIN After : GoOn(s)
  BY DEF Installing, Erase, Format, Mount, CopyRootfs, GenerateFstab, CreateAccount,
       SetHostname, EnableAutologin, BindVirtual, InstallGrub, UnbindVirtual, Unmount
<1>2. /\ stage = s /\ stage' = After[s] /\ disk' = disk /\ found' = found
      /\ disk \in Disks /\ found \in Seq(Layer) /\ ~disturbed
  BY <1>1, GoingOn DEF GoOn, InstallerInv, TypeOK
<1>3. s # "idle"
  BY DEF Stages
<1>4. /\ tree \in [Disks \cup {Live} -> SUBSET Items]
      /\ tree' \in [Disks \cup {Live} -> SUBSET Items]
      /\ boot \in [Disks -> SUBSET Loaders] /\ boot' \in [Disks -> SUBSET Loaders]
  BY DEF InstallerInv, TypeOK
<1>5. ASSUME failed = {} PROVE CleanAt(s)
  BY <1>2, <1>3, <1>5 DEF CleanInv
<1>6. ASSUME failed = {}, s \in OnTarget
      PROVE  \E l \in Layer : l.disk = disk /\ mounts = Append(found, l) /\ Here = l
  <2>1. PICK l \in Layer : l.disk = disk /\ mounts = Append(found, l)
    BY <1>5, <1>6 DEF CleanAt
  <2>2. Here = l
    BY <1>2, <2>1, TopOfFound
  <2>3. QED
    BY <2>1, <2>2
<1>7. CASE Erase \/ Format
  <2>1. failed = {} /\ s \in {"erase", "format"} /\ UNCHANGED mounts
    BY <1>2, <1>7 DEF Erase, Format, GoOn
  <2>2. stage' \in {"format", "mount"}
    BY <1>2, <2>1
  <2>3. QED
    BY <1>2, <1>5, <2>1, <2>2 DEF CleanAt, OffTarget, OnTarget, Written
<1>8. CASE Mount
  <2>1. /\ failed = {} /\ s = "mount"
        /\ mounts' = Append(mounts, [disk |-> disk, subs |-> {"efi"}])
    BY <1>2, <1>8 DEF Mount, GoOn
  <2>2. [disk |-> disk, subs |-> {"efi"}] \in Layer
    BY <1>2 DEF Layer
  <2>3. mounts = found /\ stage' = "copy"
    BY <1>2, <1>5, <2>1 DEF CleanAt, OffTarget
  <2>4. QED
    BY <1>2, <2>1, <2>2, <2>3 DEF CleanAt, OffTarget, OnTarget, Written
<1>9. ASSUME NEW part \in SUBSET Items, s \in Writing, failed = {}, UNCHANGED mounts,
             tree' = [tree EXCEPT ![Here.disk] = @ \cup part],
             Written[After[s]] \subseteq Written[s] \cup part
      PROVE  CleanAt(stage)'
  <2>1. s \in OnTarget /\ After[s] \in OnTarget \ {"unbind", "umount", "done"}
    BY <1>9 DEF Writing, OnTarget
  <2>2. Here.disk = disk
    BY <1>6, <1>9, <2>1
  <2>3. tree'[disk] = tree[disk] \cup part
    BY <1>2, <1>4, <1>9, <2>2
  <2>4. Written[s] \subseteq tree[disk]
    BY <1>5, <1>9 DEF CleanAt
  <2>5. \E l \in Layer : l.disk = disk' /\ mounts' = Append(found', l)
    BY <1>2, <1>5, <1>9, <2>1 DEF CleanAt
  <2>6. Written[stage'] \subseteq tree'[disk']
    BY <1>2, <1>9, <2>3, <2>4
  <2>7. stage' \notin OffTarget
    BY <1>2, <2>1 DEF OnTarget, OffTarget
  <2>8. QED
    BY <1>2, <2>1, <2>5, <2>6, <2>7 DEF CleanAt
<1>10. CASE CopyRootfs
  <2>1. /\ failed = {} /\ s = "copy" /\ UNCHANGED mounts
        /\ tree' = [tree EXCEPT ![Here.disk] = @ \cup {"etc", "rootfs"}]
    BY <1>2, <1>10 DEF CopyRootfs, GoOn
  <2>2. {"etc", "rootfs"} \in SUBSET Items /\ s \in Writing
    BY <2>1 DEF Items, Writing
  <2>3. Written[After[s]] \subseteq Written[s] \cup {"etc", "rootfs"}
    BY <2>1 DEF Written
  <2>4. QED
    BY <1>9, <2>1, <2>2, <2>3
<1>11. CASE GenerateFstab
  <2>1. /\ failed = {} /\ s = "fstab" /\ UNCHANGED mounts
        /\ tree' = [tree EXCEPT ![Here.disk] = @ \cup {"fstab"}]
    BY <1>2, <1>11 DEF GenerateFstab, AddItem, GoOn
  <2>2. {"fstab"} \in SUBSET Items /\ s \in Writing
    BY <2>1 DEF Items, Writing
  <2>3. Written[After[s]] \subseteq Written[s] \cup {"fstab"}
    BY <2>1 DEF Written
  <2>4. QED
    BY <1>9, <2>1, <2>2, <2>3
<1>12. CASE CreateAccount
  <2>1. /\ failed = {} /\ s = "account" /\ UNCHANGED mounts
        /\ tree' = [tree EXCEPT ![Here.disk] = @ \cup {"account"}]
    BY <1>2, <1>12 DEF CreateAccount, AddItem, GoOn
  <2>2. {"account"} \in SUBSET Items /\ s \in Writing
    BY <2>1 DEF Items, Writing
  <2>3. Written[After[s]] \subseteq Written[s] \cup {"account"}
    BY <2>1 DEF Written
  <2>4. QED
    BY <1>9, <2>1, <2>2, <2>3
<1>13. CASE SetHostname
  <2>1. /\ failed = {} /\ s = "hostname" /\ UNCHANGED mounts
        /\ tree' = [tree EXCEPT ![Here.disk] = @ \cup {"hostname"}]
    BY <1>2, <1>13 DEF SetHostname, AddItem, GoOn
  <2>2. {"hostname"} \in SUBSET Items /\ s \in Writing
    BY <2>1 DEF Items, Writing
  <2>3. Written[After[s]] \subseteq Written[s] \cup {"hostname"}
    BY <2>1 DEF Written
  <2>4. QED
    BY <1>9, <2>1, <2>2, <2>3
<1>14. CASE EnableAutologin
  <2>1. /\ failed = {} /\ s = "autologin" /\ UNCHANGED mounts
        /\ tree' = [tree EXCEPT ![Here.disk] = @ \cup {"etc", "autologin"}]
    BY <1>2, <1>14 DEF EnableAutologin, GoOn
  <2>2. {"etc", "autologin"} \in SUBSET Items /\ s \in Writing
    BY <2>1 DEF Items, Writing
  <2>3. Written[After[s]] \subseteq Written[s] \cup {"etc", "autologin"}
    BY <2>1 DEF Written, Items
  <2>4. QED
    BY <1>9, <2>1, <2>2, <2>3
<1>15. ASSUME NEW subs \in SUBSET (Virtual \cup {"efi"}), s \in OnTarget, failed = {},
              mounts' = [mounts EXCEPT ![Len(mounts)].subs = subs]
       PROVE  \E l \in Layer : l.disk = disk' /\ mounts' = Append(found', l)
  <2>1. PICK l \in Layer : l.disk = disk /\ mounts = Append(found, l) /\ Here = l
    BY <1>6, <1>15
  <2> DEFINE m == [l EXCEPT !.subs = subs]
  <2>2. m \in Layer /\ m.disk = disk
    BY <2>1 DEF Layer
  <2>3. mounts' = [mounts EXCEPT ![Len(mounts)] = m]
    BY <1>15, <2>1 DEF Here
  <2> HIDE DEF m
  <2>4. mounts' = Append(found, m)
    BY <1>2, <2>1, <2>2, <2>3, TopOfFound
  <2>5. QED
    BY <1>2, <2>2, <2>4
<1>16. CASE BindVirtual
  <2>1. PICK bound \in SUBSET Virtual :
           /\ failed = {} /\ s = "bind" /\ UNCHANGED <<tree, boot>>
           /\ mounts' = [mounts EXCEPT ![Len(mounts)].subs = @ \cup bound]
    <3>1. \A bound \in {Virtual, Virtual \ {"efivars"}, {"proc", "sys", "run"}, {}} :
             bound \in SUBSET Virtual
      BY DEF Virtual
    <3>2. s = "bind" /\ UNCHANGED <<tree, boot>>
      BY <1>2, <1>16 DEF BindVirtual, GoOn
    <3>3. failed = {}
      BY <1>16 DEF BindVirtual
    <3>4. QED
      BY <1>16, <3>1, <3>2, <3>3 DEF BindVirtual
  <2>2. Here.subs \cup bound \in SUBSET (Virtual \cup {"efi"})
    BY TopOfMounts DEF InstallerInv, Layer
  <2>3. \E l \in Layer : l.disk = disk' /\ mounts' = Append(found', l)
    BY <1>15, <2>1, <2>2 DEF Here, OnTarget
  <2>4. Written["grub"] = Items /\ Written["bind"] = Items /\ stage' = "grub"
    BY <1>2, <2>1 DEF Written
  <2>5. QED
    BY <1>2, <1>5, <2>1, <2>3, <2>4 DEF CleanAt, OffTarget
<1>17. CASE InstallGrub
  <2>1. /\ failed = {} /\ s = "grub" /\ UNCHANGED <<tree, mounts>>
        /\ boot' = WithLoaders(disk, Loaders)
    BY <1>2, <1>17 DEF InstallGrub, GoOn
  <2>2. Here.disk = disk
    BY <1>6, <2>1 DEF OnTarget
  <2>3. boot'[disk] = Loaders
    BY <1>2, <1>4, <2>1, <2>2 DEF WithLoaders, Loaders
  <2>4. Written["grub"] = Items /\ Written["unbind"] = Items /\ stage' = "unbind"
    BY <1>2, <2>1 DEF Written
  <2>5. QED
    BY <1>2, <1>5, <2>1, <2>3, <2>4 DEF CleanAt, OffTarget, OnTarget
<1>18. CASE UnbindVirtual
  <2>1. /\ failed = {} /\ s = "unbind" /\ UNCHANGED <<tree, boot>>
        /\ mounts' = [mounts EXCEPT ![Len(mounts)].subs = @ \ Virtual]
    BY <1>2, <1>18 DEF UnbindVirtual, GoOn
  <2>2. Here.subs \ Virtual \in SUBSET (Virtual \cup {"efi"})
    BY TopOfMounts DEF InstallerInv, Layer
  <2>3. \E l \in Layer : l.disk = disk' /\ mounts' = Append(found', l)
    BY <1>15, <2>1, <2>2 DEF Here, OnTarget
  <2>4. Written["unbind"] = Items /\ Written["umount"] = Items /\ stage' = "umount"
    BY <1>2, <2>1 DEF Written
  <2>5. QED
    BY <1>2, <1>5, <2>1, <2>3, <2>4 DEF CleanAt, OffTarget
<1>19. CASE Unmount
  <2>1. /\ failed = {} /\ s = "umount" /\ UNCHANGED <<tree, boot>>
        /\ mounts' = SubSeq(mounts, 1, Len(mounts) - 1)
    BY <1>2, <1>19 DEF Unmount, GoOn
  <2>2. PICK l \in Layer : mounts = Append(found, l)
    BY <1>6, <2>1 DEF OnTarget
  <2>3. mounts' = found
    BY <1>2, <2>1, <2>2, TopOfFound
  <2>4. Written["umount"] = Items /\ Written["done"] = Items /\ stage' = "done"
    BY <1>2, <2>1 DEF Written
  <2>5. QED
    BY <1>2, <1>5, <2>1, <2>3, <2>4 DEF CleanAt, OnTarget
<1>20. QED
  BY <1>7, <1>8, <1>10, <1>11, <1>12, <1>13, <1>14, <1>16, <1>17, <1>18, <1>19 DEF Installing

\* The clicks touch nothing a run has done; a run begins clean.
LEMMA CleanStep == InstallerInv /\ InstallerInv' /\ CleanInv /\ [Next]_vars => CleanInv'
<1> SUFFICES ASSUME InstallerInv, InstallerInv', CleanInv, [Next]_vars,
                    stage' # "idle", failed' = {}, ~disturbed'
             PROVE  CleanAt(stage)'
  BY DEF CleanInv
<1>1. CASE Installing
  BY <1>1, CommandsStayClean
<1>2. CASE BeginInstallation
  <2>1. stage' = "erase" /\ found' = mounts /\ mounts' = mounts
    BY <1>2 DEF BeginInstallation, sysVars
  <2>2. QED
    BY <2>1 DEF CleanAt, OffTarget, OnTarget, Written
<1>3. CASE ~Installing /\ ~BeginInstallation
  <2>1. UNCHANGED <<runVars, sysVars>>
    BY <1>3 DEF Next, User, SelectDisk, Back, NextPage, Start, Reboot, CloseWindow, Killed,
                Launch, Exit, Another, vars
  <2>2. QED
    BY <2>1 DEF CleanInv, CleanAt, runVars, sysVars
<1>4. QED
  BY <1>1, <1>2, <1>3

\* CleanRunInstalls: when no command failed and no other installer's came between, the chosen disk holds everything and
\* both boot loaders, and the mounts are those the run found, however many
\* earlier installers were killed with the target mounted.
THEOREM CleanRunsInstall == Spec => []CleanRunInstalls
<1>1. Init => CleanInv
  BY DEF Init, CleanInv
<1>2. InstallerInv /\ CleanInv => CleanRunInstalls
  <2> SUFFICES ASSUME InstallerInv, CleanInv, stage = "done", failed = {}, ~disturbed
               PROVE  Installed(disk) /\ mounts = found
    BY DEF CleanRunInstalls
  <2>1. CleanAt("done")
    BY DEF CleanInv
  <2>2. mounts = found /\ Items \subseteq tree[disk] /\ boot[disk] = Loaders
    BY <2>1 DEF CleanAt, OffTarget, Written
  <2>3. disk \in Disks
    BY DEF InstallerInv, RightDisk
  <2>4. tree[disk] \subseteq Items
    BY <2>3 DEF InstallerInv, TypeOK
  <2>5. QED
    BY <2>2, <2>4 DEF Installed
<1>3. QED
  BY <1>1, <1>2, CleanStep, InstallerInvariant, PTL DEF Spec

-----------------------------------------------------------------------------
(* The installer implements DiskInstallation.                              *)

\* The phase in each situation of the process.
LEMMA Phases ==
    /\ process = "ended" => Phase = "gone"
    /\ process = "rebooted" => Phase = "rebooted"
    /\ Running /\ stage = "done" => Phase = "finished"
    /\ Running /\ stage = "idle" /\ timer => Phase = "agreed"
    /\ Running /\ stage = "idle" /\ ~timer => Phase = "choosing"
    /\ Running /\ stage \notin {"idle", "done"} => Phase = "writing"
BY DEF Phase, Running

\* The same after a step.
LEMMA NextPhases ==
    /\ process' = "ended" => Phase' = "gone"
    /\ process' = "rebooted" => Phase' = "rebooted"
    /\ process' = "running" /\ stage' = "done" => Phase' = "finished"
    /\ process' = "running" /\ stage' = "idle" /\ timer' => Phase' = "agreed"
    /\ process' = "running" /\ stage' = "idle" /\ ~timer' => Phase' = "choosing"
    /\ process' = "running" /\ stage' \notin {"idle", "done"} => Phase' = "writing"
BY DEF Phase, Running

\* What the installation reads of the wizard and the run is read off these.
LEMMA SameRun ==
    ASSUME UNCHANGED <<stage, timer, disk, confirmed>>
    PROVE  /\ Target' = Target
           /\ process' = process => Phase' = Phase
BY DEF Target, Phase, Running

LEMMA SameContent ==
    ASSUME UNCHANGED <<table, fs, tree, boot>>
    PROVE  Partitions' = Partitions /\ Files' = Files
BY DEF Partitions, Files

\* The stages that write to where /mnt/target leads, the boot loader's included.
Filling == Writing \cup {"bind", "grub"}

\* Once the mount succeeded, /mnt/target leads to the disk until the loaders are in,
\* if no other installer interferes.
StaysMounted == stage \in Filling /\ "mount" \notin failed /\ ~disturbed => Here.disk = disk

LEMMA StaysMountedStep ==
    InstallerInv /\ InstallerInv' /\ StaysMounted /\ [Next]_vars => StaysMounted'
<1> SUFFICES ASSUME InstallerInv, InstallerInv', StaysMounted, [Next]_vars,
                    stage' \in Filling, "mount" \notin failed', ~disturbed'
             PROVE  Here'.disk = disk'
  BY DEF StaysMounted
<1>1. CASE Installing
  <2>1. PICK s \in DOMAIN After : GoOn(s)
    BY <1>1, NextStage DEF Installing, Erase, Format, Mount, CopyRootfs, GenerateFstab, CreateAccount,
         SetHostname, EnableAutologin, BindVirtual, InstallGrub, UnbindVirtual, Unmount
  <2>2. stage = s /\ stage' = After[s] /\ disk' = disk /\ ~disturbed
    BY <2>1, GoingOn DEF GoOn
  <2>3. CASE stage' \in Writing
    BY <2>3 DEF InstallerInv, TargetMounted
  <2>4. CASE s = "autologin"
    <3>1. EnableAutologin
      BY <1>1, <2>2, <2>4 DEF Installing, Erase, Format, Mount, CopyRootfs, GenerateFstab,
           CreateAccount, SetHostname, BindVirtual, InstallGrub, UnbindVirtual, Unmount, GoOn
    <3>2. UNCHANGED mounts /\ "mount" \notin failed
      BY <3>1 DEF EnableAutologin, Succeeds, Fails
    <3>3. QED
      BY <2>2, <2>4, <3>2 DEF StaysMounted, Filling, Writing, Here
  <2>5. CASE s = "bind"
    <3>1. BindVirtual
      BY <1>1, <2>2, <2>5 DEF Installing, Erase, Format, Mount, CopyRootfs, GenerateFstab,
           CreateAccount, SetHostname, EnableAutologin, InstallGrub, UnbindVirtual, Unmount, GoOn
    <3>2. PICK bound : mounts' = [mounts EXCEPT ![Len(mounts)].subs = @ \cup bound]
      BY <3>1 DEF BindVirtual
    <3>3. "mount" \notin failed
      BY <3>1 DEF BindVirtual, Succeeds, Fails
    <3>4. mounts \in Seq(Layer) /\ Len(mounts) \in Nat \ {0} /\ Here \in Layer
      BY TopOfMounts DEF InstallerInv, TypeOK
    <3> DEFINE top == [Here EXCEPT !.subs = @ \cup bound]
    <3>5. top.disk = Here.disk
      BY <3>4 DEF Layer
    <3>6. mounts' = [mounts EXCEPT ![Len(mounts)] = top]
      BY <3>2 DEF Here
    <3> HIDE DEF top
    <3>7. Len(mounts') = Len(mounts) /\ mounts'[Len(mounts)] = top
      BY <3>4, <3>6
    <3>8. Here'.disk = Here.disk
      BY <3>5, <3>7 DEF Here
    <3>9. QED
      BY <2>2, <2>5, <3>3, <3>8 DEF StaysMounted, Filling
  <2>6. QED
    BY <2>2, <2>3, <2>4, <2>5, NextStage DEF Filling, Writing
<1>2. CASE BeginInstallation
  BY <1>2 DEF BeginInstallation, Filling, Writing
<1>3. CASE ~Installing /\ ~BeginInstallation
  <2>1. \/ UNCHANGED <<stage, disk, failed, disturbed, mounts>>
        \/ stage' = "idle"
    BY <1>3 DEF Next, User, SelectDisk, Back, NextPage, Start, Reboot, CloseWindow, Killed,
         Launch, Exit, Another, vars, runVars, sysVars
  <2>2. QED
    BY <2>1 DEF StaysMounted, Here, Filling, Writing
<1>4. QED
  BY <1>1, <1>2, <1>3

\* What the refinement rests on.
RefinementInv == InstallerInv /\ StaysMounted

LEMMA RefinementInvariant == Spec => []RefinementInv
<1>1. Init => StaysMounted
  BY DEF Init, StaysMounted, Filling, Writing
<1>2. InstallerInv /\ StaysMounted => RefinementInv
  BY DEF RefinementInv
<1>3. QED
  BY <1>1, <1>2, StaysMountedStep, InstallerInvariant, PTL DEF Spec

-----------------------------------------------------------------------------
(* Every step is a step of DiskInstallation.                                *)

\* The clicks before the installation is begun, its confirmation among them.
LEMMA WizardSteps ==
    ASSUME RefinementInv, (\E d \in Disks : SelectDisk(d)) \/ Back \/ NextPage \/ Start
    PROVE  [Installation!Next]_(Installation!vars)
<1>1. /\ UNCHANGED <<stage, disk, failed, disturbed, app, process, table, fs, tree, boot>>
      /\ Running /\ selected \in Disks
  BY DEF SelectDisk, Back, NextPage, Start, runVars, sysVars, LoopTurns,
         RefinementInv, InstallerInv, TypeOK
<1>2. /\ UNCHANGED <<Partitions, Files>>
      /\ ("mount" \in failed \/ disturbed)' = ("mount" \in failed \/ disturbed)
  BY <1>1, SameContent
<1>3. CASE Start
  <2>1. ~timer /\ stage = "idle" /\ summary = selected
    BY <1>3 DEF Start, RefinementInv, InstallerInv, PagesAgree, OneInstallation, Progress,
                Confirmation
  <2>2. timer' /\ confirmed' = summary /\ UNCHANGED summary
    BY <1>3 DEF Start
  <2>3. Phase = "choosing" /\ Phase' = "agreed"
    BY <1>1, <2>1, <2>2, Phases, NextPhases DEF Running
  <2>4. Target' = summary
    BY <1>1, <2>1, <2>2 DEF Target
  <2>5. Installation!Agree
    BY <1>1, <1>2, <2>1, <2>2, <2>3, <2>4 DEF Installation!Agree, Installation!content
  <2>6. QED
    BY <2>5 DEF Installation!Next
<1>4. CASE (\E d \in Disks : SelectDisk(d)) \/ Back \/ NextPage
  <2>1. UNCHANGED <<timer, confirmed>>
    BY <1>4 DEF SelectDisk, Back, NextPage
  <2>2. UNCHANGED <<Phase, Target>>
    BY <1>1, <2>1, SameRun
  <2>3. CASE UNCHANGED summary
    BY <1>1, <1>2, <2>2, <2>3 DEF Installation!vars, Installation!content
  <2>4. CASE ~UNCHANGED summary
    <3>1. summary' = selected /\ step # Progress
      BY <1>4, <2>4 DEF SelectDisk, Back, NextPage, UpdateNavigation, Progress, Confirmation
    <3>2. stage = "idle" /\ ~timer
      BY <3>1 DEF RefinementInv, InstallerInv, OneInstallation, TypeOK
    <3>3. Phase = "choosing"
      BY <1>1, <3>2, Phases
    <3>4. Installation!Show
      BY <1>1, <1>2, <2>2, <3>1, <3>3 DEF Installation!Show, Installation!content
    <3>5. QED
      BY <3>4 DEF Installation!Next
  <2>5. QED
    BY <2>3, <2>4
<1>5. QED
  BY <1>3, <1>4

\* The window, the process and the machine.
LEMMA ProcessSteps ==
    ASSUME RefinementInv, Reboot \/ CloseWindow \/ Killed \/ Launch \/ Exit
    PROVE  [Installation!Next]_(Installation!vars)
<1>1. UNCHANGED <<Partitions, Files>>
  BY SameContent DEF Reboot, CloseWindow, Killed, Launch, Exit, sysVars
<1>2. CASE Launch
  <2>1. Phase = "gone" /\ Phase' = "choosing"
    BY <1>2, Phases, NextPhases DEF Launch
  <2>2. /\ Target' = NoDisk /\ summary' = NoDisk /\ app' = "allocated" /\ failed' = {}
        /\ ~disturbed'
    BY <1>2 DEF Launch, Target
  <2>3. Installation!Again
    BY <1>1, <2>1, <2>2 DEF Installation!Again, Installation!content
  <2>4. QED
    BY <2>3 DEF Installation!Next
<1>3. CASE ~Launch
  <2>1. UNCHANGED <<stage, timer, disk, confirmed, summary, failed, disturbed>> /\ Running
    BY <1>3 DEF Reboot, CloseWindow, Killed, Exit, uiVars, runVars, LoopTurns
  <2>2. /\ Target' = Target
        /\ ("mount" \in failed \/ disturbed)' = ("mount" \in failed \/ disturbed)
    BY <2>1, SameRun
  <2>3. CASE Reboot
    <3>1. stage = "done" /\ process' = "rebooted" /\ UNCHANGED app
      BY <2>3 DEF Reboot, RebootOffered, RefinementInv, InstallerInv, PagesAgree, Progress
    <3>2. Phase = "finished" /\ Phase' = "rebooted"
      BY <2>1, <3>1, Phases, NextPhases
    <3>3. Installation!Reboot
      BY <1>1, <2>1, <2>2, <3>1, <3>2 DEF Installation!Reboot, Installation!content
    <3>4. QED
      BY <3>3 DEF Installation!Next
  <2>4. CASE CloseWindow
    <3>1. app = "allocated" /\ app' = "freed" /\ process' = process
      BY <2>4 DEF CloseWindow
    <3>2. Phase' = Phase /\ Phase \notin {"gone", "rebooted"}
      BY <2>1, <3>1, SameRun DEF Phase, Running
    <3>3. Installation!Close
      BY <1>1, <2>1, <2>2, <3>1, <3>2 DEF Installation!Close, Installation!content
    <3>4. QED
      BY <3>3 DEF Installation!Next
  <2>5. CASE Exit
    <3>1. app = "freed" /\ stage \in {"idle", "done"} /\ process' = "ended" /\ UNCHANGED app
      BY <2>5 DEF Exit
    <3>2. Phase \in {"choosing", "agreed", "finished"} /\ Phase' = "gone"
      BY <2>1, <3>1, Phases, NextPhases
    <3>3. Installation!Leave
      BY <1>1, <2>1, <2>2, <3>1, <3>2 DEF Installation!Leave, Installation!content
    <3>4. QED
      BY <3>3 DEF Installation!Next
  <2>6. CASE Killed
    <3>1. stage \notin {"idle", "done"} /\ process' = "ended" /\ UNCHANGED app
      BY <2>6 DEF Killed
    <3>2. Phase = "writing" /\ Phase' = "gone"
      BY <2>1, <3>1, Phases, NextPhases
    <3>3. Installation!Write
      BY <1>1, <2>1, <2>2, <3>1, <3>2 DEF Installation!Write
    <3>4. QED
      BY <3>3 DEF Installation!Next
  <2>7. QED
    BY <1>3, <2>3, <2>4, <2>5, <2>6
<1>4. QED
  BY <1>2, <1>3

\* The timer turns the agreement into the installation, at most once.
LEMMA BeginSteps ==
    ASSUME RefinementInv, BeginInstallation
    PROVE  Installation!Begin
<1>1. stage = "idle" /\ timer /\ Running /\ confirmed = selected
  BY DEF BeginInstallation, RefinementInv, InstallerInv, OneInstallation, PagesAgree
<1>2. /\ stage' = "erase" /\ timer' = FALSE /\ failed' = {} /\ ~disturbed'
      /\ UNCHANGED <<summary, app>>
      /\ disk' \in IF app = "allocated" THEN {selected} ELSE Disks
      /\ process' = process \/ (app = "freed" /\ process' = "ended")
  BY DEF BeginInstallation, TimerIsRemoved
<1>3. UNCHANGED <<Partitions, Files>>
  BY SameContent DEF BeginInstallation, sysVars
<1>4. app \in {"allocated", "freed"}
  BY DEF RefinementInv, InstallerInv, TypeOK
<1>5. Phase = "agreed" /\ (Phase' = "writing" \/ (app = "freed" /\ Phase' = "gone"))
  BY <1>1, <1>2, Phases, NextPhases DEF Running
<1>6. Target = confirmed /\ (Target' = Target \/ (app = "freed" /\ Target' \in Disks))
  BY <1>1, <1>2, <1>4 DEF Target
<1>7. QED
  BY <1>1, <1>2, <1>3, <1>5, <1>6 DEF Installation!Begin, Installation!content

\* The BIOS loader goes to the chosen disk only, the EFI one where /mnt/target leads.
LEMMA WhereLoadersGo ==
    ASSUME InstallerInv, Installing, NEW d \in Disks, d # disk
    PROVE  /\ boot'[d] \cap {"bios"} = boot[d] \cap {"bios"}
           /\ stage # "grub" \/ d # Here.disk => ("efi" \in boot'[d] <=> "efi" \in boot[d])
<1>1. boot \in [Disks -> SUBSET Loaders]
  BY DEF InstallerInv, TypeOK
<1>2. CASE Erase \/ Format
  <2>1. UNCHANGED boot \/ \E x : boot' = [boot EXCEPT ![disk] = x]
    <3>1. Erase => UNCHANGED boot
      BY DEF Erase, Repartition
    <3>2. Format => \E made, lost : Formatted(disk, made, lost)
      BY DEF Format
    <3>3. \A made, lost : Formatted(disk, made, lost) =>
             boot' = [boot EXCEPT ![disk] = IF "esp" \in made \cup lost THEN @ \ {"efi"} ELSE @]
      BY DEF Formatted
    <3>4. QED
      BY <1>2, <3>1, <3>2, <3>3
  <2>2. boot'[d] = boot[d]
    BY <1>1, <2>1
  <2>3. QED
    BY <2>2
<1>3. CASE InstallGrub
  <2>1. PICK installed : boot' = WithLoaders(disk, installed)
    BY <1>3 DEF InstallGrub
  <2>2. boot'[d] = boot[d] \cup (IF d = Here.disk THEN installed \cap {"efi"} ELSE {})
    BY <1>1, <2>1 DEF WithLoaders
  <2>3. stage = "grub"
    BY <1>3 DEF InstallGrub, GoOn
  <2>4. QED
    BY <2>2, <2>3
<1>4. CASE UNCHANGED boot
  BY <1>4
<1>5. QED
  BY <1>2, <1>3, <1>4 DEF Installing, Mount, CopyRootfs, GenerateFstab, CreateAccount,
     SetHostname, EnableAutologin, BindVirtual, UnbindVirtual, Unmount

\* Until a mount fails only the chosen disk is written to; no command forgets a failure.
LEMMA WriteSteps ==
    ASSUME RefinementInv, Installing
    PROVE  Installation!Write
<1>1. PICK s \in DOMAIN After : GoOn(s)
  BY NextStage DEF Installing, Erase, Format, Mount, CopyRootfs, GenerateFstab, CreateAccount,
       SetHostname, EnableAutologin, BindVirtual, InstallGrub, UnbindVirtual, Unmount
<1>2. /\ Running /\ stage = s /\ stage' = After[s] /\ process' \in {process, "ended"}
      /\ UNCHANGED <<summary, app, disk, disturbed>>
  BY <1>1 DEF GoOn, uiVars
<1>3. s \notin {"idle", "done"} /\ After[s] # "idle"
  BY NextStage
<1>4. Phase = "writing" /\ Phase' \in {"writing", "finished", "gone"}
  BY <1>2, <1>3, Phases, NextPhases DEF Running
<1>5. Target = disk /\ Target' = disk
  BY <1>2, <1>3 DEF Target
<1>6. InstallerInv /\ StaysMounted
  BY DEF RefinementInv
<1>7. failed \subseteq failed'
  BY DEF Installing, Erase, Format, Mount, CopyRootfs, GenerateFstab, CreateAccount, AddItem,
         SetHostname, EnableAutologin, BindVirtual, InstallGrub, UnbindVirtual, Unmount,
         Succeeds, Fails
<1>8. ASSUME NEW d \in Disks \ {disk} PROVE Partitions'[d] = Partitions[d]
  <2>1. table'[d] = table[d] /\ fs'[d] = fs[d]
    BY <1>6, WhereCommandsWrite
  <2>2. boot'[d] \cap {"bios"} = boot[d] \cap {"bios"}
    BY <1>6, WhereLoadersGo
  <2>3. QED
    BY <2>1, <2>2 DEF Partitions
<1>9. ASSUME NEW d \in (Disks \cup {Live}) \ {disk}, "mount" \notin failed, ~disturbed
      PROVE  Files'[d] = Files[d]
  <2>1. stage \in Filling => d # Here.disk
    BY <1>6, <1>9 DEF StaysMounted
  <2>2. tree'[d] = tree[d]
    BY <1>6, <2>1, WhereCommandsWrite DEF Filling
  <2>3. d \in Disks => ("efi" \in boot'[d] <=> "efi" \in boot[d])
    BY <1>6, <2>1, WhereLoadersGo DEF Filling
  <2>4. QED
    BY <2>2, <2>3 DEF Files
<1>10. QED
  BY <1>2, <1>4, <1>5, <1>7, <1>8, <1>9 DEF Installation!Write

LEMMA StutterSteps ==
    ASSUME UNCHANGED vars
    PROVE  UNCHANGED Installation!vars
BY SameRun, SameContent
   DEF vars, uiVars, runVars, sysVars, Installation!vars, Installation!content

\* Whatever another installer does, this one promised nothing about it.
LEMMA AnotherSteps ==
    ASSUME RefinementInv, Another
    PROVE  Installation!Disturb
<1>1. /\ UNCHANGED <<stage, timer, disk, confirmed, summary, app>> /\ disturbed' = TRUE
      /\ process # "rebooted" /\ process' \in {process, "rebooted"}
  BY DEF Another, uiVars
<1>2. process \in {"running", "ended", "rebooted"}
  BY DEF RefinementInv, InstallerInv, TypeOK
<1>3. Target' = Target
  BY <1>1, SameRun
<1>4. Phase # "rebooted"
  BY <1>1, <1>2, Phases DEF Phase, Running
<1>5. Phase' \in {Phase, "rebooted"}
  BY <1>1, SameRun, NextPhases
<1>6. QED
  BY <1>1, <1>3, <1>4, <1>5 DEF Installation!Disturb

LEMMA NothingAgreedYet == Init => Installation!Init
<1> SUFFICES ASSUME Init PROVE Installation!Init
  OBVIOUS
<1>1. /\ stage = "idle" /\ ~timer /\ summary = NoDisk /\ app = "allocated" /\ failed = {}
      /\ ~disturbed /\ process = "running"
  BY DEF Init
<1>2. Phase = "choosing" /\ Target = NoDisk
  BY <1>1, Phases DEF Running, Target
<1>3. QED
  BY <1>1, <1>2 DEF Installation!Init

\* ImplementsInstallation: every step of the wizard, of run_installation and of the
\* process is a step of the promised installation. Nothing is written before the user
\* agreed to the disk that was shown; then it writes only to that disk, or to any when
\* the window was closed first, until a mount fails or another installer interferes; its
\* partitioning and formatting stay on the disk even then. A process installs at most
\* once, and does not reboot before the end.
THEOREM InstallerImplementsInstallation == Spec => ImplementsInstallation
<1>1. RefinementInv /\ [Next]_vars => [Installation!Next]_(Installation!vars)
  <2> SUFFICES ASSUME RefinementInv, [Next]_vars
               PROVE  [Installation!Next]_(Installation!vars)
    OBVIOUS
  <2>1. CASE User
    BY <2>1, WizardSteps, ProcessSteps DEF User
  <2>2. CASE BeginInstallation
    BY <2>2, BeginSteps DEF Installation!Next
  <2>3. CASE Installing
    BY <2>3, WriteSteps DEF Installation!Next
  <2>4. CASE Exit
    BY <2>4, ProcessSteps
  <2>5. CASE Another
    BY <2>5, AnotherSteps DEF Installation!Next
  <2>6. CASE UNCHANGED vars
    BY <2>6, StutterSteps
  <2>7. QED
    BY <2>1, <2>2, <2>3, <2>4, <2>5, <2>6 DEF Next
<1>2. QED
  BY <1>1, NothingAgreedYet, RefinementInvariant, PTL
     DEF Spec, ImplementsInstallation, Installation!Spec

-----------------------------------------------------------------------------
(* An installation ends, provided the next command can always be issued.    *)

\* What the provers cannot read off ENABLED: each stage has its command, whatever failed
\* before and whatever is mounted or freed, and so has a timer that is due.
CommandsCanRun ==
    /\ Running /\ stage \in DOMAIN After => ENABLED <<Installing>>_vars
    /\ Running /\ timer /\ stage = "idle" => ENABLED <<BeginInstallation>>_vars

\* A run under the fairness of Installer in which no command has to wait.
CommandsFlow == Spec /\ []CommandsCanRun

Over == stage = "done" \/ ~Running
At(s) == Running /\ stage = s
Pending == Running /\ timer
Reached(s) == Over \/ At(After[s])

StageEnds(s) == At(s) ~> Reached(s)

\* Nothing but its own command moves run_installation on from a stage.
LEMMA StageSteps ==
    ASSUME NEW s \in DOMAIN After
    PROVE  /\ InstallerInv /\ At(s) /\ [Next]_vars => At(s)' \/ Reached(s)'
           /\ InstallerInv /\ At(s) /\ <<Installing>>_vars => Reached(s)'
           /\ CommandsCanRun /\ At(s) => ENABLED <<Installing>>_vars
<1>1. ASSUME At(s), Installing PROVE Reached(s)'
  <2>1. stage' = After[s] /\ process' \in {process, "ended"}
    BY <1>1 DEF Installing, Erase, Format, Mount, CopyRootfs, GenerateFstab, CreateAccount,
         SetHostname, EnableAutologin, BindVirtual, InstallGrub, UnbindVirtual, Unmount, GoOn, At
  <2>2. QED
    BY <1>1, <2>1 DEF Reached, Over, At, Running
<1>2. ASSUME InstallerInv, At(s), [Next]_vars, ~Installing PROVE At(s)' \/ Reached(s)'
  <2>1. s \notin {"idle", "done"}
    BY NextStage
  <2>2. ~BeginInstallation
    BY <1>2, <2>1 DEF BeginInstallation, At
  <2>3. CASE Launch
    BY <1>2, <2>3 DEF Launch, At, Running
  <2>4. CASE ~Launch
    <3>1. stage' = stage
      BY <1>2, <2>2, <2>4 DEF Next, User, SelectDisk, Back, NextPage, Start, Reboot, CloseWindow,
           Killed, Exit, Another, vars, runVars
    <3>2. QED
      BY <1>2, <3>1 DEF At, Reached, Over, Running
  <2>5. QED
    BY <2>3, <2>4
<1>3. CommandsCanRun /\ At(s) => ENABLED <<Installing>>_vars
  BY DEF CommandsCanRun, At
<1>4. QED
  BY <1>1, <1>2, <1>3

LEMMA EveryStageEnds ==
    ASSUME NEW s \in DOMAIN After
    PROVE  CommandsFlow => StageEnds(s)
<1>1. /\ InstallerInv /\ At(s) /\ [Next]_vars => At(s)' \/ Reached(s)'
      /\ InstallerInv /\ At(s) /\ <<Installing>>_vars => Reached(s)'
      /\ CommandsCanRun /\ At(s) => ENABLED <<Installing>>_vars
  BY StageSteps
<1>2. QED
  BY <1>1, InstallerInvariant, PTL DEF CommandsFlow, Spec, Fairness, StageEnds

\* The timer fires: nothing but the end of the process takes it away.
LEMMA TimerFires == CommandsFlow => (timer ~> Over \/ At("erase"))
<1> DEFINE Begun == Over \/ At("erase")
<1>1. timer => Pending \/ Begun
  BY DEF Pending, Over
<1>2. InstallerInv /\ Pending /\ [Next]_vars => Pending' \/ Begun'
  <2> SUFFICES ASSUME InstallerInv, Pending, [Next]_vars PROVE Pending' \/ Begun'
    OBVIOUS
  <2>1. CASE BeginInstallation
    BY <2>1 DEF BeginInstallation, Pending, Over, At, Running
  <2>2. CASE ~BeginInstallation
    <3>1. ~Launch
      BY DEF Pending, Launch, Running
    <3>2. timer'
      BY <2>2, <3>1 DEF Pending, Next, User, SelectDisk, Back, NextPage, Start, Reboot, CloseWindow,
         Killed, Exit, Installing, Erase, Format, Mount, CopyRootfs, GenerateFstab, CreateAccount,
         SetHostname, EnableAutologin, BindVirtual, InstallGrub, UnbindVirtual, Unmount, GoOn,
         Another, vars, uiVars
    <3>3. QED
      BY <3>2 DEF Pending, Over
  <2>3. QED
    BY <2>1, <2>2
<1>3. Pending /\ <<BeginInstallation>>_vars => Begun'
  BY DEF BeginInstallation, Over, At, Running
<1>4. InstallerInv /\ CommandsCanRun => (Pending => ENABLED <<BeginInstallation>>_vars)
  BY DEF CommandsCanRun, Pending, InstallerInv, OneInstallation
<1> HIDE DEF Begun
<1>5. CommandsFlow => (timer ~> Begun)
  BY <1>1, <1>2, <1>3, <1>4, InstallerInvariant, PTL DEF CommandsFlow, Spec, Fairness
<1>6. QED
  BY <1>5 DEF Begun

LEMMA StagesInOrder ==
    /\ Reached("erase") => Over \/ At("format")
    /\ Reached("format") => Over \/ At("mount")
    /\ Reached("mount") => Over \/ At("copy")
    /\ Reached("copy") => Over \/ At("fstab")
    /\ Reached("fstab") => Over \/ At("account")
    /\ Reached("account") => Over \/ At("hostname")
    /\ Reached("hostname") => Over \/ At("autologin")
    /\ Reached("autologin") => Over \/ At("bind")
    /\ Reached("bind") => Over \/ At("grub")
    /\ Reached("grub") => Over \/ At("unbind")
    /\ Reached("unbind") => Over \/ At("umount")
    /\ Reached("umount") => Over
BY NextStage DEF Reached, At, Over

\* InstallationEnds: once the start button was clicked the installation finishes or its
\* process ends, as long as the event loop turns and the commands end, whatever has failed
\* and whatever other installers do; the premise says what ENABLED amounts to.
THEOREM InstallationsEnd == Spec /\ []CommandsCanRun => InstallationEnds
<1>1. CommandsFlow => /\ StageEnds("erase") /\ StageEnds("format") /\ StageEnds("mount")
                      /\ StageEnds("copy") /\ StageEnds("fstab") /\ StageEnds("account")
                      /\ StageEnds("hostname") /\ StageEnds("autologin") /\ StageEnds("bind")
                      /\ StageEnds("grub") /\ StageEnds("unbind") /\ StageEnds("umount")
  BY EveryStageEnds, NextStage
<1>2. CommandsFlow => (At("grub") ~> Over)
  BY <1>1, StagesInOrder, PTL DEF StageEnds
<1>3. CommandsFlow => (At("hostname") ~> Over)
  BY <1>1, <1>2, StagesInOrder, PTL DEF StageEnds
<1>4. CommandsFlow => (At("copy") ~> Over)
  BY <1>1, <1>3, StagesInOrder, PTL DEF StageEnds
<1>5. CommandsFlow => (At("erase") ~> Over)
  BY <1>1, <1>4, StagesInOrder, PTL DEF StageEnds
<1>6. CommandsFlow => (timer ~> Over)
  BY <1>5, TimerFires, PTL
<1>7. QED
  BY <1>6 DEF InstallationEnds, Over, CommandsFlow

=============================================================================
