----------------------------- MODULE MCInstaller -----------------------------
(* Installer with two disks: the default, empty one and one that holds an earlier       *)
(* installation.                                                             *)
EXTENDS InstallerRefinement

CONSTANTS Sda, Sdb

MCDisks == {Sda, Sdb}
MCEarlier == {Sdb}

=============================================================================
