------------------------- MODULE DownloadManagerMC -------------------------
(***************************************************************************)
(* Values for checking DownloadManager.                                    *)
(***************************************************************************)
EXTENDS DownloadManager, TLC

OddFiles == {"incomplete", "not an object"}
=============================================================================
