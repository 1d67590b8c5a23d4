---------------------------- MODULE FileServerMC ----------------------------
(***************************************************************************)
(* Values for checking FileServer: the offsets a request may be read as,   *)
(* among them one before the file, its end and one beyond it.              *)
(***************************************************************************)
EXTENDS FileServer, TLC

MCOffsets == {-1, 0, 3, FileSize, FileSize + 1}
=============================================================================
