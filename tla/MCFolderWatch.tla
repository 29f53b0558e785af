---------------------------- MODULE MCFolderWatch ----------------------------
(* TLC instance of FolderWatch. *)
EXTENDS FolderWatch
=============================================================================
