---------------------------- MODULE MCNotesQueue ----------------------------
(* Instance of NotesQueue for TLC; the constants are set in the .cfg files. *)
EXTENDS NotesQueue
=============================================================================
