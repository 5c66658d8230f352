-------------------------- MODULE MCNoteWritesMoves --------------------------
(* Two notes moved by two requests: nothing is interchangeable here, for the
   run checks liveness. *)
EXTENDS NoteWrites
=============================================================================
