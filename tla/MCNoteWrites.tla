---------------------------- MODULE MCNoteWrites ----------------------------
(* The operations, the identities and the paths are interchangeable; the
   versions are not, for a fresh one is chosen among them. *)
EXTENDS NoteWrites, TLC

Interchangeable == Permutations(Ops) \cup Permutations(Ids) \cup Permutations(Paths)

(* Two instances in one: requests one at a time against devices, and requests against each
   other where the devices have written all they will; those replace, move and rename, for
   a patch is conditional like a replacement. *)
Silent == MaxDevice + 1
Admitted(o) == IF devices = Silent THEN req'[o].kind # "patch"
               ELSE \A u \in Ops : pc[u] = "idle"

MCInit == \E written \in {0, Silent} : Start(written)
MCNext == Device \/ Crash \/ \E o \in Ops : Step(o) \/ (Ask(o) /\ Admitted(o))
MCSpec == MCInit /\ [][MCNext]_vars
=============================================================================
