--------------------------- MODULE MCParticipants ---------------------------
(***************************************************************************)
(* Participants for TLC: who registers and updates what.                    *)
(***************************************************************************)
EXTENDS Participants, TLC

CONSTANTS u1, u2, h1, h2

\* A form gives a uid that may be another user's, a file that is uploaded or ignored,
\* and a text beside it.
SomeForms   == {[uid |-> u1, file |-> TRUE, resume |-> TRUE, valid |-> TRUE],
                [uid |-> u2, file |-> TRUE, resume |-> FALSE, valid |-> FALSE]}
SomeUpdates == {{"time", "major"}, {"time", "allergies", "travel", "resume"}, {"major"}}
RowsBefore  == {<<u2, h2>>}
SomeLookups == {<<u2, h1>>, <<u2, h2>>}

Symmetry == Permutations(Requests)
=============================================================================
