-------------------------- MODULE HackathonLifecycle --------------------------
(***************************************************************************)
(* What the hackathon endpoints promise, without processes, transactions   *)
(* or memory: at most one hackathon is current, activating one replaces    *)
(* it in one step, and users enrol in a hackathon that is or was current   *)
(* and stay enrolled.                                                      *)
(***************************************************************************)
CONSTANTS Hackathons, FirstHackathon, Users

VARIABLES
  current,   \* the current hackathon, as a set of at most one element
  opened,    \* hackathons that are or were current
  roster     \* who is enrolled where

Init ==
  /\ current = {FirstHackathon}
  /\ opened = {FirstHackathon}
  /\ roster = {}

Activate(h) ==
  /\ current' = {h}
  /\ opened' = opened \cup {h}
  /\ UNCHANGED roster

\* Activating a hackathon that does not exist ends the current one.
Close ==
  /\ current' = {}
  /\ UNCHANGED <<opened, roster>>

Enrol(u, h) ==
  /\ h \in opened
  /\ roster' = roster \cup {<<u, h>>}
  /\ UNCHANGED <<current, opened>>

Next ==
  \/ \E h \in Hackathons : Activate(h)
  \/ Close
  \/ \E u \in Users, h \in Hackathons : Enrol(u, h)

Spec == Init /\ [][Next]_<<current, opened, roster>>

=============================================================================
