---------------------------- MODULE MCLiveEvents ----------------------------
(***************************************************************************)
(* LiveEvents for TLC: small sets, given by the cfg files, and a variable  *)
(* that tells whether every step so far is one of a careful client and of  *)
(* a process and a database without failures.                              *)
(***************************************************************************)
EXTENDS LiveEvents, TLC

VARIABLE calm

\* Requests wait for all effects of the previous ones and name stored events, to
\* be deleted from the hackathon they are of, and nothing fails.
Careful == INSTANCE LiveEvents WITH Clients <- "settled", KnownOnly <- TRUE, Faults <- FALSE

CalmInit == Init /\ calm = TRUE
CalmNext == Next /\ calm' = (calm /\ Careful!Next)
CalmSpec == CalmInit /\ [][CalmNext]_<<vars, calm>>

\* Careful clients are given what the documentation says: each event has exactly
\* the URLs of the last request that posted some, and a deleted event has none.
\* (postEventHandler, updateEventHandler, deleteEventHandler together)
UrlsAsPostedIfCalm == calm => UrlsAsPosted

\* Requests, events, hackathons and URLs differ in nothing but their names.
Symmetry ==
  Permutations(Requests) \cup Permutations(Events) \cup Permutations(Hackathons)
    \cup Permutations(Links)

=============================================================================
