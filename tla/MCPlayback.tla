----------------------------- MODULE MCPlayback -----------------------------
(* A finite instance of Playback: up to three requests in flight, of two that  *)
(* ask for a ticket and two of the player.                                     *)
EXTENDS Playback

CONSTANTS q1, q2, b1, b2

TwoIssues == {q1, q2}
TwoBeats == {b1, b2}

\* Not all four at once.
Three == call[q2] = Idle \/ call[b2] = Idle

\* A behaviour ends where two requests for a ticket have crossed and nothing is claimed of the
\* plays any more.
Spec ==
  /\ PlaybackInit /\ [][~crossed /\ PlaybackNext /\ Three']_playbackVars
  /\ Fairness
=============================================================================
