----------------------------- MODULE Protection -----------------------------
(***************************************************************************)
(* What the platform promises about a protected video, whatever asks for,  *)
(* checks, replaces or removes it: a video holds at most one packaged      *)
(* asset, and a proof of encryption is about the asset it is held for.     *)
(***************************************************************************)
EXTENDS Naturals

CONSTANT Assets      \* what the provider may have packaged

VARIABLES
  held,        \* the asset the video is delivered from, 0 for none
  proven,      \* a proof that the held asset is encrypted is on record
  encrypted    \* the assets whose manifest is encrypted

protectionVars == <<held, proven, encrypted>>

ProtectionInit == held \in Assets \cup {0} /\ ~proven /\ encrypted \subseteq Assets

\* The provider finishes packaging an asset.
Package(a) ==
  /\ encrypted' = encrypted \cup {a}
  /\ UNCHANGED <<held, proven>>

\* The video moves to another asset, or to none: no proof comes along.
Move(a) ==
  /\ a # held
  /\ held' = a /\ proven' = FALSE
  /\ UNCHANGED encrypted

\* A check of the held asset found it encrypted.
Prove ==
  /\ held \in encrypted
  /\ proven' = TRUE
  /\ UNCHANGED <<held, encrypted>>

\* A check of the held asset failed.
Refute ==
  /\ proven' = FALSE
  /\ UNCHANGED <<held, encrypted>>

ProtectionNext ==
  \/ \E a \in Assets : Package(a)
  \/ \E a \in Assets \cup {0} : Move(a)
  \/ Prove
  \/ Refute

ProtectionSpec == ProtectionInit /\ [][ProtectionNext]_protectionVars
=============================================================================
