----------------------------- MODULE MCManifest -----------------------------
(* Small instances of Manifest. *)
EXTENDS Manifest, TLC

CONSTANTS a, b

\* The first client scrubs with a newer rule set.
TwoBuilds == (a :> 2) @@ (b :> 1)

\* The second client does not scrub: what it lists is quarantined.
OldBuild == (a :> 1) @@ (b :> 0)
=============================================================================
