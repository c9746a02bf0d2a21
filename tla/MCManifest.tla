----------------------------- MODULE MCManifest -----------------------------
(* Small instances of Manifest for TLC. *)
EXTENDS Manifest, TLC

\* Appenders are interchangeable.
Symmetry == Permutations(Appenders)

=============================================================================
