-------------------------- MODULE MCCratePipeline --------------------------
(* CratePipeline on small sets of packages.                                *)
EXTENDS CratePipeline

\* Packages carry no meaning; the library is not one of them.
Symmetry == Permutations(Package)
=============================================================================
