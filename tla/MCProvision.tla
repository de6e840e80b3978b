----------------------------- MODULE MCProvision -----------------------------
(***************************************************************************)
(* Constants for model-checking Provision: sessions of one version.        *)
(***************************************************************************)
EXTENDS Provision, TLC

CONSTANT New

MCVersionOf == [s \in Session |-> New]

MCSessionSymmetry == Permutations(Session)
=============================================================================
