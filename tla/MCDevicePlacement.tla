-------------------------- MODULE MCDevicePlacement --------------------------
(***************************************************************************)
(* The instance of DevicePlacement for TLC.                                *)
(***************************************************************************)
EXTENDS DevicePlacement, TLC

\* A small device between two equal ones.
ThreeDevices == <<3, 2, 3>>

\* Valid ids are alike.
ModelSymmetry == Permutations(ValidModels)

=============================================================================
