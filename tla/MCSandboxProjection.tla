------------------------ MODULE MCSandboxProjection ------------------------
(* Instances of SandboxProjection for TLC.                                            *)
EXTENDS SandboxProjection

ReportSymmetry == Permutations(Reports)
=============================================================================
