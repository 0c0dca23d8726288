--------------------------- MODULE MCFfmpegInstall ---------------------------
(***************************************************************************)
(* FfmpegInstall for TLC.  The calls of Install are interchangeable and    *)
(* only safety is checked, so permuting them is sound.                     *)
(***************************************************************************)
EXTENDS FfmpegInstall, TLC

Symmetry == Permutations(Installers)
=============================================================================
