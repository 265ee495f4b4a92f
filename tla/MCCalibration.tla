---------------------------- MODULE MCCalibration ----------------------------
(* The token program on two samples, with thresholds that tell a variant with   *)
(* good groups from one with the larger gain over shuffled facts.               *)
EXTENDS Calibration, MCCalibrationCases

==============================================================================
