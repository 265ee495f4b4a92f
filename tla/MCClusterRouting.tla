--------------------------- MODULE MCClusterRouting ---------------------------
(* A cluster memory with an eviction floor, or the dictionaries of a locality  *)
(* index, three slots and the four codes of two locality bits, probed with     *)
(* radius one, the code itself and then each code one bit away; or one of the  *)
(* programs that calibrate such memories.                                      *)
EXTENDS MCClusterSession, Calibration, MCCalibrationCases

VARIABLES codes, buckets

dictionaries == <<codes, buckets>>

MCProbesFour == [c \in 0..3 |-> <<<<0, 1, 2>>, <<1, 0, 3>>, <<2, 3, 0>>, <<3, 2, 1>>>>[c + 1]]

Buckets == INSTANCE LocalityBuckets WITH
  Codes <- 0..3, Probes <- MCProbesFour, CandidateCapacity <- 2, Slots <- 0..2

\* A calibration that has not begun, one of the configurations it may begin with.
NotCalibrating == CalibrationInit /\ setup = CHOOSE s \in MCSetups : TRUE

\* One of the three is worked on, the others stay as they were created.
EitherInit == Init /\ Buckets!Init /\ CalibrationInit

EitherNext ==
  \/ Buckets!Init /\ NotCalibrating /\ Next /\ UNCHANGED <<dictionaries, calibrationVars>>
  \/ Init /\ NotCalibrating /\ Buckets!Next /\ UNCHANGED <<vars, calibrationVars>>
  \/ Init /\ Buckets!Init /\ CalibrationNext /\ UNCHANGED <<vars, dictionaries>>

EitherSpec == EitherInit /\ [][EitherNext]_<<vars, dictionaries, calibrationVars>>

\* The dictionaries implement the index: what a lookup returns is what CpuLocality
\* calls the candidates, in the order of the probes and most recently updated first,
\* and updating a chunk's slots one after the other puts every one of them, also one
\* whose code did not change, behind the others of its bucket.
ImplementsLocality == []Buckets!LookupFindsCandidates /\ Buckets!ImplementsLocality
==============================================================================
