---------------------------- MODULE MCBlockMemory ----------------------------
(* A block memory, or the bank of a decoder layer: the stores whose records    *)
(* are whole blocks and those whose records are tokens.  One locality code, so *)
(* that every live cluster of the former is in reach of a lookup.              *)
EXTENDS BlockMemory, TokenMemory, TLC

MCProbesOne == (0 :> <<0>>)

\* One of the two is worked on, the other stays as it was created.
EitherInit == Init /\ BankInit

EitherNext ==
  \/ BankInit /\ Next /\ UNCHANGED bankVars
  \/ Init /\ BankNext /\ UNCHANGED vars

EitherSpec == EitherInit /\ [][EitherNext]_<<vars, bankVars>>
==============================================================================
