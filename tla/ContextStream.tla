---------------------------- MODULE ContextStream ----------------------------
(***************************************************************************)
(* What a rolling pass over a sequence promises, without blocks, layers or *)
(* caches: tokens enter a local window at one end, are handed to memory in *)
(* order at the other, and leave the window only once memory has them.  A  *)
(* forward pass runs only while no token is both local and in memory, and  *)
(* the last LocalContext tokens are always local.                          *)
(***************************************************************************)
EXTENDS Naturals

CONSTANTS LocalContext, BlockSize

VARIABLES
  seen,     \* tokens forwarded: 0 .. seen-1
  handed,   \* tokens every memory layer has: 0 .. handed-1
  dropped   \* tokens the window let go: 0 .. dropped-1

streamVars == <<seen, handed, dropped>>

Init == seen = 0 /\ handed = 0 /\ dropped = 0

\* A chunk of at most one block is forwarded.
Forward ==
  /\ dropped = handed
  /\ seen' \in (seen + 1)..(seen + BlockSize)
  /\ UNCHANGED <<handed, dropped>>

\* Tokens out of reach of the window are handed to memory, and the window may
\* let go of them at once.
Hand ==
  /\ handed' > handed
  /\ handed' + LocalContext <= seen
  /\ dropped' \in {dropped, handed'}
  /\ UNCHANGED seen

\* The window lets go of what memory has.
Drop ==
  /\ dropped' = handed
  /\ UNCHANGED <<seen, handed>>

Next == Forward \/ Hand \/ Drop

Spec == Init /\ [][Next]_streamVars
==============================================================================
