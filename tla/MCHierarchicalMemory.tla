------------------------- MODULE MCHierarchicalMemory -------------------------
(* Three users of memorised keys: the bridge between a router and a memory of    *)
(* two blocks; one hierarchical memory alone, with six slots for three records   *)
(* of one group, so that a parent with a grandparent collapses; and the program  *)
(* that saves blocks of its answers.                                             *)
EXTENDS RouterBridge, AnswerBlocks, MCAnswerCases, TLC

CONSTANTS b1, b2, g1, g2

MCParts == b1 :> <<g1, g1>>

VARIABLES
  aloneRecords, aloneLeaves, aloneParents, aloneClock, aloneRecordCount, aloneSlotCount,
  alonePhase, aloneTodo, aloneReplaced, aloneLeftInPast

alone == <<aloneRecords, aloneLeaves, aloneParents, aloneClock, aloneRecordCount, aloneSlotCount,
           alonePhase, aloneTodo, aloneReplaced, aloneLeftInPast>>

Alone == INSTANCE HierarchicalMemory WITH
  Groups <- {g1}, Blocks <- {}, KeepPerCluster <- 0, SplitCooldown <- 0, MaxRecords <- 3, MaxSlots <- 6, MaxTime <- 1,
  records <- aloneRecords, leaves <- aloneLeaves, parents <- aloneParents, clock <- aloneClock,
  recordCount <- aloneRecordCount, slotCount <- aloneSlotCount, phase <- alonePhase,
  todo <- aloneTodo, replaced <- aloneReplaced, leftInPast <- aloneLeftInPast

ASSUME Alone!HierarchyAssumption

VARIABLE turn   \* the one that is worked on, the others stay as they were created

AnyInit ==
  /\ turn \in {"bridge", "alone", "answers"}
  /\ BridgeInit /\ Alone!Init /\ AnswerInit
  /\ turn # "answers" => setup = CHOOSE s \in [corpus : MCCorpora, test : {0}, positioned : {FALSE}] : TRUE

AnyNext ==
  /\ UNCHANGED turn
  /\ \/ turn = "bridge" /\ BridgeNext /\ UNCHANGED <<alone, blockVars>>
     \/ turn = "alone" /\ Alone!Next /\ UNCHANGED <<allVars, blockVars>>
     \/ turn = "answers" /\ AnswerNext /\ UNCHANGED <<allVars, alone>>

AnySpec == AnyInit /\ [][AnyNext]_<<turn, allVars, alone, blockVars>>

\* In the memory alone, whose parents have grandparents and whose reads of the past may
\* raise, every record is in reach and a leaf's statistics are those of its members, unless
\* such a read raised since the last refresh; a read as of t shows what was current at t,
\* and a read as of now hides what a stored record supersedes.
HistoryKept == turn = "alone" => Alone!RecordsInReach /\ Alone!HistoryIsKept

\* In the memory alone, no step of maintenance brings a record and the one that supersedes
\* it into one leaf.
VersionsApart == Alone!VersionsStayApart
==============================================================================
