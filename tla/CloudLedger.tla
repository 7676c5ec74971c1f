---------------------------- MODULE CloudLedger ----------------------------
(***************************************************************************)
(* What the node promises about the clouds it receives, without saying how *)
(* long it holds them or in which order it decides: every cloud is decided *)
(* at most once, a lost cloud is never decided, and until one of the two   *)
(* happens the node still has it.  Clouds are numbered as they arrive.     *)
(***************************************************************************)
EXTENDS Naturals, Sequences

VARIABLES arrived,   \* how many clouds were received
          held,      \* clouds waiting for a decision
          decided,   \* clouds decided, in the order of their decisions
          lost       \* clouds given up without a decision

vars == <<arrived, held, decided, lost>>

Init ==
    /\ arrived = 0
    /\ held = {}
    /\ decided = <<>>
    /\ lost = {}

\* A cloud arrives and is decided at once.
ArriveAndDecide ==
    /\ arrived' = arrived + 1
    /\ decided' = Append(decided, arrived + 1)
    /\ UNCHANGED <<held, lost>>

\* A cloud arrives and is kept; room may have to be made by giving some up.
ArriveAndHold ==
    /\ arrived' = arrived + 1
    /\ \E victims \in SUBSET held :
          /\ held' = (held \cup {arrived + 1}) \ victims
          /\ lost' = lost \cup victims
    /\ UNCHANGED decided

DecideHeld(c) ==
    /\ c \in held
    /\ held' = held \ {c}
    /\ decided' = Append(decided, c)
    /\ UNCHANGED <<arrived, lost>>

Next == ArriveAndDecide \/ ArriveAndHold \/ \E c \in held : DecideHeld(c)

Spec == Init /\ [][Next]_vars
-----------------------------------------------------------------------------
DecidedClouds == {decided[i] : i \in 1 .. Len(decided)}

TypeOK ==
    /\ arrived \in Nat
    /\ held \subseteq 1 .. arrived
    /\ decided \in Seq(Nat \ {0})
    /\ \A i \in 1 .. Len(decided) : decided[i] <= arrived
    /\ lost \subseteq 1 .. arrived

\* Every received cloud is held, decided or lost, exactly one of the three,
\* and no cloud is decided twice.
EveryCloudAccountedFor ==
    /\ 1 .. arrived = held \cup DecidedClouds \cup lost
    /\ held \cap DecidedClouds = {}
    /\ held \cap lost = {}
    /\ DecidedClouds \cap lost = {}
    /\ \A i, j \in 1 .. Len(decided) : decided[i] = decided[j] => i = j
=============================================================================
