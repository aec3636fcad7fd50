------------------------------ MODULE Delivery ------------------------------
(***************************************************************************)
(* What the client's download store promises of each file, whatever the    *)
(* interleaving of calls and crashes: chunks once gained are never lost,   *)
(* the file is installed only when all of them are there, the download is  *)
(* recorded as completed only after that, and nothing is ever undone.      *)
(***************************************************************************)
EXTENDS Naturals

CONSTANTS InfoHash, TotalChunks

VARIABLES
    have,   \* the chunks held of each file
    phase   \* "absent", "fetching", "installed", then "recorded"

vars == <<have, phase>>

All(h) == 0 .. (TotalChunks[h] - 1)

Init ==
    /\ have = [h \in InfoHash |-> {}]
    /\ phase = [h \in InfoHash |-> "absent"]

Moves(h, from, to) == phase[h] = from /\ phase' = [phase EXCEPT ![h] = to]

Begin(h) == Moves(h, "absent", "fetching") /\ UNCHANGED have

Gain(h, c) ==
    /\ phase[h] = "fetching"
    /\ have' = [have EXCEPT ![h] = @ \cup {c}]
    /\ UNCHANGED phase

Install(h) ==
    /\ have[h] = All(h)
    /\ Moves(h, "fetching", "installed")
    /\ UNCHANGED have

Record(h) == Moves(h, "installed", "recorded") /\ UNCHANGED have

Next ==
    \E h \in InfoHash :
        Begin(h) \/ Install(h) \/ Record(h) \/ \E c \in All(h) : Gain(h, c)

Spec == Init /\ [][Next]_vars
=============================================================================
