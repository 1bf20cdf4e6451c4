-------------------------- MODULE TimelineHistory --------------------------
(***************************************************************************)
(* What the undo machinery promises, without saying how.                   *)
(*                                                                         *)
(* A game leaves behind a line of recorded states, one per timepoint.      *)
(* Some of the recorded timepoints are saved, and the game may be taken    *)
(* back to a saved one: the present state becomes the state recorded       *)
(* there, and everything recorded later is gone, so that no branch that    *)
(* was undone can ever be returned to.  Saved timepoints may be forgotten  *)
(* (the stores are bounded) but they are never altered.                    *)
(***************************************************************************)
EXTENDS Naturals, Sequences

CONSTANT States

VARIABLES
  now,      \* the present state of the game
  line,     \* the states recorded so far on the present line of play
  saved     \* positions of the line the game can be taken back to

historyVars == <<now, line, saved>>

HistoryInit == /\ now \in States
               /\ line = <<>>
               /\ saved = {}

\* The game goes on; the latest timepoint may be saved, older saved ones forgotten.
Play == /\ now' \in States
        /\ saved' \in SUBSET (saved \cup (IF line = <<>> THEN {} ELSE {Len(line)}))
        /\ UNCHANGED line

\* A new timepoint is reached: the present state is recorded, and perhaps saved,
\* before the game goes on.
Record == /\ now' \in States
          /\ line' = Append(line, now)
          /\ saved' \in SUBSET (saved \cup {Len(line) + 1})

\* The game is taken back to a saved timepoint.
TakeBack(k) == /\ k \in saved
               /\ now' = line[k]
               /\ line' = SubSeq(line, 1, k)
               /\ saved' = {j \in saved : j <= k}

\* Going back went wrong half way: the game restarts its latest timepoint.
RestartTimepoint == /\ line # <<>>
                    /\ now' = line[Len(line)]
                    /\ UNCHANGED <<line, saved>>

HistoryNext == \/ Play
               \/ Record
               \/ \E k \in saved : TakeBack(k)
               \/ RestartTimepoint

HistorySpec == HistoryInit /\ [][HistoryNext]_historyVars
=============================================================================
