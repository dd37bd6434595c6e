-------------------------- MODULE DocumentHistory --------------------------
(***************************************************************************)
(* What the document store promises: "Stores project documents as          *)
(* append-only versions."  A document is a sequence of contents that only  *)
(* grows, and whoever reads a version gets what was put there, or nothing. *)
(***************************************************************************)
EXTENDS Naturals, Sequences

CONSTANTS Docs, Contents

VARIABLES
  history,  \* the contents of each document, oldest version first
  served    \* <<document, version, content>>: what readers were given

Init == history = [d \in Docs |-> <<>>] /\ served = {}

Add(d, c) == history' = [history EXCEPT ![d] = Append(@, c)] /\ UNCHANGED served

Serve(d, v) == /\ v \in 1 .. Len(history[d])
               /\ served' = served \cup {<<d, v, history[d][v]>>}
               /\ UNCHANGED history

Next == \/ \E d \in Docs, c \in Contents : Add(d, c)
        \/ \E d \in Docs : \E v \in 1 .. Len(history[d]) : Serve(d, v)

Spec == Init /\ [][Next]_<<history, served>>
=============================================================================
