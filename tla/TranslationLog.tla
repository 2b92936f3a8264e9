--------------------------- MODULE TranslationLog ---------------------------
(***************************************************************************)
(* What the translation table of the driver promises while a session       *)
(* lasts: a log of pairs of a GVA page and the bus page behind it, to      *)
(* which whole pairs are added one at a time, and which nothing else       *)
(* changes.  Whoever reads below the log's length reads what stays there.  *)
(***************************************************************************)
EXTENDS Naturals, Sequences

VARIABLE log

Entry == (Nat \ {0}) \X (Nat \ {0})

Init == log = <<>>

Record ==
  /\ Len(log') = Len(log) + 1
  /\ \A i \in 1..Len(log) : log'[i] = log[i]
  /\ log'[Len(log')] \in Entry

Spec == Init /\ [][Record]_log
=============================================================================
