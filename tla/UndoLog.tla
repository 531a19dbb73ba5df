------------------------------- MODULE UndoLog -------------------------------
(***************************************************************************)
(* What undo promises of a document: it keeps whole texts, the ones before  *)
(* each transaction and the ones that were undone.  An edit may go on with  *)
(* the last transaction only while that is open: undo, redo and the end of  *)
(* an editing session close it.                                            *)
(***************************************************************************)
EXTENDS Naturals, Sequences, SequencesExt

CONSTANTS Texts, Limit

VARIABLES past,     \* the texts to undo to, the last one first to come
          present,  \* the document
          future,   \* the texts to redo to, the last one first to come
          open      \* whether an edit may go on with the last transaction

vars == <<past, present, future, open>>

Init == past = <<>> /\ present \in Texts /\ future = <<>> /\ open = TRUE

(* Another document *)
Clear(t) == present' = t /\ open' = TRUE /\ past' = <<>> /\ future' = <<>>

(* The oldest texts beyond the limit are forgotten. *)
Newest(texts) ==
    IF Len(texts) <= Limit THEN texts ELSE SubSeq(texts, Len(texts) - Limit + 1, Len(texts))

Edit(t) ==
    /\ t # present
    /\ present' = t /\ open' = TRUE
    /\ past' = Newest(Append(past, present))
    /\ future' = <<>>

(* An edit back to the text before the transaction leaves nothing to undo. *)
Continue(t) ==
    /\ t # present /\ open /\ past # <<>>
    /\ present' = t /\ open' = TRUE
    /\ past' = IF t = Last(past) THEN Front(past) ELSE past
    /\ future' = <<>>

Undo ==
    /\ open' = FALSE /\ past # <<>>
    /\ present' = Last(past) /\ past' = Front(past)
    /\ future' = Append(future, present)

Redo ==
    /\ open' = FALSE /\ future # <<>>
    /\ present' = Last(future) /\ future' = Front(future)
    /\ past' = Append(past, present)

Close == open' = FALSE /\ UNCHANGED <<past, present, future>>

Next ==
    \/ \E t \in Texts : Edit(t) \/ Continue(t) \/ Clear(t)
    \/ Undo \/ Redo \/ Close

Spec == Init /\ [][Next]_vars
=============================================================================
