------------------------------- MODULE History -------------------------------
(***************************************************************************)
(* Undo and redo: two stacks of text edits, and when an edit merges into    *)
(* the transaction before it.  A text is a sequence of UTF-16 units; an     *)
(* edit replaces one range of it.                                          *)
(*                                                                         *)
(* Whether an edit comes within coalesceMs of the one before it is left     *)
(* open: the clock may be set, too.  Labels and origins are left out.       *)
(***************************************************************************)
EXTENDS Integers, Sequences, FiniteSets, SequencesExt

CONSTANTS Units,         \* UTF-16 code units
          High, Low,     \* the high and the low surrogates among them
          Keys,          \* coalesceKeys
          NoKey,         \* an edit without one
          HistoryLimit   \* how many transactions are kept

ASSUME LimitAssumption == HistoryLimit \in Nat
ASSUME UnitsAssumption == High \subseteq Units /\ Low \subseteq Units /\ High \cap Low = {}
ASSUME KeysAssumption == NoKey \notin Keys

Edits == [offset : Nat, removed : Seq(Units), inserted : Seq(Units)]
Transactions == [edit : Edits, key : Keys \cup {NoKey}]
Histories == [undo : Seq(Transactions), redo : Seq(Transactions), sealed : BOOLEAN]

-----------------------------------------------------------------------------
(* Edits. *)

Smaller(m, n) == IF m <= n THEN m ELSE n

(* How many units two texts have in common at the start, and at the end, at
   most limit: for how many n the first, or last, n are the same. *)
CommonPrefix(a, b, limit) == Cardinality({n \in 1..limit : \A i \in 1..n : a[i] = b[i]})
CommonSuffix(a, b, limit) ==
    Cardinality({n \in 1..limit : \A i \in 0..(n - 1) : a[Len(a) - i] = b[Len(b) - i]})

(* No surrogate without its other half *)
Whole(text) ==
    \A i \in DOMAIN text :
      /\ text[i] \in High => i < Len(text) /\ text[i + 1] \in Low
      /\ text[i] \in Low => i > 1 /\ text[i - 1] \in High

(* What lies between the first start and the last end units is replaced. *)
Replacement(before, after, start, end) ==
    [offset   |-> start,
     removed  |-> SubSeq(before, start + 1, Len(before) - end),
     inserted |-> SubSeq(after, start + 1, Len(after) - end)]

(* Mutant: the end may split a surrogate pair. *)
DiffTextSplitsPairs(before, after) ==
    LET shorter == Smaller(Len(before), Len(after))
        prefix  == CommonPrefix(before, after, shorter)
        start   == IF prefix > 0 /\ before[prefix] \in High THEN prefix - 1 ELSE prefix
    IN  Replacement(before, after, start, CommonSuffix(before, after, shorter - start))

(* diffText: the smallest such replacement that splits no surrogate pair *)
DiffText(before, after) ==
    LET shorter == Smaller(Len(before), Len(after))
        prefix  == CommonPrefix(before, after, shorter)
        start   == IF prefix > 0 /\ before[prefix] \in High THEN prefix - 1 ELSE prefix
        suffix  == CommonSuffix(before, after, shorter - start)
        end     == IF suffix > 0 /\ before[Len(before) - suffix + 1] \in Low
                   THEN suffix - 1 ELSE suffix
    IN  Replacement(before, after, start, end)

(* applyEdit throws unless the text has the removed units at the offset. *)
Applies(text, edit) ==
    /\ edit.offset + Len(edit.removed) <= Len(text)
    /\ SubSeq(text, edit.offset + 1, edit.offset + Len(edit.removed)) = edit.removed

ApplyEdit(text, edit) ==
    SubSeq(text, 1, edit.offset) \o edit.inserted
        \o SubSeq(text, edit.offset + Len(edit.removed) + 1, Len(text))

InvertEdit(edit) ==
    [offset |-> edit.offset, removed |-> edit.inserted, inserted |-> edit.removed]

-----------------------------------------------------------------------------
(* The stacks. *)

NoHistory == [undo |-> <<>>, redo |-> <<>>, sealed |-> FALSE]

Transaction(edit, key) == [edit |-> edit, key |-> key]

(* Whether an edit with this key, if in time, merges into the top transaction. *)
Coalesces(h, key) ==
    /\ ~h.sealed /\ h.undo # <<>>
    /\ key # NoKey /\ Last(h.undo).key = key

(* The merged edit goes from before the top transaction to after the new one;
   when these cancel out, the transaction is dropped. *)
Merge(h, before, after) ==
    LET top == Last(h.undo)
        original == ApplyEdit(before, InvertEdit(top.edit))
        rest == Front(h.undo)
    IN  [h EXCEPT !.undo = IF original = after THEN rest
                           ELSE Append(rest, Transaction(DiffText(original, after), top.key)),
                  !.redo = <<>>]

(* The oldest transactions beyond the limit are forgotten. *)
Cut(stack) ==
    IF Len(stack) <= HistoryLimit THEN stack
    ELSE SubSeq(stack, Len(stack) - HistoryLimit + 1, Len(stack))

Push(h, before, after, key) ==
    [undo |-> Cut(Append(h.undo, Transaction(DiffText(before, after), key))),
     redo |-> <<>>, sealed |-> FALSE]

(* record, of texts that differ: in time to merge, or not *)
Recorded(h, before, after, key) ==
    {Push(h, before, after, key)}
      \cup (IF Coalesces(h, key) THEN {Merge(h, before, after)} ELSE {})

(* seal *)
Sealed(h) == [h EXCEPT !.sealed = TRUE]

(* Mutant: an edit after an undo may merge. *)
UndoneUnsealed(h) ==
    [undo |-> Front(h.undo), redo |-> Append(h.redo, Last(h.undo)), sealed |-> h.sealed]

(* undo and redo, when there is something to undo or redo *)
Undone(h) ==
    [undo |-> Front(h.undo), redo |-> Append(h.redo, Last(h.undo)), sealed |-> TRUE]

Redone(h) ==
    [undo |-> Append(h.undo, Last(h.redo)), redo |-> Front(h.redo), sealed |-> TRUE]

-----------------------------------------------------------------------------
(* What the stacks mean: the texts that undo and redo would give. *)

(* The edit turns one text into the other, and its inverse turns it back. *)
Turns(edit, before, after) ==
    /\ Applies(before, edit) /\ ApplyEdit(before, edit) = after
    /\ Applies(after, InvertEdit(edit)) /\ ApplyEdit(after, InvertEdit(edit)) = before

(* The text above position i of a stack of texts; text is above them all. *)
Above(texts, i, text) == IF i = Len(texts) THEN text ELSE texts[i + 1]

(* The texts before the transactions of an undo stack, the oldest first, and
   after those of a redo stack, the next to redo last. *)
IsPast(texts, undo, text) ==
    /\ Len(texts) = Len(undo)
    /\ \A i \in DOMAIN undo : Turns(undo[i].edit, texts[i], Above(texts, i, text))

IsFuture(texts, redo, text) ==
    /\ Len(texts) = Len(redo)
    /\ \A i \in DOMAIN redo : Turns(redo[i].edit, Above(texts, i, text), texts[i])
=============================================================================
