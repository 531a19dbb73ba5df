---------------------------- MODULE MCReferences ----------------------------
(***************************************************************************)
(* Feature 1 is an extrusion with the curves a, b and c, feature 2 a later *)
(* one.  Side a lies at height 3 from 0 to 6, side b at height 0 below it. *)
(***************************************************************************)
EXTENDS References

a == <<1, 1>>
b == <<1, 2>>
c == <<1, 3>>
d == <<2, 1>>

OnTop(key, lo, hi) == [key |-> key, body |-> 1, carrier |-> <<"plane", 3>>, lo |-> lo, hi |-> hi]
Below(key, lo, hi) == [OnTop(key, lo, hi) EXCEPT !.carrier[2] = 0]
Arc(key, lo, hi) == [OnTop(key, lo, hi) EXCEPT !.carrier[1] = "cylinder"]
Elsewhere(f) == [f EXCEPT !.body = 2]

Part(faces) == [faces |-> faces, aliases |-> <<>>,
                status |-> <<"ok", "ok">>, curves |-> {a, b, c, d}]
Base == Below(b, 0, 6)

MCScopes == {
    Part({OnTop(a, 0, 6), Base}),                                    \* as drawn
    Part({OnTop(a, 0, 3), OnTop(c, 3, 6), Base}),                    \* curve split
    Part({OnTop(a, 0, 1), OnTop(a, 2, 3), OnTop(c, 3, 6), Base}),    \* and slotted
    Part({OnTop(a, 0, 2), OnTop(a, 4, 6), Base}),                    \* slotted
    Part({OnTop(a, 0, 2), OnTop(a, 4, 6), Below(b, 0, 2), Below(b, 4, 6)}),   \* right through
    Part({OnTop(a, 0, 4), OnTop(c, 4, 8), Base}),                    \* moved, then split
    Part({OnTop(c, 0, 6), Base}),                                    \* redrawn as c
    [Part({OnTop(c, 0, 6), Base}) EXCEPT !.curves = {b, c, d}],      \* and a erased
    Part({OnTop(b, 0, 6)}),                                          \* b in the place of a
    Part({OnTop(d, 0, 6), Base}),                                    \* another feature there
    Part({OnTop(c, 0, 6), Elsewhere(OnTop(d, 0, 6)), Base}),         \* both
    Part({OnTop(a, 0, 2), OnTop(d, 2, 4), OnTop(a, 4, 6), Base}),    \* another between
    Part({OnTop(a, 3, 6), OnTop(c, 0, 3), Base}),                    \* split, names swapped
    Part({OnTop(c, 0, 3), OnTop(b, 3, 6)}),
    Part({Arc(a, 0, 6), Base}),
    [Part({OnTop(a, 0, 6), Base}) EXCEPT !.aliases = [k \in {c} |-> a]],      \* c merged
    [Part({OnTop(a, 0, 2), OnTop(c, 3, 6), Base}) EXCEPT !.aliases = [k \in {c} |-> a]],   \* in part
    [Part({OnTop(d, 0, 6)}) EXCEPT !.status[1] = "suppressed"],
    [Part({OnTop(d, 0, 6)}) EXCEPT !.status[1] = "failed"]}

Right == <<1, 0>>

MCWritten == {
    Uncaptured(Side(a), One), Uncaptured(Side(a), Some),
    Uncaptured(Union(Side(a), Side(b)), 2),
    Uncaptured(Union(Side(a), Side(c)), Some), Uncaptured(Union(Side(a), Side(c)), 2),
    Uncaptured(Extreme(Union(Side(a), Side(c)), Right), One),
    Uncaptured(Extreme(Side(a), Right), One),
    Uncaptured(Created(1), Some)}
=============================================================================
