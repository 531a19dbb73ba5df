------------------------------ MODULE RefQuery ------------------------------
(***************************************************************************)
(* The faces a reference of forge-refs chooses among, and its queries:     *)
(* scope.rs, query.rs, geom.rs and synth.rs.                               *)
(*                                                                         *)
(* A scope is the model before the feature that holds the reference: its   *)
(* faces, the keys that were merged into others, the status of each        *)
(* feature and the curves its sketches still have.  A key is a pair of     *)
(* feature and curve.  The face of a side is an interval of its carrier,   *)
(* <<type, height>>: faces touch where their intervals meet.  Pieces of a  *)
(* face that a cut split share its key; a curve split in the sketch gives  *)
(* the second piece a key of its own.                                      *)
(***************************************************************************)
EXTENDS Integers, Sequences, FiniteSets

FeatureOf(key) == key[1]
Type(f) == f.carrier[1]
Size(f) == f.hi - f.lo

\* Twice the centroid of a face, along the carrier and across it; what a probe
\* point is for this model.
Centroid(f) == <<f.lo + f.hi, 2 * f.carrier[2]>>

KeyBefore(j, k) == j[1] < k[1] \/ (j[1] = k[1] /\ j[2] < k[2])

\* Scope::canonical: by key, then by probe point; bodies that coincide, in their order.
Precedes(f, g) ==
    LET p == Centroid(f)
        q == Centroid(g)
    IN \/ KeyBefore(f.key, g.key)
       \/ f.key = g.key /\ p[1] < q[1]
       \/ f.key = g.key /\ p[1] = q[1] /\ p[2] < q[2]
       \/ f.key = g.key /\ p = q /\ f.body < g.body

\* The elements of S in the strict total order Less.
InOrder(S, Less(_, _)) ==
    [i \in 1..Cardinality(S) |->
        CHOOSE x \in S : Cardinality({y \in S : Less(y, x)}) = i - 1]

Canonical(S) == InOrder(S, Precedes)

SetOf(seq) == {seq[i] : i \in DOMAIN seq}

\* Scope::normalize_key: the key itself, unless its face was merged into another
\* (the chains of scope.aliases are closed).
NormalKey(sc, key) == IF key \in DOMAIN sc.aliases THEN sc.aliases[key] ELSE key

Carrying(sc, key) == {f \in sc.faces : f.key \in {key, NormalKey(sc, key)}}

Adjoining(sc, f) ==
    {g \in sc.faces \ {f} : /\ g.body = f.body
                            /\ g.carrier = f.carrier
                            /\ g.lo = f.hi \/ g.hi = f.lo}

\* Scope::neighbors: the adjacent faces on the same carrier, by number.
Neighbors(sc, f) == Cardinality(Adjoining(sc, f))

\* same_carrier_pieces: what adjoins on the carrier, directly or through others, is
\* in every set that has f and what adjoins its members.
Connected(sc, f) ==
    LET closed == {S \in SUBSET sc.faces : f \in S /\ \A g \in S : Adjoining(sc, g) \subseteq S}
    IN {p \in sc.faces : \A S \in closed : p \in S}

(***************************************************************************)
(* The comparison of a face with a captured one (geom.rs, compare).  Equal *)
(* centroids on one carrier score the ratio of the sizes, in percent; away *)
(* from the captured centroid, by half a unit or more, the score falls so  *)
(* fast that no size makes up for it, and below what is plausible; on      *)
(* another carrier it is nothing.                                          *)
(***************************************************************************)
MinPlausible == 35

SameSupport(m, f) == m.carrier = f.carrier
Contained(m, f) == m.lo <= f.lo /\ f.hi <= m.hi
Identical(m, f) == SameSupport(m, f) /\ m.lo = f.lo /\ m.hi = f.hi

Score(m, f) ==
    LET away == (m.lo + m.hi) - (f.lo + f.hi)
        least == IF Size(m) < Size(f) THEN Size(m) ELSE Size(f)
        most == IF Size(m) < Size(f) THEN Size(f) ELSE Size(m)
    IN IF SameSupport(m, f)
       THEN (100 * least) \div most - 100 * (IF away < 0 THEN -away ELSE away)
       ELSE -10000

Plausible(m, f) == Score(m, f) >= MinPlausible

(***************************************************************************)
(* Queries.  side names one face by its key, created every face of a       *)
(* feature; extreme keeps the farthest centroids along a direction.  A     *)
(* query tells how deep it is nested.                                      *)
(***************************************************************************)
Side(key) == [op |-> "side", key |-> key, nesting |-> 0]
Created(feature) == [op |-> "created", feature |-> feature, nesting |-> 0]
Over(a, b) == 1 + (IF a.nesting < b.nesting THEN b.nesting ELSE a.nesting)
Union(a, b) == [op |-> "union", a |-> a, b |-> b, nesting |-> Over(a, b)]
Minus(a, b) == [op |-> "minus", a |-> a, b |-> b, nesting |-> Over(a, b)]
Extreme(of, dir) == [op |-> "extreme", of |-> of, dir |-> dir, nesting |-> Over(of, of)]

Dirs == <<<<1, 0>>, <<-1, 0>>, <<0, 1>>, <<0, -1>>>>
Along(dir, f) == dir[1] * Centroid(f)[1] + dir[2] * Centroid(f)[2]
Farthest(S, dir) == {f \in S : \A g \in S : Along(dir, g) <= Along(dir, f)}

Operands(q) ==
    CASE q.op \in {"union", "minus"} -> {q.a, q.b}
      [] q.op = "extreme"            -> {q.of}
      [] OTHER                       -> {}

\* A query and the queries in it.
Parts(q) ==
    LET at[n \in 0 .. q.nesting] == IF n = 0 THEN {q} ELSE UNION {Operands(p) : p \in at[n - 1]}
    IN UNION {at[n] : n \in 0 .. q.nesting}

Sources(q) == {p \in Parts(q) : p.op \in {"side", "created"}}

SourceFeature(q) == IF q.op = "side" THEN FeatureOf(q.key) ELSE q.feature

\* The query chooses among the members of its sources.
Chooses(q) == \E p \in Parts(q) : p.op \in {"extreme", "minus"}

\* Eval::gate lets a source of a suppressed feature yield nothing.
Runs(sc, q) == sc.status[SourceFeature(q)] = "ok"

\* What a query selects, and which of it by name: hit are the faces of its key, a and b
\* what its operands select, far the farthest of what it is applied to.
Combined(sc, q, hit, a, b, of, far) ==
    [all   |-> {f \in sc.faces :
                    \/ f \in hit
                    \/ q.op = "created" /\ Runs(sc, q) /\ FeatureOf(f.key) = q.feature
                    \/ q.op = "union" /\ f \in a.all \cup b.all
                    \/ q.op = "minus" /\ f \in a.all \ b.all
                    \/ q.op = "extreme" /\ f \in far},
     named |-> {f \in sc.faces :
                    \/ f \in hit
                    \/ q.op = "union" /\ f \in a.named \cup b.named
                    \/ q.op = "minus" /\ f \in a.named \ b.all
                    \/ q.op = "extreme" /\ f \in of.named \cap far}]

EvalNode(sc, q, value) ==
    Combined(sc, q, IF q.op = "side" /\ Runs(sc, q) THEN Carrying(sc, q.key) ELSE {},
             value[q.a], value[q.b], value[q.of], Farthest(value[q.of].all, q.dir))

Eval(sc, q) ==
    LET value[p \in Parts(q)] == EvalNode(sc, p, value)
    IN EvalNode(sc, q, value)

Selected(sc, q) == Eval(sc, q).all

\* The static check of a query: it may name only curves the sketch has.
UnknownCurve(sc, q) ==
    \E s \in Sources(q) : s.op = "side" /\ s.key \notin sc.curves

BlockedSource(sc, q) ==
    \E s \in Sources(q) : sc.status[SourceFeature(s)] = "failed"

Evaluates(sc, q) == ~UnknownCurve(sc, q) /\ ~BlockedSource(sc, q)

Selects(sc, q, S) == Evaluates(sc, q) /\ Selected(sc, q) = S

(***************************************************************************)
(* Synthesis of a query that selects exactly one face e (synth.rs).        *)
(* NoQuery stands for None.                                                *)
(***************************************************************************)
NoQuery == [op |-> "none"]
MaxPeels == 5

\* How far e stands out from the rest of S along dir.
Margin(S, e, dir) ==
    LET rest == {Along(dir, e) - Along(dir, f) : f \in S \ {e}}
    IN CHOOSE x \in rest : \A y \in rest : x <= y

\* The first of those in `ways` with the largest measure.
FirstLargest(ways, Measure(_)) ==
    CHOOSE i \in ways : \A j \in ways :
        Measure(j) < Measure(i) \/ (Measure(j) = Measure(i) /\ i <= j)

OneAxis(S, e, base) ==
    LET apart == {i \in DOMAIN Dirs : Margin(S, e, Dirs[i]) > 0}
    IN IF apart = {} THEN NoQuery
       ELSE Extreme(base, Dirs[FirstLargest(apart, LAMBDA i : Margin(S, e, Dirs[i]))])

TwoAxes(S, e, base) ==
    LET Top(i) == Farthest(S, Dirs[i])
        n == Len(Dirs)
        First(k) == (k \div n) + 1
        Second(k) == (k % n) + 1
        apart == {k \in 0..(n * n - 1) :
                    /\ e \in Top(First(k))
                    /\ Top(First(k)) # {e}
                    /\ Margin(Top(First(k)), e, Dirs[Second(k)]) > 0}
        best == FirstLargest(apart, LAMBDA k : Margin(Top(First(k)), e, Dirs[Second(k)]))
    IN IF apart = {} THEN NoQuery
       ELSE Extreme(Extreme(base, Dirs[First(best)]), Dirs[Second(best)])

\* The first in order of the queries that there are.
FirstQuery(qs) ==
    LET good == {i \in DOMAIN qs : qs[i] # NoQuery}
    IN IF good = {} THEN NoQuery ELSE qs[CHOOSE i \in good : \A j \in good : i <= j]

\* Peel off the farthest, level by level, until e is the farthest.
PeelTo(sc, e, base, dir, levels) ==
    LET q[n \in 1 .. levels + 1] ==
            IF n = 1 THEN base ELSE Minus(q[n - 1], Extreme(q[n - 1], dir))
        Top(n) == Extreme(q[n], dir)
    IN FirstQuery([n \in 1 .. levels + 1 |->
                        IF Selects(sc, Top(n), {e}) THEN Top(n) ELSE NoQuery])

\* The faces of S farther than e.
Farther(S, e, dir) == {f \in S : Along(dir, f) > Along(dir, e)}

PeelAlong(sc, e, base, dir, above) ==
    PeelTo(sc, e, base, dir, IF above < MaxPeels THEN above ELSE MaxPeels)

Peeled(sc, S, e, base) ==
    LET clear == {i \in DOMAIN Dirs :
                    /\ \A f \in S \ {e} : Along(Dirs[i], f) # Along(Dirs[i], e)
                    /\ Farther(S, e, Dirs[i]) # {}}
        best == Dirs[FirstLargest(clear, LAMBDA i : -Cardinality(Farther(S, e, Dirs[i])))]
    IN IF clear = {} THEN NoQuery
       ELSE PeelAlong(sc, e, base, best, Cardinality(Farther(S, e, best)))

\* narrow: the base if it selects exactly e, or the first attempt that does.  S is what
\* the base selects.
FirstExact(sc, e, one, two, peeled) ==
    LET Exact(q) == q # NoQuery /\ Selects(sc, q, {e})
    IN IF Exact(one) THEN one ELSE IF Exact(two) THEN two ELSE peeled

NarrowFrom(sc, S, e, base) ==
    IF ~Evaluates(sc, base) \/ e \notin S THEN NoQuery
    ELSE IF S = {e} THEN base
    ELSE FirstExact(sc, e, OneAxis(S, e, base), TwoAxes(S, e, base), Peeled(sc, S, e, base))

Narrow(sc, e, base) == NarrowFrom(sc, Selected(sc, base), e, base)

FirstNarrow(sc, e, bases) == FirstQuery([i \in DOMAIN bases |-> Narrow(sc, e, bases[i])])

\* The face's own name if it says exactly it, else something narrowed: the query
\* it is a candidate for (`base`, at most one), the faces of its feature, its name.
Synthesize(sc, e, base) ==
    LET own == Side(e.key)
    IN IF Selects(sc, own, {e}) THEN own
       ELSE FirstNarrow(sc, e, base \o <<Created(FeatureOf(e.key)), own>>)
=============================================================================
