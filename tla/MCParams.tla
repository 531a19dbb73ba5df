------------------------------ MODULE MCParams ------------------------------
(* Every graph of three parameters of the document in every order of use, the *)
(* first with bounds; three parameters across scopes, where names hide, are   *)
(* used by two parts, or mean nothing; and graphs of four, six uses at most.  *)
EXTENDS Params

Pairs(n) == {<<x, y>> : x, y \in 1 .. n}
Rising(n) == {p \in Pairs(n) : p[1] < p[2]}
UpToOne(n) == {<<>>} \cup {<<x>> : x \in 1 .. n}

\* Names are numbers.  The first parameter may have bounds, the others a value.
Layout(parts, names, values, bounds) ==
  {[i \in DOMAIN parts |->
      [part |-> parts[i], name |-> names[i], value |-> v[i],
       min |-> IF i = 1 THEN b[1] ELSE <<>>, max |-> IF i = 1 THEN b[2] ELSE <<>>]] :
     v \in [DOMAIN parts -> values], b \in bounds}

NoBounds == {<< <<>>, <<>> >>}
MCDocuments ==
  Layout(<<0, 0, 0>>, <<1, 2, 3>>, UpToOne(3) \cup Pairs(3), NoBounds)
    \cup Layout(<<0, 0, 0>>, <<1, 2, 3>>, UpToOne(3), UpToOne(3) \X UpToOne(3))
    \cup Layout(<<0, 1, 1>>, <<1, 2, 3>>, UpToOne(3) \cup Rising(3), NoBounds)
    \cup Layout(<<0, 1, 2>>, <<1, 2, 2>>, UpToOne(3) \cup Pairs(2), NoBounds)
    \cup Layout(<<0, 0, 1>>, <<1, 2, 1>>, UpToOne(2) \cup Pairs(2), NoBounds)
    \cup {d \in Layout(<<0, 0, 0, 0>>, <<1, 2, 3, 4>>, UpToOne(4) \cup Rising(4), NoBounds) :
            Len(d[3].value \o d[4].value) \in 1 .. 2}
=============================================================================
