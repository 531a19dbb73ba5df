--------------------------- MODULE MCPartTimeline ---------------------------
(* Timelines of six to eight features: two sketches, two sweeps, then the  *)
(* operations of two menus, in every combination.                          *)
EXTENDS PartTimeline

sketch(regions) == [type |-> "sketch", uses |-> <<>>, regions |-> regions]
sketchOn(d, regions) == [type |-> "sketch", uses |-> <<d>>, regions |-> regions]
sweep(s, op, targets) == [type |-> "sweep", uses |-> <<>>, sketch |-> s, op |-> op, targets |-> targets]
boolean(op, targets, tools, keep) ==
  [type |-> "boolean", uses |-> <<>>, op |-> op, targets |-> targets, tools |-> tools, keepTools |-> keep]
hole(targets, positions) ==
  [type |-> "hole", uses |-> <<>>, targets |-> targets, ownsFace |-> targets # {}, positions |-> positions]
blend(targets) == [type |-> "blend", uses |-> <<>>, targets |-> targets]
tagged(targets, t) == [type |-> "blend", uses |-> <<t>>, targets |-> targets]
datum == [type |-> "datum", uses |-> <<>>]
tag(targets) == [type |-> "tag", uses |-> <<>>, targets |-> targets]
pattern(from, shifts) == [type |-> "pattern", uses |-> <<>>, seeds |-> from, shifts |-> shifts]
bodyPattern(of, op, targets, shifts) ==
  [type |-> "bodyPattern", uses |-> <<>>, of |-> of, op |-> op, targets |-> targets, shifts |-> shifts]

Base == << sketch(<<1 .. 5, 7 .. 8>>), sweep(1, "new_body", {}) >>
Middle ==
  { << sketch(<<3 .. 3>>), sweep(3, "cut", {2}) >>,
    << sketch(<<6 .. 6>>), sweep(3, "join", {}) >>,
    << sketch(<<3 .. 6>>), sweep(3, "new_body", {}) >>,
    << sketch(<<4 .. 7>>), sweep(3, "intersect", {}) >>,
    << datum, sketchOn(3, <<5 .. 6, 9 .. 9>>), sweep(4, "new_body", {}) >>,
    << tag({2}), hole({}, <<2 .. 2, 8 .. 8>>) >> }
Last2 ==
  { << pattern(<<4, 2>>, <<1, 3>>) >>, << pattern(<<4>>, <<1, -2>>), blend({2}) >>,
    << pattern(<<2>>, <<2>>), boolean("join", {5}, {2}, FALSE) >>,
    << boolean("cut", {2}, {4}, FALSE), bodyPattern({2}, "join", {}, <<1, 4>>) >>,
    << boolean("intersect", {2}, {4}, TRUE), tagged({}, 3) >>,
    << bodyPattern({2}, "new_body", {}, <<9>>), boolean("join", {}, {6}, FALSE) >>,
    << boolean("join", {2}, {-4}, TRUE), blend({-2}) >>,
    << hole({-2}, <<1 .. 2>>), bodyPattern({-2}, "join", {2}, <<3>>) >>,
    << boolean("join", {-2}, {4}, FALSE), boolean("cut", {2}, {2}, FALSE) >>,
    << hole({2}, <<1 .. 1>>), pattern(<<2, 5>>, <<1>>) >>,
    << hole({4}, <<4 .. 5>>), pattern(<<5>>, <<1>>) >>,
    << pattern(<<4, 2>>, <<0>>), boolean("cut", {5}, {2}, FALSE) >> }
Valid(d) == \A i \in DOMAIN d : d[i].type = "pattern" => \A j \in Range(d[i].seeds) : d[j].type \in {"sweep", "hole"}
Documents == {d \in {Base \o m \o l : m \in Middle, l \in Last2} : Valid(d)}
=============================================================================
