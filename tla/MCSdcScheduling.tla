-------------------------- MODULE MCSdcScheduling --------------------------
(* Instances of SdcScheduling for TLC: four operations of any kind and the branches that end *)
(* the blocks of straight code, of an if-then, of an if-then-else and of nested ifs; and     *)
(* functions with two loops of three operations.                                             *)
EXTENDS SdcScheduling

MCUnits == {"alu", "bus"}

Op(unit, cycles, ii, time, flags) ==
    [unit |-> unit, cycles |-> cycles, ii |-> ii, time |-> time, flags |-> flags]
Add == Op(NoUnit, 1, 0, 1, {})
Mul == Op("alu", 2, 1, 1, {})
Fma == Op("alu", 3, 1, 1, {})
Div == Op("alu", 2, 0, 3, {})
Write == Op(NoUnit, 1, 0, 1, {"rw", "pinned", "fixed"})
Load == Op("bus", 2, 0, 3, {"load", "indirect", "pinned", "fixed"})
Store == Op("bus", 1, 0, 0, {"indirect", "store", "pinned", "fixed"})
Fetch == Op(NoUnit, 1, 0, 1, {"load", "distributed", "pinned"})
Nop == Op(NoUnit, 1, 0, 0, {"nop"})
Call == Op("alu", 1, 0, 1, {"unbounded", "pinned", "fixed"})
Branch == Op(NoUnit, 1, 0, 1, {"branch", "fixed"})

\* The four operations at the places free, branches elsewhere.
Body(n, free, ops) == [i \in 1 .. n |-> IF \E k \in 1 .. 4 : free[k] = i
                                        THEN ops[CHOOSE k \in 1 .. 4 : free[k] = i] ELSE Branch]

Deps(data, control, order) ==
    [e \in data \cup control \cup order |->
        IF e \in data THEN "data" ELSE IF e \in control THEN "control" ELSE "order"]

\* The operations with the switches against chaining, one at a time where they matter.
Switched(bodies) ==
    (bodies \X {{}})
    \cup ({ops \in bodies : \E k \in 1 .. 4 : ops[k] \in {Load, Store, Fetch}}
            \X {{"bus-no-chain"}, {"load-store-no-chain"}})

Loop(block, edges, dominator, deps, body, number, options) ==
    [n |-> Len(block), block |-> block, edges |-> edges, dominator |-> dominator, deps |-> deps, op |-> body,
     number |-> [u \in MCUnits |-> number], options |-> options]

Straight(bodies, numbers) ==
    {Loop(<<1, 1, 1, 1, 1>>, {}, <<0>>, deps, Body(5, <<1, 2, 3, 4>>, body[1]), number, body[2]) :
        deps \in {Deps({<<1, 2>>, <<2, 3>>, <<3, 4>>}, {}, {<<2, 5>>}),
                  Deps({<<1, 3>>}, {}, {<<2, 4>>, <<3, 5>>})},
        body \in Switched(bodies), number \in numbers}

IfThen(bodies, numbers) ==
    {Loop(<<1, 1, 2, 2, 3, 3>>, {<<1, 2>>, <<1, 3>>, <<2, 3>>}, <<0, 1, 1>>, deps,
          Body(6, <<1, 3, 4, 5>>, body[1]), number, body[2]) :
        deps \in {Deps({<<1, 2>>, <<1, 3>>, <<3, 4>>}, {<<2, 3>>, <<2, 4>>}, {<<4, 5>>}),
                  Deps({<<1, 4>>, <<1, 5>>, <<5, 6>>}, {<<2, 3>>, <<2, 4>>}, {})},
        body \in Switched(bodies), number \in numbers}

IfThenElse(bodies, numbers) ==
    {Loop(<<1, 1, 2, 3, 4, 4>>, {<<1, 2>>, <<1, 3>>, <<2, 4>>, <<3, 4>>}, <<0, 1, 1, 1>>, deps,
          Body(6, <<1, 3, 4, 5>>, body[1]), number, body[2]) :
        deps \in {Deps({<<1, 3>>, <<1, 4>>, <<1, 5>>}, {<<2, 3>>, <<2, 4>>}, {<<3, 5>>}),
                  Deps({<<5, 6>>}, {<<2, 3>>, <<2, 4>>}, {})},
        body \in Switched(bodies), number \in numbers}

Nested(bodies, numbers) ==
    {Loop(<<1, 1, 2, 2, 3, 4, 4>>, {<<1, 2>>, <<1, 4>>, <<2, 3>>, <<2, 4>>, <<3, 4>>}, <<0, 1, 2, 1>>, deps,
          Body(7, <<1, 3, 5, 6>>, body[1]), number, body[2]) :
        deps \in {Deps({<<1, 2>>, <<3, 4>>, <<3, 5>>, <<1, 3>>, <<6, 7>>},
                       {<<2, 3>>, <<2, 4>>, <<4, 5>>}, {}),
                  Deps({<<3, 5>>}, {<<2, 3>>, <<2, 4>>, <<4, 5>>}, {<<1, 6>>})},
        body \in Switched(bodies), number \in numbers}

AnyFour ==
    [1 .. 4 -> {Add, Mul, Div, Call}] \cup [1 .. 4 -> {Mul, Write, Load, Store}]
        \cup [1 .. 4 -> {Add, Fma, Fetch, Nop}]
Small == {Loop(<<1, 1, 1>>, {}, <<0>>, << >>, <<op, Add, Branch>>, 1, {}) : op \in {Add, Mul, Div}}

MCLoops(n) ==
    CASE n = 3 -> Small
      [] n = 5 -> Straight(AnyFour, {1, 2})
      [] n = 6 -> IfThen(AnyFour, {1, 2}) \cup IfThenElse(AnyFour, {1, 2})
      [] n = 7 -> Nested(AnyFour, {1})

\* The loops satisfy what the theorem about the code motion asks of them.
ASSUME RegularLoops == \A n \in Sizes : \A l \in Loops(n) : Regular(l)
=============================================================================
