----------------------------- MODULE MCContracts -----------------------------
(* The contracts TLC compiles and runs: every shape of expression and of   *)
(* control flow the compiler lays out, filled with parts that use storage, *)
(* calls and large literals; and contracts the checks must refuse.         *)
EXTENDS Integers, Sequences

\* One for every choice of the three.
Each(A, B, D, Of(_, _, _)) ==
    [n \in 1 .. Len(A) * Len(B) * Len(D) |->
       Of(A[(n - 1) \div (Len(B) * Len(D)) + 1], B[(((n - 1) \div Len(D)) % Len(B)) + 1], D[((n - 1) % Len(D)) + 1])]

\* --- expressions and statements, as the parser leaves them -----------
Num(v) == [k |-> "int", v |-> v]
Var(n) == [k |-> "ident", name |-> n]
Bin(op, l, r) == [k |-> "binary", op |-> op, l |-> l, r |-> r]
SRead(n) == [k |-> "sread", name |-> n]
MRead(n, key) == [k |-> "mread", name |-> n, key |-> key]
Part(b, n) == [k |-> "field", base |-> b, name |-> n]
Literal(n, fields) == [k |-> "struct", name |-> n, fields |-> fields]
Apply(n, args) == [k |-> "call", name |-> n, args |-> args]

Let(n, e) == [k |-> "let", name |-> n, e |-> e]
Assign(n, e) == [k |-> "assign", name |-> n, e |-> e]
Constrain(e) == [k |-> "constrain", e |-> e]
Discard(e) == [k |-> "expr", e |-> e]
SWrite(n, e) == [k |-> "swrite", name |-> n, e |-> e]
MWrite(n, key, e) == [k |-> "mwrite", name |-> n, key |-> key, e |-> e]
If(e, then, else) == [k |-> "if", e |-> e, then |-> then, else |-> else]
While(e, body) == [k |-> "while", e |-> e, body |-> body]
For(n, from, to, body) == [k |-> "for", name |-> n, from |-> from, to |-> to, body |-> body]
Arm(pattern, body) == [pattern |-> pattern, body |-> body]
Match(e, arms) == [k |-> "match", e |-> e, arms |-> arms]
Return(value) == [k |-> "return", value |-> value]
Out(args) == [k |-> "emit", args |-> args]

U == <<"u64">>
Fn(n, formals, ret, body) == [name |-> n, params |-> formals, ret |-> ret, body |-> body]
WithFns(fns, body) ==
    [storage |-> <<<<"s", U>>, <<"t", U>>, <<"m", <<"Map", "u64", "u64">>>>>>,
     structs |-> <<[name |-> "Point", fields |-> <<<<"x", U>>, <<"y", U>>>>]>>,
     functions |-> Append(fns, Fn("main", <<>>, <<>>, body))]
Plain(body) == WithFns(<<>>, body)
Twice == Fn("twice", <<<<"a", U>>>>, <<U>>, <<Let("b", Bin("Add", Var("a"), Var("a"))), Return(<<Var("b")>>)>>)
Less == Fn("less", <<<<"a", U>>, <<"b", U>>>>, <<U>>,
           <<If(Bin("Lt", Var("a"), Var("b")), <<Return(<<Bin("Sub", Var("b"), Var("a"))>>)>>, <<>>),
             SWrite("t", Var("a")), Return(<<Bin("Mul", Var("a"), Num(9))>>)>>)
Helped(body) == WithFns(<<Twice, Less>>, body)

\* --- an operation on any two leaves, and sums of products of them ----
vx == Var("x")
vy == Var("y")
acc == Var("acc")
Operands == <<vx, Num(5), Num(200), SRead("s"), Apply("less", <<vx, Num(3)>>), MRead("m", vy)>>
Shown(e) == Helped(<<Let("x", Num(6)), SWrite("s", vx), Let("y", Num(2)), Out(<<e, vx, vy>>)>>)
Operations ==
    Each(<<"Sub", "Lt">>, Operands, Operands, LAMBDA op, l, r : Shown(Bin(op, l, r)))
    \o [i \in 1 .. 7 |-> Shown(Bin(<<"Mul", "Eq", "Neq", "Gt", "Lte", "Gte", "Div">>[i], vx, vy))]
Parts3 == <<vx, Apply("twice", <<vy>>), Num(40)>>
Nested ==
    Each(Parts3, Parts3, Parts3,
         LAMBDA a, b, d : Shown(Bin("Add", Bin("Mul", a, b), Bin("Sub", vx, Apply("poseidon", <<d, vy>>)))))
    \o Each(Parts3, Parts3, Parts3, LAMBDA a, b, d : Shown(Apply("less", <<a, Bin("Mul", b, Apply("less", <<d, b>>))>>)))

\* --- control flow around any two blocks -------------------------------
Grow(e) == <<Assign("acc", Bin("Add", acc, e))>>
Block == <<Grow(vx), Grow(Apply("twice", <<acc>>)), <<SWrite("s", acc), Out(<<vx>>)>>,
           <<Let("z", Bin("Add", vx, Num(30))), Assign("acc", Var("z"))>>,
           <<If(Bin("Gt", acc, Num(1)), <<Return(<<>>)>>, Grow(Num(2)))>>,
           <<Constrain(Bin("Lt", acc, Num(4)))>> >>
Run(v, body) == Helped(<<Let("x", Num(v)), Let("acc", Num(1))>> \o body \o <<Out(<<acc, vx>>)>>)
Branches ==
    Each(<<1, 2>>, Block, Block, LAMBDA v, b, d : Run(v, <<If(Bin("Gt", vx, Num(1)), b, d)>>))
Loops ==
    Each(<<0, 2>>, Block, <<1>>, LAMBDA v, b, n : Run(v, <<While(Bin("Lt", acc, Num(5)), b \o Grow(Num(n)))>>))
    \o Each(<<0, 2, 3>>, Block, <<1>>, LAMBDA from, b, n :
              Run(2, <<For("i", Num(from), Bin("Add", vx, Num(n)), b \o Grow(Var("i")))>>))
    \o Each(Block, <<0, 1>>, <<2>>, LAMBDA b, from, n :
              Run(1, <<For("i", Num(from), Num(n), <<For("j", Var("i"), Num(n), b), Assign("acc", Bin("Add", acc, vx))>>)>>))
Matches ==
    Each(<<1, 2, 3>>, <<1, 2, 3, 4, 5, 6>>, <<7>>, LAMBDA v, i, n :
         Run(v, <<Match(vx, <<Arm(1, Block[i]), Arm(2, Block[n - i]), Arm(-1, Grow(Num(n)))>>)>>))
    \o [v \in 1 .. 2 |-> Run(v, <<Match(Bin("Add", vx, Num(1)), <<Arm(2, Grow(Num(10)))>>)>>)]

\* --- structs, recursion, context, the ladder of gate_tier.zkl ---------
Point(a, b) == Literal("Point", <<<<"x", a>>, <<"y", b>>>>)
Swap == Fn("swap", <<<<"p", <<"Point">>>>, <<"d", U>>>>, <<<<"Point">>>>,
           <<Let("q", Literal("Point", <<<<"y", Part(Var("p"), "x")>>,
                                         <<"x", Bin("Add", Part(Var("p"), "y"), Var("d"))>>>>)),
             Return(<<Var("q")>>)>>)
Count == Fn("count", <<<<"n", U>>>>, <<U>>,
            <<If(Bin("Lt", Var("n"), Num(1)), <<Return(<<Num(0)>>)>>, <<>>),
              Let("half", Apply("count", <<Bin("Sub", Var("n"), Num(1))>>)),
              Return(<<Bin("Add", Var("n"), Var("half"))>>)>>)
Ladder(n) == WithFns(<<>>, <<Let("total", Apply(n, <<>>)), Let("tier", Num(0))>>
               \o [i \in 1 .. 3 |-> If(Bin("Gte", Var("total"), Num(<<3, 5, 50>>[i])), <<Assign("tier", Num(i))>>, <<>>)]
               \o <<Out(<<Var("tier")>>)>>)
Others ==
    <<WithFns(<<Swap>>, <<Let("p", Point(Num(3), Num(9))), Let("q", Apply("swap", <<Var("p"), Num(1)>>)),
                         Out(<<Part(Var("q"), "x"), Part(Var("q"), "y"), Part(Var("p"), "x")>>)>>),
     WithFns(<<Swap>>, <<Out(<<Part(Apply("swap", <<Point(Num(3), Num(9)), Num(2)>>), "y")>>)>>),
     WithFns(<<Count>>, <<Out(<<Apply("count", <<Num(3)>>)>>), Discard(Apply("count", <<Num(1)>>))>>),
     Plain(<<MWrite("m", Num(1), Num(5)), MWrite("m", Num(2), Num(6)), Out(<<MRead("m", Num(1)), MRead("m", Num(2))>>)>>),
     Plain(<<SWrite("s", Num(1)), SWrite("t", Num(2)), Out(<<SRead("t"), SRead("s")>>)>>),
     Ladder("msg::sender"), Ladder("msg::nonce"), Ladder("block::number")>>
\* Each wrong in one place, or compiled to something else (see Misread).
Faulty ==
    <<Plain(<<Out(<<Var("x")>>)>>), Plain(<<Let("p", Literal("Point", <<<<"x", Num(1)>>>>))>>),
     Plain(<<Let("p", Point(Num(1), Num(2))), Constrain(Var("p"))>>),
     Plain(<<Let("p", Point(Num(1), Num(2))), Out(<<Bin("Add", Var("p"), Var("p"))>>)>>),
     Plain(<<Out(<<Bin("Div", Num(4), Num(2))>>)>>), Plain(<<Out(<<Apply("poseidon", <<Num(1)>>)>>)>>),
     Plain(<<Return(<<Num(1)>>)>>), Plain(<<Assign("x", Num(1))>>), Plain(<<Out(<<Num(241)>>)>>),
     Plain(<<Out(<<Apply("verify_merkle_proof", <<Num(1), Num(2), Num(4)>>)>>)>>),
     WithFns(<<Fn("f", <<<<"a", <<"u32">>>>>>, <<>>, <<>>)>>, <<>>), Plain(<<Out(<<SRead("none")>>)>>),
     Plain([i \in 1 .. 14 |-> Let(<<"a", "b", "c", "d", "e", "f", "g", "h", "i", "j", "k", "l", "n", "o">>[i], Num(i))]),
     Plain(<<Let("x", Num(1)), Let("y", Var("x")), Assign("y", Num(2)), Out(<<Var("x")>>)>>),
     Plain(<<Let("x", Num(1)), If(Bin("Lt", Num(3), Var("x")), <<Let("x", Num(2))>>, <<>>), Out(<<Var("x")>>)>>)>>

\* As deep as the parser goes, one deeper twice, a loop up to a name, literals past a word.
Hash(e) == Apply("poseidon", <<Num(1), e>>)
Within(e) == Plain(<<If(Bin("Lt", Num(1), Num(2)), <<Out(<<e>>)>>, <<>>)>>)
Unread ==
    <<Within(Hash(Hash(Hash(Num(3))))), Within(Hash(Hash(Bin("Mul", Num(2), Bin("Add", Num(1), Hash(Num(3))))))),
      Within(Hash(Hash(Hash(Part(Point(Hash(Num(1)), Num(2)), "x"))))),
      Plain(<<Let("n", Num(2)), For("i", Num(0), Var("n"), <<Out(<<Var("i")>>)>>)>>),
      Plain(<<Out(<<Num(256)>>)>>), Plain(<<Out(<<Num(300)>>)>>),
      Plain(<<Out(<<Bin("Sub", Bin("Sub", Num(7), Num(2)), Bin("Sub", Num(3), Num(1)))>>)>>)>>

MCContracts == Operations \o Nested \o Branches \o Loops \o Matches \o Others \o Faulty \o Unread
=============================================================================
