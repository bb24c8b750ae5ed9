-------------------------------- MODULE ZkText --------------------------------
(***************************************************************************)
(* How a contract of ZkLang is written down, the other way around from the *)
(* parser: the lexemes of a text whose tree is c, with the parentheses it  *)
(* needs and no others, and how deep that text nests.                      *)
(***************************************************************************)
EXTENDS Integers, Sequences
LOCAL INSTANCE SequencesExt
LOCAL INSTANCE FiniteSetsExt

CONSTANTS Hexadecimal        \* the literals that are written in base 16

Word(w) == <<<<"word", w>>>>
Sign(s) == <<<<"sign", s>>>>
Ended(parts, sign) == FlattenSeq([i \in DOMAIN parts |-> parts[i] \o Sign(sign) \o <<<<"blank">>>>])
Joined(parts) == FlattenSeq([i \in DOMAIN parts |-> IF i = 1 THEN parts[i] ELSE Sign(",") \o parts[i]])
Inside(open, text, close) == Sign(open) \o text \o Sign(close)
Symbol(op) ==
    CASE op = "Eq" -> "==" [] op = "Neq" -> "!=" [] op = "Lt" -> "<" [] op = "Gt" -> ">" [] op = "Lte" -> "<="
      [] op = "Gte" -> ">=" [] op = "Add" -> "+" [] op = "Sub" -> "-" [] op = "Mul" -> "*" [] op = "Div" -> "/"

\* An operator takes all that binds tighter, and its like only on the left.
Binding(op) == CASE op \in {"Mul", "Div"} -> 3 [] op \in {"Add", "Sub"} -> 2 [] OTHER -> 1
InParens(e, at) == e.k = "binary" /\ Binding(e.op) < at
RECURSIVE Bare(_)
Expression(e, at) == IF InParens(e, at) THEN Inside("(", Bare(e), ")") ELSE Bare(e)
Whole(e) == Expression(e, 1)
Called(name) ==
    CASE name = "msg::sender"   -> Word("msg") \o Sign(":") \o Sign(":") \o Word("sender")
      [] name = "msg::nonce"    -> Word("msg") \o Sign(":") \o Sign(":") \o Word("nonce")
      [] name = "block::number" -> Word("block") \o Sign(":") \o Sign(":") \o Word("number")
      [] OTHER                  -> Word(name)
Bare(e) ==
    CASE e.k = "int"    -> <<IF e.v \in Hexadecimal THEN <<"hex", e.v>> ELSE <<"digits", e.v>>>>
      [] e.k = "ident"  -> Word(e.name)
      [] e.k = "sread"  -> Word("storage") \o Sign(":") \o Sign(":") \o Word(e.name)
      [] e.k = "mread"  -> Word(e.name) \o Inside("[", Whole(e.key), "]")
      [] e.k = "field"  -> Expression(e.base, 4) \o Sign(".") \o Word(e.name)
      [] e.k = "call"   -> Called(e.name) \o Inside("(", Joined([i \in DOMAIN e.args |-> Whole(e.args[i])]), ")")
      [] e.k = "struct" -> Word(e.name) \o Inside("{", Joined([i \in DOMAIN e.fields |->
                             Word(e.fields[i][1]) \o Sign(":") \o Whole(e.fields[i][2])]), "}")
      [] e.k = "binary" -> Expression(e.l, Binding(e.op)) \o Sign(Symbol(e.op)) \o Expression(e.r, Binding(e.op) + 1)

RECURSIVE Statement(_)
Braced(body) == Inside("{", FlattenSeq([i \in DOMAIN body |-> Statement(body[i])]), "}")
ArmText(a) ==
    (IF a.pattern = -1 THEN Word("_") ELSE <<<<"digits", a.pattern>>>>) \o Sign("=>")
    \o IF Len(a.body) = 1 THEN Statement(a.body[1]) ELSE Braced(a.body)
Statement(s) ==
    CASE s.k = "let"       -> Ended(<<Word("let") \o Word(s.name) \o Sign("=") \o Whole(s.e)>>, ";")
      [] s.k = "assign"    -> Ended(<<Word(s.name) \o Sign("=") \o Whole(s.e)>>, ";")
      [] s.k = "constrain" -> Ended(<<Word("constrain") \o Inside("(", Whole(s.e), ")")>>, ";")
      [] s.k = "expr"      -> Ended(<<Inside("(", Whole(s.e), ")")>>, ";")
      [] s.k = "swrite"    -> Ended(<<Word("storage") \o Sign(":") \o Sign(":") \o Word(s.name) \o Sign("=") \o Whole(s.e)>>, ";")
      [] s.k = "mwrite"    -> Ended(<<Word(s.name) \o Inside("[", Whole(s.key), "]") \o Sign("=") \o Whole(s.e)>>, ";")
      [] s.k = "return"    -> Ended(<<Word("return") \o FlattenSeq([i \in DOMAIN s.value |-> Whole(s.value[i])])>>, ";")
      [] s.k = "emit"      -> Ended(<<Word("emit") \o Word("Event")
                                      \o Inside("(", Joined([i \in DOMAIN s.args |-> Whole(s.args[i])]), ")")>>, ";")
      [] s.k = "if"        -> Word("if") \o Inside("(", Whole(s.e), ")") \o Braced(s.then)
                              \o IF s.else = <<>> THEN <<>> ELSE Word("else") \o Braced(s.else)
      [] s.k = "while"     -> Word("while") \o Inside("(", Whole(s.e), ")") \o Braced(s.body)
      [] s.k = "for"       -> Word("for") \o Word(s.name) \o Word("in") \o Whole(s.from) \o Sign("..") \o Whole(s.to) \o Braced(s.body)
      [] s.k = "match"     -> Ended(<<Word("match") \o Inside("(", Whole(s.e), ")")
                                      \o Inside("{", Joined([i \in DOMAIN s.arms |-> ArmText(s.arms[i])]), "}")>>, ";")

Names(fields) ==
    LET TypeText(t) == IF Len(t) = 1 THEN Word(t[1]) ELSE Word(t[1]) \o Inside("<", Joined(<<Word(t[2]), Word(t[3])>>), ">")
    IN [i \in DOMAIN fields |-> Word(fields[i][1]) \o Sign(":") \o TypeText(fields[i][2])]
Declaration(f) ==
    Word("pub") \o Word("fn") \o Word(f.name) \o Inside("(", Joined(Names(f.params)), ")")
    \o FlattenSeq([i \in DOMAIN f.ret |-> Sign("->") \o Word(f.ret[i][1])]) \o Braced(f.body)
Written(c) ==
    Word("contract") \o Word("Written") \o Inside("{",
        Word("storage") \o Inside("{", Ended(Names(c.storage), ","), "}")
        \o FlattenSeq([i \in DOMAIN c.structs |->
             Word("struct") \o Word(c.structs[i].name) \o Inside("{", Ended(Names(c.structs[i].fields), ","), "}")])
        \o FlattenSeq([i \in DOMAIN c.functions |-> Declaration(c.functions[i])]), "}")

(***************************************************************************)
(* Statements and expressions inside of one another.  Operators nest no    *)
(* deeper unless they need parentheses.                                    *)
(***************************************************************************)
Deepest(levels) == Max({0} \union levels)
RECURSIVE Nests(_)
Opened(e, at) == IF InParens(e, at) THEN 1 + Nests(e) ELSE Nests(e)
Nests(e) ==
    CASE e.k = "field"  -> Opened(e.base, 4)
      [] e.k = "mread"  -> 1 + Nests(e.key)
      [] e.k = "call"   -> Deepest({1 + Nests(x) : x \in ToSet(e.args)})
      [] e.k = "struct" -> Deepest({1 + Nests(x[2]) : x \in ToSet(e.fields)})
      [] e.k = "binary" -> Max({Opened(e.l, Binding(e.op)), Opened(e.r, Binding(e.op) + 1)})
      [] OTHER          -> 0
Blocks(s) == CASE s.k = "if" -> {s.then, s.else} [] s.k \in {"while", "for"} -> {s.body}
               [] s.k = "match" -> {a.body : a \in ToSet(s.arms)} [] OTHER -> {}
Values(s) == CASE s.k = "emit" -> ToSet(s.args) [] s.k = "return" -> ToSet(s.value) [] s.k = "for" -> {s.from, s.to}
               [] s.k = "mwrite" -> {s.key, s.e} [] OTHER -> {s.e}
RECURSIVE Levels(_)
Levels(s) ==
    1 + Deepest({1 + Nests(e) + (IF s.k = "expr" THEN 1 ELSE 0) : e \in Values(s)}
                \union {Deepest({Levels(t) : t \in ToSet(b)}) : b \in Blocks(s)})
Nesting(c) == Deepest({Deepest({Levels(s) : s \in ToSet(f.body)}) : f \in ToSet(c.functions)})
RECURSIVE EndsInName(_)
EndsInName(e) ==
    \/ e.k = "ident"
    \/ e.k = "binary" /\ ~InParens(e.r, Binding(e.op) + 1) /\ EndsInName(e.r)
=============================================================================
