------------------------------- MODULE ZkParser -------------------------------
(***************************************************************************)
(* The front of the compiler of ZkLang (gate2/zkvm/zk-compiler): lexer.rs, *)
(* parser.rs and the trees of ast.rs.  A text is the sequence of its       *)
(* lexemes: <<"word", w>>, <<"digits", v>>, <<"hex", v>>, <<"sign", s>> and *)
(* <<"blank">> for white space and comments.  The trees are                *)
(*   contract   [storage, structs, functions]                              *)
(*   field      <<name, type>>; a type is a tuple of its names, <<"u64">>, *)
(*              <<"Map", "u64", "bool">> or <<"Point">>                    *)
(*   function   [name, params, ret, body], ret a sequence of at most one   *)
(*   statement, expression: records with the kind k                        *)
(* A contract's and an event's name and `pub` are read by no later phase   *)
(* and left out of them.                                                   *)
(***************************************************************************)
EXTENDS Integers, Sequences
LOCAL INSTANCE SequencesExt

CONSTANTS MAX_NESTING_DEPTH,    \* 32 in the code
          WORD_MAX              \* u64::MAX

(***************************************************************************)
(* lexer.rs.                                                               *)
(***************************************************************************)
Keywords == {"contract", "fn", "let", "if", "else", "match", "storage", "witness", "constrain",
             "pub", "while", "for", "in", "return", "struct"}
Signs == {"{", "}", "(", ")", "[", "]", ":", ",", ";", "->", "=>", "..", ".",
          "+", "-", "*", "/", "==", "!=", "<", ">", "<=", ">=", "="}
Lexes(text) ==
    \A i \in DOMAIN text : CASE text[i][1] = "digits" -> text[i][2] <= WORD_MAX
                             [] text[i][1] = "sign"   -> text[i][2] \in Signs
                             [] OTHER                 -> TRUE
Token(lexeme) ==
    CASE lexeme[1] = "sign" -> <<lexeme[2]>>
      [] lexeme[1] = "word" -> IF lexeme[2] \in Keywords THEN <<lexeme[2]>> ELSE <<"Ident", lexeme[2]>>
      [] OTHER              -> lexeme
Tokens(text) == SelectSeq([i \in DOMAIN text |-> Token(text[i])], LAMBDA token : token # <<"blank">>)

(***************************************************************************)
(* The parser p: its tokens and position, how many productions are open,   *)
(* the error, and the values read by the production that is read.          *)
(***************************************************************************)
Going(p) == p.err = "none"
Peek(p) == IF p.pos <= Len(p.tokens) THEN p.tokens[p.pos] ELSE <<"Error">>
Refuse(p) == [p EXCEPT !.err = "ParserError"]
Consume(p) == [p EXCEPT !.pos = @ + 1]
Put(p, v) == [p EXCEPT !.vals = Append(@, v)]
Enter(p) == IF p.depth >= MAX_NESTING_DEPTH THEN Refuse(p) ELSE [p EXCEPT !.depth = @ + 1]
Leave(p) == [p EXCEPT !.depth = IF @ = 0 THEN 0 ELSE @ - 1]

(***************************************************************************)
(* A production is the sequence of the symbols it expects.  A sign or a    *)
(* keyword leaves nothing behind, every other symbol one value.            *)
(***************************************************************************)
S(sign) == <<"sign", sign>>
Comma == <<"comma">>                            \* one that may be left out
Name == <<"name">>
Value == <<"value">>                            \* an expression
List(open, kind, close) == <<S(open), <<"list", kind, close>>>>
Block == List("{", "stmt", "}")
IfNext(token, symbols) == <<"option", token, TRUE, symbols>>
UnlessNext(token, symbols) == <<"option", token, FALSE, symbols>>

RECURSIVE Reads(_, _)
RECURSIVE Element(_, _)
RECURSIVE Level(_, _)
\* What the symbols leave, made into one value of the production around them.
Closed(p, inner, v) == IF Going(inner) THEN [inner EXCEPT !.vals = Append(p.vals, v)] ELSE inner
Node(p, symbols, Build(_)) == LET inner == Reads([p EXCEPT !.vals = <<>>], symbols) IN Closed(p, inner, Build(inner.vals))
RECURSIVE Until(_, _, _)
Until(p, kind, close) ==
    IF ~Going(p) THEN p ELSE IF Peek(p) = <<close>> THEN Consume(p) ELSE Until(Element(p, kind), kind, close)
Read(p, symbol) ==
    CASE symbol[1] = "sign"   -> IF Peek(p) = <<symbol[2]>> THEN Consume(p) ELSE Refuse(p)
      [] symbol[1] = "comma"  -> IF Peek(p) = <<",">> THEN Consume(p) ELSE p
      [] symbol[1] = "name"   -> IF Peek(p)[1] = "Ident" THEN Put(Consume(p), Peek(p)[2]) ELSE Refuse(p)
      [] symbol[1] = "value"  -> Leave(Level(Enter(p), 1))
      [] symbol[1] = "list"   -> LET all == Until([p EXCEPT !.vals = <<>>], symbol[2], symbol[3]) IN Closed(p, all, all.vals)
      [] symbol[1] = "stmt"   -> LET one == Element([p EXCEPT !.vals = <<>>], "stmt") IN Closed(p, one, one.vals)
      [] symbol[1] = "option" -> IF (Peek(p) = <<symbol[2]>>) = symbol[3] THEN Node(p, symbol[4], LAMBDA v : v) ELSE Put(p, <<>>)
Reads(p, symbols) == IF symbols = <<>> \/ ~Going(p) THEN p ELSE Reads(Read(p, Head(symbols)), Tail(symbols))

(***************************************************************************)
(* Expressions.  A name may begin a call, a mapping or a struct; three     *)
(* levels of operators are each taken from the left to the right.          *)
(***************************************************************************)
Colons == <<S(":"), S(":")>>
Named(p, n) ==
    CASE n \in {"msg", "block"} ->
           Node(p, Colons \o <<Name, S("("), S(")")>>, LAMBDA v : [k |-> "call", name |-> n \o "::" \o v[1], args |-> <<>>])
      [] n = "verify_merkle_proof" ->
           Node(p, <<S("("), Value, S(","), Value, S(","), Value, S(")")>>, LAMBDA v : [k |-> "call", name |-> n, args |-> v])
      [] n = "poseidon" \/ (n \notin {"msg", "block", "verify_merkle_proof"} /\ Peek(p) = <<"(">>) ->
           Node(p, List("(", "arg", ")"), LAMBDA v : [k |-> "call", name |-> n, args |-> v[1]])
      [] OTHER ->
           CASE Peek(p) = <<"[">> -> Node(p, <<S("["), Value, S("]")>>, LAMBDA v : [k |-> "mread", name |-> n, key |-> v[1]])
             [] Peek(p) = <<"{">> -> Node(p, List("{", "literal", "}"), LAMBDA v : [k |-> "struct", name |-> n, fields |-> v[1]])
             [] OTHER -> Put(p, [k |-> "ident", name |-> n])
Primary(p) ==
    LET token == Peek(p)
    IN CASE token[1] = "digits"  -> Put(Consume(p), [k |-> "int", v |-> token[2]])
         [] token[1] = "hex"     -> IF token[2] <= WORD_MAX THEN Put(Consume(p), [k |-> "int", v |-> token[2]]) ELSE Refuse(p)
         [] token[1] = "("       -> Node(p, <<S("("), Value, S(")")>>, LAMBDA v : v[1])
         [] token[1] = "Ident"   -> Named(Consume(p), token[2])
         [] token[1] = "storage" -> Node(p, <<S("storage")>> \o Colons \o <<Name>>, LAMBDA v : [k |-> "sread", name |-> v[1]])
         [] OTHER                -> Refuse(p)

\* The last values read become one.
Top(p) == p.vals[Len(p.vals)]
Under(p) == p.vals[Len(p.vals) - 1]
Pop(p, n) == [p EXCEPT !.vals = SubSeq(@, 1, Len(@) - n)]
RECURSIVE Postfix(_)
Postfix(p) ==
    IF ~Going(p) \/ Peek(p) # <<".">> THEN p
    ELSE LET f == Reads(p, <<S("."), Name>>)
         IN IF Going(f) THEN Postfix(Put(Pop(f, 2), [k |-> "field", base |-> Under(f), name |-> Top(f)])) ELSE f
OperatorLevel(sign) ==
    CASE sign \in {"*", "/"} -> 3 [] sign \in {"+", "-"} -> 2
      [] sign \in {"==", "!=", "<", ">", "<=", ">="} -> 1 [] OTHER -> 0
Operator(sign) ==
    CASE sign = "==" -> "Eq" [] sign = "!=" -> "Neq" [] sign = "<" -> "Lt" [] sign = ">" -> "Gt" [] sign = "<=" -> "Lte"
      [] sign = ">=" -> "Gte" [] sign = "+" -> "Add" [] sign = "-" -> "Sub" [] sign = "*" -> "Mul" [] sign = "/" -> "Div"
Joined(p, sign) == IF Going(p) THEN Put(Pop(p, 2), [k |-> "binary", op |-> Operator(sign), l |-> Under(p), r |-> Top(p)]) ELSE p
RECURSIVE Rest(_, _)
Rest(p, n) ==
    LET sign == Peek(p)[1]
    IN IF Going(p) /\ OperatorLevel(sign) = n THEN Rest(Joined(Level(Consume(p), n + 1), sign), n) ELSE p
\* Mutant: an operator takes all that follows at its level for its right operand.
LevelRight(p, n) ==
    IF ~Going(p) THEN p
    ELSE IF n > 3 THEN Postfix(Primary(p))
    ELSE LET left == Level(p, n + 1)
             sign == Peek(left)[1]
         IN IF Going(left) /\ OperatorLevel(sign) = n THEN Joined(Level(Consume(left), n), sign) ELSE left
Level(p, n) == IF ~Going(p) THEN p ELSE IF n > 3 THEN Postfix(Primary(p)) ELSE Rest(Level(p, n + 1), n)

(***************************************************************************)
(* Statements: each is told by its first token.  One that begins with a    *)
(* name assigns to it or to one of its keys: it is never an expression.    *)
(***************************************************************************)
Guard == <<S("("), Value, S(")")>>
NameFirst(p, name) ==
    IF name = "emit"
    THEN Node(p, <<Name, Name>> \o List("(", "arg", ")") \o <<S(";")>>, LAMBDA v : [k |-> "emit", args |-> v[3]])
    ELSE IF Peek(Consume(p)) = <<"[">>
    THEN Node(p, <<Name, S("["), Value, S("]"), S("="), Value, S(";")>>,
              LAMBDA v : [k |-> "mwrite", name |-> v[1], key |-> v[2], e |-> v[3]])
    ELSE Node(p, <<Name, S("="), Value, S(";")>>, LAMBDA v : [k |-> "assign", name |-> v[1], e |-> v[2]])
Statement(p) ==
    LET first == Peek(p)
    IN CASE first = <<"let">> ->
              Node(p, <<S("let"), Name, S("="), Value, S(";")>>, LAMBDA v : [k |-> "let", name |-> v[1], e |-> v[2]])
         [] first = <<"constrain">> ->
              Node(p, <<S("constrain")>> \o Guard \o <<S(";")>>, LAMBDA v : [k |-> "constrain", e |-> v[1]])
         [] first = <<"storage">> ->
              Node(p, <<S("storage")>> \o Colons \o <<Name, S("="), Value, S(";")>>,
                   LAMBDA v : [k |-> "swrite", name |-> v[1], e |-> v[2]])
         [] first = <<"if">> ->
              Node(p, <<S("if")>> \o Guard \o Block \o <<IfNext("else", <<S("else")>> \o Block)>>,
                   LAMBDA v : [k |-> "if", e |-> v[1], then |-> v[2], else |-> FlattenSeq(v[3])])
         [] first = <<"while">> ->
              Node(p, <<S("while")>> \o Guard \o Block, LAMBDA v : [k |-> "while", e |-> v[1], body |-> v[2]])
         [] first = <<"for">> ->
              Node(p, <<S("for"), Name, S("in"), Value, S(".."), Value>> \o Block,
                   LAMBDA v : [k |-> "for", name |-> v[1], from |-> v[2], to |-> v[3], body |-> v[4]])
         [] first = <<"match">> ->
              Node(p, <<S("match")>> \o Guard \o List("{", "arm", "}") \o <<S(";")>>,
                   LAMBDA v : [k |-> "match", e |-> v[1], arms |-> v[2]])
         [] first = <<"return">> ->
              Node(p, <<S("return"), UnlessNext(";", <<Value>>), S(";")>>, LAMBDA v : [k |-> "return", value |-> v[1]])
         [] first[1] = "Ident" -> NameFirst(p, first[2])
         [] OTHER -> Node(p, <<Value, S(";")>>, LAMBDA v : [k |-> "expr", e |-> v[1]])

\* An arm is followed by a comma or the end; -1 is the pattern `_`.
MatchArm(p) ==
    LET token == Peek(p)
        body == IF Peek(Consume(Consume(p))) = <<"{">> THEN Block ELSE <<<<"stmt">>>>
    IN IF token = <<"Ident", "_">> THEN Node(Consume(p), <<S("=>")>> \o body, LAMBDA v : [pattern |-> -1, body |-> v[1]])
       ELSE IF token[1] = "digits" THEN Node(Consume(p), <<S("=>")>> \o body, LAMBDA v : [pattern |-> token[2], body |-> v[1]])
       ELSE Refuse(p)

(***************************************************************************)
(* What lists are made of, down from the contract: any number of storage   *)
(* blocks, structs and functions.  What follows its closing brace is not   *)
(* looked at.                                                              *)
(***************************************************************************)
Section(p) ==
    CASE Peek(p) = <<"storage">> ->
           Node(p, <<S("storage")>> \o List("{", "slot", "}"), LAMBDA v : [part |-> "storage", of |-> v[1]])
      [] Peek(p) = <<"struct">> ->
           Node(p, <<S("struct"), Name>> \o List("{", "field", "}"),
                LAMBDA v : [part |-> "struct", of |-> <<[name |-> v[1], fields |-> v[2]]>>])
      [] OTHER ->
           Node(p, <<IfNext("pub", <<S("pub")>>), S("fn"), Name>> \o List("(", "param", ")")
                     \o <<IfNext("->", <<S("->"), Name>>)>> \o Block,
                LAMBDA v : [part |-> "function", of |-> <<[name |-> v[2], params |-> v[3],
                                                           ret |-> [i \in DOMAIN v[4] |-> <<v[4][i]>>], body |-> v[5]]>>])
Element(p, kind) ==
    CASE kind = "stmt"    -> Leave(Statement(Enter(p)))
      [] kind = "arg"     -> Reads(p, <<Value, Comma>>)
      [] kind = "literal" -> Node(p, <<Name, S(":"), Value, Comma>>, LAMBDA v : v)
      [] kind = "param"   -> Node(p, <<Name, S(":"), Name, Comma>>, LAMBDA v : <<v[1], <<v[2]>>>>)
      [] kind = "field"   -> Node(p, <<Name, S(":"), Name, S(",")>>, LAMBDA v : <<v[1], <<v[2]>>>>)
      [] kind = "slot"    -> LET map == Peek(Consume(Consume(p))) = <<"Ident", "Map">>
                             IN Node(p, <<Name, S(":"), Name>> \o (IF map THEN <<S("<"), Name, S(","), Name, S(">")>> ELSE <<>>)
                                          \o <<S(",")>>, LAMBDA v : <<v[1], Tail(v)>>)
      [] kind = "arm"     -> IF Peek(p) = <<",">> THEN Consume(p)
                             ELSE LET arm == MatchArm(p) IN IF Peek(arm)[1] \in {",", "}"} THEN arm ELSE Refuse(arm)
      [] kind = "section" -> Section(p)

Contract(sections) ==
    LET Parts(part) == FlattenSeq([i \in DOMAIN sections |-> IF sections[i].part = part THEN sections[i].of ELSE <<>>])
    IN [storage |-> Parts("storage"), structs |-> Parts("struct"), functions |-> Parts("function")]
Parse(text) ==
    LET start == [tokens |-> Tokens(text), pos |-> 1, depth |-> 0, err |-> "none", vals |-> <<>>]
        all == Node(start, <<S("contract"), Name>> \o List("{", "section", "}"), LAMBDA v : Contract(v[2]))
    IN IF ~Lexes(text) THEN [err |-> "LexerError", val |-> ""]
       ELSE [err |-> all.err, val |-> IF Going(all) THEN all.vals[1] ELSE ""]
=============================================================================
