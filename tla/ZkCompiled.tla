------------------------------ MODULE ZkCompiled ------------------------------
(***************************************************************************)
(* A contract from its text to the proof of its run: what the contract     *)
(* means, the words the compiler makes of its text, the machine that runs  *)
(* them and the tables the run is proved with.                             *)
(***************************************************************************)
EXTENDS ZkCompiler
LOCAL INSTANCE SequencesExt
LOCAL INSTANCE FiniteSetsExt

CONSTANTS Contracts,                 \* a sequence of contracts
          Builds,                    \* Built(n) of every contract n
          Hexadecimal,               \* the literals their texts write in base 16
          C_MAINNET,                 \* whether the machine runs on the main net
          C_HALF, C_BITS, C_GAS, C_STACK, C_MEMORY,   \* the machine that runs them
          C_Context, C_MARKER, C_NULLIFIER, C_Poseidon(_, _, _)

VARIABLES contract,                  \* the number of the contract
          ccode, centry, cvm         \* its program and the machine
compiledVars == <<contract, ccode, centry, cvm>>

\* Definitions are evaluated once, a constant in every state.
Compiled == {b \in Builds : b.runs}
Garbled == {b \in Builds : b.garbled}

Text == INSTANCE ZkText
Machine == INSTANCE ZkAir WITH
    HALF <- C_HALF, BITS <- C_BITS, Wide <- C_HALF * C_HALF, P <- FIELD, GAS_LIMIT <- C_GAS, STACK_LIMIT <- C_STACK,
    Context <- C_Context, INFERENCE_MARKER <- C_MARKER, DOMAIN_NULLIFIER <- C_NULLIFIER, Poseidon <- C_Poseidon,
    ZkPrograms <- {b.code : b \in Compiled},
    Withheld <- {op \in ToSet(Isa!Opcodes) : Isa!Refuses(op, PROFILE, C_MAINNET)}, STACK_BASE <- 1000, STORAGE_BASE <- 2000,
    Images <- {[i \in 1 .. C_MEMORY |-> 0]}, Seeds <- {[r \in 0 .. HEAP_REG |-> 0]},
    code <- ccode, entry <- centry, vm <- cvm

(***************************************************************************)
(* What a contract means.  The state m of its execution: a frame of        *)
(* variables per scope, the storage, what has been logged and written, the *)
(* value just computed, the value returned, and why it stopped.  A struct  *)
(* is a function of its fields.                                            *)
(***************************************************************************)
OnGoing(m) == m.stopped = "none" /\ m.returned = <<>>
Halts(m, why) == IF m.stopped = "none" THEN [m EXCEPT !.stopped = why, !.value = 0] ELSE m
Is(m, v) == IF OnGoing(m) THEN [m EXCEPT !.value = v] ELSE m
Stored(m, slot) == IF slot \in DOMAIN m.store THEN m.store[slot] ELSE 0
SlotUnder(c, name, key) == Machine!Signed(Machine!Hash2(SlotNamed(c, name), key))
Write(m, slot, v) == [m EXCEPT !.store = Bind(@, slot, v), !.writes = Append(@, <<slot, v>>)]
FramesWith(m, n) == {i \in DOMAIN m.frames : n \in DOMAIN m.frames[i]}
Set(m, i, n, v) == [m EXCEPT !.frames[i] = Bind(@, n, v)]

RECURSIVE Eval(_, _, _)
RECURSIVE Exec(_, _, _)
\* From left to right.
RECURSIVE EvalAll(_, _, _)
EvalAll(c, m, es) ==
    IF es = <<>> THEN [m |-> m, values |-> <<>>]
    ELSE LET first == Eval(c, m, es[1])
             rest == EvalAll(c, first, Tail(es))
         IN [m |-> rest.m, values |-> <<first.value>> \o rest.values]
EvalCall(c, m, name, values) ==
    LET f == CHOOSE f \in ToSet(c.functions) : f.name = name
        frame == [n \in {x[1] : x \in ToSet(f.params)} |-> values[CHOOSE i \in DOMAIN f.params : f.params[i][1] = n]]
        ran == Exec(c, [m EXCEPT !.frames = <<frame>>], f.body)
    IN [ran EXCEPT !.frames = m.frames, !.returned = <<>>,
                   !.value = IF ran.returned = <<>> THEN 0 ELSE ran.returned[1]]
Eval(c, m, e) ==
    IF ~OnGoing(m) THEN m
    ELSE CASE e.k = "int"   -> Is(m, e.v)
           [] e.k = "ident" -> IF FramesWith(m, e.name) = {} THEN Halts(m, "unbound")
                               ELSE Is(m, m.frames[Max(FramesWith(m, e.name))][e.name])
           [] e.k = "sread" -> Is(m, Stored(m, SlotNamed(c, e.name)))
           [] e.k = "mread" -> LET at == Eval(c, m, e.key) IN Is(at, Stored(at, SlotUnder(c, e.name, at.value)))
           [] e.k = "field" -> LET at == Eval(c, m, e.base) IN IF OnGoing(at) THEN Is(at, at.value[e.name]) ELSE at
           [] e.k = "struct" ->
                LET all == EvalAll(c, m, [i \in DOMAIN e.fields |-> e.fields[i][2]])
                IN Is(all.m, [f \in {x[1] : x \in ToSet(e.fields)} |->
                                all.values[CHOOSE i \in DOMAIN e.fields : e.fields[i][1] = f]])
           [] e.k = "binary" ->
                LET both == EvalAll(c, m, <<e.l, e.r>>)
                IN IF OnGoing(both.m) THEN Is(both.m, Machine!OpValue(e.op, both.values[1], both.values[2], 0)) ELSE both.m
           [] e.k = "call" ->
                LET all == EvalAll(c, m, e.args)
                IN IF ~OnGoing(all.m) THEN all.m
                   ELSE CASE e.name = "poseidon"      -> Is(all.m, Machine!Hash2(all.values[1], all.values[2]))
                          [] e.name = "msg::sender"   -> Is(all.m, C_Context.sender)
                          [] e.name = "msg::nonce"    -> Is(all.m, C_Context.nonce)
                          [] e.name = "block::number" -> Is(all.m, C_Context.height)
                          [] OTHER                    -> EvalCall(c, all.m, e.name, all.values)

\* A loop is its body as often as its condition holds; match takes the first
\* arm with the value, or with none; loops with a counter and arms have a
\* frame of their own.
Framed(c, m, frame, body) ==
    LET ran == Exec(c, [m EXCEPT !.frames = Append(@, frame)], body)
    IN [ran EXCEPT !.frames = SubSeq(@, 1, Len(m.frames))]
RECURSIVE Counts(_, _, _, _, _, _)
Counts(c, m, n, i, end, body) ==
    IF i >= end \/ ~OnGoing(m) THEN m ELSE Counts(c, Framed(c, m, [x \in {n} |-> i], body), n, i + 1, end, body)
ExecMatch(c, m, v, arms) ==
    LET taken == {i \in DOMAIN arms : arms[i].pattern \in {-1, v}}
    IN IF taken = {} THEN m ELSE Framed(c, m, <<>>, arms[Min(taken)].body)
RECURSIVE ExecOne(_, _, _)
ExecOne(c, m, s) ==
    CASE s.k = "if" -> LET t == Eval(c, m, s.e) IN IF ~OnGoing(t) THEN t ELSE Exec(c, t, IF t.value # 0 THEN s.then ELSE s.else)
      [] s.k = "while" -> LET t == Eval(c, m, s.e)
                          IN IF OnGoing(t) /\ t.value # 0
                             THEN LET ran == Exec(c, t, s.body) IN IF OnGoing(ran) THEN ExecOne(c, ran, s) ELSE ran
                             ELSE t
      [] s.k = "for" -> LET both == EvalAll(c, m, <<s.from, s.to>>)
                        IN IF OnGoing(both.m) THEN Counts(c, both.m, s.name, both.values[1], both.values[2], s.body) ELSE both.m
      [] s.k = "emit" -> LET Logged(h, e) == LET v == Eval(c, h, e)
                                             IN IF OnGoing(v) THEN [v EXCEPT !.events = Append(@, v.value)] ELSE v
                         IN FoldLeft(Logged, m, s.args)
      [] s.k = "return" -> IF s.value = <<>> THEN [m EXCEPT !.returned = <<0>>]
                           ELSE LET v == Eval(c, m, s.value[1]) IN IF OnGoing(v) THEN [v EXCEPT !.returned = <<v.value>>] ELSE v
      [] s.k = "mwrite" -> LET both == EvalAll(c, m, <<s.key, s.e>>)
                           IN IF OnGoing(both.m) THEN Write(both.m, SlotUnder(c, s.name, both.values[1]), both.values[2]) ELSE both.m
      [] OTHER -> LET v == Eval(c, m, s.e)
                  IN IF ~OnGoing(v) THEN v
                     ELSE CASE s.k = "let" -> Set(v, Len(v.frames), s.name, v.value)
                            [] s.k = "assign" -> IF FramesWith(v, s.name) = {} THEN Halts(v, "unbound")
                                                 ELSE Set(v, Max(FramesWith(v, s.name)), s.name, v.value)
                            [] s.k = "swrite" -> Write(v, SlotNamed(c, s.name), v.value)
                            [] s.k = "constrain" -> IF v.value = 0 THEN Halts(v, "AssertionFailed") ELSE v
                            [] s.k = "match" -> ExecMatch(c, v, v.value, s.arms)
                            [] s.k = "expr" -> v
Exec(c, m, body) ==
    IF body = <<>> \/ ~OnGoing(m) THEN m ELSE Exec(c, ExecOne(c, m, body[1]), Tail(body))

Meaning(c) ==
    LET m == EvalCall(c, [frames |-> <<>>, store |-> <<>>, events |-> <<>>, writes |-> <<>>, value |-> 0,
                          returned |-> <<>>, stopped |-> "none"], "main", <<>>)
    IN [events |-> m.events, writes |-> m.writes, stopped |-> m.stopped]

(***************************************************************************)
(* Sources the compiler gives another meaning, see the README: a variable  *)
(* bound to another one is that one; a match on anything but a variable    *)
(* takes its first arm; a name bound in a branch is taken for the same     *)
(* name outside of it; and a struct inside a struct lies where it does.    *)
(***************************************************************************)
RECURSIVE Statements(_)
Statements(body) == ToSet(body) \union UNION {UNION {Statements(b) : b \in Text!Blocks(s)} : s \in ToSet(body)}
RECURSIVE Parts(_)
Parts(e) ==
    {e} \union CASE e.k = "mread" -> Parts(e.key) [] e.k = "field" -> Parts(e.base)
                 [] e.k = "binary" -> Parts(e.l) \union Parts(e.r)
                 [] e.k = "call" -> UNION {Parts(x) : x \in ToSet(e.args)}
                 [] e.k = "struct" -> UNION {Parts(x[2]) : x \in ToSet(e.fields)} [] OTHER -> {}
Exprs(s) == UNION {Parts(e) : e \in Text!Values(s)}
Names(stmts) ==
    UNION {{x.name : x \in {e \in Exprs(s) : e.k = "ident"}} : s \in stmts}
    \union {s.name : s \in {t \in stmts : t.k \in {"let", "assign"}}}

Aliases(stmts) ==
    LET assigned == {s.name : s \in {t \in stmts : t.k = "assign"}}
    IN \E s \in stmts : \/ s.k = "let" /\ s.e.k = "ident" /\ {s.name, s.e.name} \intersect assigned # {}
                        \/ s.k = "for" /\ s.to.k = "ident" /\ s.to.name \in assigned
MatchesExpression(stmts) == \E s \in stmts : s.k = "match" /\ s.e.k # "ident"
BindsAcross(stmts, body) ==
    \E s \in stmts : s.k \in {"if", "while", "match"} /\ \E b \in Text!Blocks(s) :
        LET bound == {t.name : t \in {u \in ToSet(b) : u.k = "let"}}
        IN bound \intersect Names(stmts \ Statements(b)) # {}
Allocates(c, e) == \E x \in Parts(e) : x.k = "struct" \/ (x.k = "call" /\ \E f \in ToSet(c.functions) : f.name = x.name)
NestsLiterals(c, stmts) ==
    \E s \in stmts : \E x \in Exprs(s) : x.k = "struct" /\ \E p \in ToSet(x.fields) : Allocates(c, p[2])
Misread(c) ==
    \E f \in ToSet(c.functions) :
        LET stmts == Statements(f.body)
        IN Aliases(stmts) \/ MatchesExpression(stmts) \/ BindsAcross(stmts, f.body) \/ NestsLiterals(c, stmts)

\* What the front cannot read: text that nests too deep, a loop whose last
\* operand is a name, which the block after it makes a struct literal, and a
\* literal no word holds.
Unreadable(c) ==
    LET stmts == UNION {Statements(f.body) : f \in ToSet(c.functions)}
    IN \/ Text!Nesting(c) > MAX_NESTING_DEPTH
       \/ \E s \in stmts : \/ s.k = "for" /\ Text!EndsInName(s.to)
                           \/ \E e \in Exprs(s) : e.k = "int" /\ e.v > WORD_MAX
Built(n) ==
    LET c == Contracts[n]
        read == Parser!Parse(Text!Written(c))
        made == Translated(read)
        runs == made.err = "none"
    IN [contract |-> n, runs |-> runs,
        garbled  |-> IF Unreadable(c) THEN read.err = "none" ELSE read # [err |-> "none", val |-> c],
        code     |-> [i \in DOMAIN made.code |-> Isa!DecodeAny(made.code[i])],
        misread  |-> runs /\ Misread(c),
        meant    |-> IF runs THEN Meaning(c) ELSE [events |-> <<>>, writes |-> <<>>, stopped |-> "refused"]]
ASSUME BuildsAssumption == Builds = {Built(n) : n \in DOMAIN Contracts}

(***************************************************************************)
(* A contract that compiles is run to its end.                             *)
(***************************************************************************)
CompiledInit ==
    /\ \E b \in Compiled : contract = b.contract /\ ccode = b.code
    /\ Machine!ZkInit
CompiledNext == Machine!ZkNext /\ UNCHANGED contract

(* A compiled contract does what its source says: the front reads every    *)
(* text as the contract it was written from, or refuses what it must, and  *)
(* the program logs and writes the same values in the same order, and      *)
(* fails an assertion where the source does and nowhere else; it never     *)
(* leaves its code, its stack or its heap.                                 *)
CompiledMeansSource ==
    cvm.halted =>
        LET build == CHOOSE b \in Compiled : b.contract = contract
        IN /\ Garbled = {}
           /\ ~build.misread /\ build.meant.stopped # "unbound" =>
                /\ cvm.error = build.meant.stopped
                /\ cvm.events = build.meant.events /\ cvm.state_writes = build.meant.writes

(* And its run can be proved, unless it compares a smaller value with a    *)
(* larger one for equality, uses a mapping, writes the storage twice with  *)
(* something else between the writes, or is so short that its tables do    *)
(* not reach as far as the code it runs (compiled_branching.rs).           *)
Unproved(step) ==
    \/ Machine!Wraps(step)
    \/ step.inst.op \in {"SRead", "SWrite"} /\ step.inst.imm < 0
    \/ step.pc >= Machine!NumRows(Len(cvm.trace)) - 1
CompiledRunsAreProved ==
    cvm.halted /\ cvm.error = "none" =>
        \/ \E i \in DOMAIN cvm.trace : Unproved(cvm.trace[i])
        \/ Machine!Detached(cvm.trace)
        \/ Machine!Provable
=============================================================================
