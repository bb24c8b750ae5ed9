------------------------------ MODULE ZkCompiler ------------------------------
(***************************************************************************)
(* The compiler of ZkLang (gate2/zkvm/zk-compiler): its front (ZkParser),  *)
(* the semantic check of the contract read (sema.rs) and the code made for *)
(* it (codegen.rs), as words of the instruction set (ZkIsa).               *)
(***************************************************************************)
EXTENDS Integers, Sequences
LOCAL INSTANCE SequencesExt
LOCAL INSTANCE FiniteSetsExt

CONSTANTS HEAP_REG, HEAP_BASE,   \* the last register is the heap pointer; 31 and 4096 in the code
          WORD_BYTES,            \* 8 in the code
          FIELD,                 \* the modulus of the field
          IMM_MAX, LIMB,         \* the largest immediate literal, the digits of a larger one
          MAX_NESTING_DEPTH, WORD_MAX,     \* 32 and u64::MAX in the code
          OP_BITS, REG_BITS, IMM_BITS,     \* the fields of a word
          PROFILE                \* "Production", "Experimental" or "Testing"

Parser == INSTANCE ZkParser
Isa == INSTANCE ZkIsa

(***************************************************************************)
(* sema.rs.  The first error refuses the contract, so the type of what is  *)
(* wrong is Wrong, and nothing with a wrong part is accepted.              *)
(***************************************************************************)
Wrong == <<"?">>
Primitive == {<<"u64">>, <<"bool">>, <<"field">>, <<"Address">>, <<"Hash32">>}
Reserved == {<<"u32">>, <<"String">>}        \* two of the reserved names
StructNames(c) == {s.name : s \in ToSet(c.structs)}
FieldsOf(c, name) == (CHOOSE s \in ToSet(c.structs) : s.name = name).fields
FieldType(c, name, f) ==
    LET own == {x \in ToSet(FieldsOf(c, name)) : x[1] = f} IN IF own = {} THEN Wrong ELSE (CHOOSE x \in own : TRUE)[2]

RECURSIVE NamesType(_, _)
NamesType(c, t) ==
    /\ t \notin Reserved
    /\ \/ t \in Primitive
       \/ Len(t) = 1 /\ t[1] \in StructNames(c)
       \/ Len(t) = 3 /\ t[1] = "Map" /\ NamesType(c, <<t[2]>>) /\ NamesType(c, <<t[3]>>)
IsStruct(c, t) == Len(t) = 1 /\ t[1] \in StructNames(c)

Builtins ==
    {[name |-> "poseidon", params |-> <<<<"u64">>, <<"u64">>>>, ret |-> <<"u64">>],
     [name |-> "verify_merkle_proof", params |-> <<<<"u64">>, <<"u64">>, <<"u64">>>>, ret |-> <<"u64">>]}
    \union {[name |-> n, params |-> <<>>, ret |-> <<"u64">>] : n \in {"msg::sender", "msg::nonce", "block::number"}}
Declared(c) ==
    LET own == {[name |-> f.name, params |-> [i \in DOMAIN f.params |-> f.params[i][2]],
                 ret |-> IF f.ret = <<>> THEN <<"void">> ELSE f.ret[1]] : f \in ToSet(c.functions)}
    IN Builtins \union {f \in own : \A b \in Builtins : b.name # f.name}

\* The key and the value of a mapping, if the field is one.
MappingOf(c, name) ==
    LET maps == {x \in ToSet(c.storage) : x[1] = name /\ Len(x[2]) = 3}
    IN IF maps = {} THEN <<Wrong, Wrong>> ELSE LET t == (CHOOSE x \in maps : TRUE)[2] IN <<<<t[2]>>, <<t[3]>>>>

Arithmetic == {"Add", "Sub", "Mul", "Div"}
Ordering == {"Lt", "Gt", "Lte", "Gte"}
Operand(c, op, t) ==
    op \in Arithmetic \union Ordering =>
        /\ ~IsStruct(c, t) /\ t \notin {<<"void">>, <<"Address">>, <<"Hash32">>}
        /\ ~(op = "Div" /\ t = <<"u64">>)

RECURSIVE TypeOf(_, _, _)
BinaryType(c, env, e) ==
    LET l == TypeOf(c, env, e.l)
        r == TypeOf(c, env, e.r)
    IN IF l = Wrong \/ l # r \/ ~Operand(c, e.op, l) THEN Wrong
       ELSE IF e.op \in Arithmetic THEN l ELSE <<"bool">>
LiteralType(c, env, e) ==
    IF /\ e.name \in StructNames(c)
       /\ {x[1] : x \in ToSet(e.fields)} = {x[1] : x \in ToSet(FieldsOf(c, e.name))}
       /\ \A i, j \in DOMAIN e.fields : e.fields[i][1] = e.fields[j][1] => i = j
       /\ \A x \in ToSet(e.fields) : TypeOf(c, env, x[2]) = FieldType(c, e.name, x[1])
    THEN <<e.name>> ELSE Wrong
CallType(c, env, e) ==
    LET known == {f \in Declared(c) : f.name = e.name}
        f == CHOOSE f \in known : TRUE
    IN IF known # {} /\ f.params = [i \in DOMAIN e.args |-> TypeOf(c, env, e.args[i])] THEN f.ret ELSE Wrong
TypeOf(c, env, e) ==
    CASE e.k = "int"     -> <<"u64">>
      [] e.k = "ident"   -> IF e.name \in DOMAIN env THEN env[e.name] ELSE Wrong
      [] e.k = "sread"   -> <<"u64">>
      [] e.k = "mread"   -> LET map == MappingOf(c, e.name)
                            IN IF TypeOf(c, env, e.key) = map[1] THEN map[2] ELSE Wrong
      [] e.k = "field"   -> LET base == TypeOf(c, env, e.base)
                            IN IF IsStruct(c, base) THEN FieldType(c, base[1], e.name) ELSE Wrong
      [] e.k = "struct"  -> LiteralType(c, env, e)
      [] e.k = "call"    -> CallType(c, env, e)
      [] e.k = "binary"  -> BinaryType(c, env, e)

\* A condition is a scalar; a value to write may be anything that has a type.
Condition(c, env, e) == LET t == TypeOf(c, env, e) IN t \notin {Wrong, <<"void">>} /\ ~IsStruct(c, t)
Bind(env, n, v) == [m \in DOMAIN env \union {n} |-> IF m = n THEN v ELSE env[m]]
Rejected == [ok |-> FALSE, env |-> <<>>]

\* The branches of if and while share the environment, each in its turn; a
\* loop counter and the arms of a match live in a copy.
RECURSIVE Checks(_, _, _, _)
ChecksOne(c, ret, env, s) ==
    LET Needs(ok) == [ok |-> ok, env |-> env]
        Inside(body, inner) == Needs(Checks(c, ret, inner, body).ok)
    IN CASE s.k = "let" -> [ok |-> TypeOf(c, env, s.e) # Wrong, env |-> Bind(env, s.name, TypeOf(c, env, s.e))]
         [] s.k = "constrain" -> Needs(Condition(c, env, s.e))
         [] s.k = "assign" -> Needs(s.name \in DOMAIN env /\ TypeOf(c, env, s.e) = env[s.name])
         [] s.k \in {"swrite", "expr"} -> Needs(TypeOf(c, env, s.e) # Wrong)
         [] s.k = "mwrite" -> Needs(/\ MappingOf(c, s.name)[1] # Wrong
                                    /\ <<TypeOf(c, env, s.key), TypeOf(c, env, s.e)>> = MappingOf(c, s.name))
         [] s.k = "if" -> IF Condition(c, env, s.e) THEN Checks(c, ret, env, s.then \o s.else) ELSE Rejected
         [] s.k = "while" -> IF Condition(c, env, s.e) THEN Checks(c, ret, env, s.body) ELSE Rejected
         [] s.k = "for" -> IF Wrong \in {TypeOf(c, env, s.from), TypeOf(c, env, s.to)} THEN Rejected
                           ELSE Inside(s.body, Bind(env, s.name, <<"u64">>))
         [] s.k = "return" -> Needs(ret = IF s.value = <<>> THEN <<"void">> ELSE TypeOf(c, env, s.value[1]))
         [] s.k = "emit" -> Needs(\A e \in ToSet(s.args) : TypeOf(c, env, e) # Wrong)
         [] s.k = "match" -> Needs(/\ TypeOf(c, env, s.e) \in {<<"u64">>, <<"bool">>}
                                   /\ \A a \in ToSet(s.arms) : Checks(c, ret, env, a.body).ok)
Checks(c, ret, env, body) ==
    IF body = <<>> THEN [ok |-> TRUE, env |-> env]
    ELSE LET first == ChecksOne(c, ret, env, body[1])
         IN IF first.ok THEN Checks(c, ret, first.env, Tail(body)) ELSE first

Accepted(c) ==
    /\ \A x \in ToSet(c.storage) \union UNION {ToSet(s.fields) : s \in ToSet(c.structs)} : NamesType(c, x[2])
    /\ \A f \in ToSet(c.functions) :
         /\ \A x \in ToSet(f.params) : NamesType(c, x[2])
         /\ \A t \in ToSet(f.ret) : NamesType(c, t)
         /\ LET formals == [n \in {x[1] : x \in ToSet(f.params)} |-> (CHOOSE x \in ToSet(f.params) : x[1] = n)[2]]
            IN Checks(c, IF f.ret = <<>> THEN <<"void">> ELSE f.ret[1], formals, f.body).ok

(***************************************************************************)
(* codegen.rs.  The generator g: the code so far, the next free register,  *)
(* the register of the last result, the calls to patch, the variables in   *)
(* scope (register and struct type, "none" for a scalar), the first error. *)
(***************************************************************************)
Fail(g, error) == IF g.err = "none" THEN [g EXCEPT !.err = error] ELSE g
Emit(g, op, rd, rs1, rs2, imm) ==
    IF op \in Isa!Experimental /\ PROFILE = "Production" THEN Fail(g, "ExperimentalOpcodeDisabled")
    ELSE [g EXCEPT !.code = Append(@, [op |-> op, rd |-> rd, rs1 |-> rs1, rs2 |-> rs2, imm |-> imm])]
Alloc(g) ==
    IF g.next >= HEAP_REG THEN [Fail(g, "RegisterExhausted") EXCEPT !.reg = HEAP_REG - 1]
    ELSE [g EXCEPT !.reg = g.next, !.next = @ + 1]
EmitNew(g, op, rs1, rs2, imm) == LET a == Alloc(g) IN Emit(a, op, a.reg, rs1, rs2, imm)
Here(g) == Len(g.code)
Patch(g, at, to) == [g EXCEPT !.code[at + 1].imm = to - at]
Free(g, next) == [g EXCEPT !.next = next]
Hold(g, reg) == [g EXCEPT !.reg = reg]

\* Instructions emitted one after another, each pushing or popping a register.
PushRegs(g, regs) == FoldLeft(LAMBDA h, r : Emit(h, "Push", 0, r, 0, 0), g, regs)
PopRegs(g, regs) == FoldLeft(LAMBDA h, r : Emit(h, "Pop", r, 0, 0, 0), g, regs)

SlotsNamed(c, name) == {i \in DOMAIN c.storage : c.storage[i][1] = name}
SlotNamed(c, name) == Max(SlotsNamed(c, name)) - 1

RECURSIVE StructTypeOf(_, _, _)
StructTypeOf(c, scope, e) ==
    LET Struct(t) == IF IsStruct(c, t) THEN t[1] ELSE "none"
    IN CASE e.k = "struct" -> e.name
         [] e.k = "ident"  -> IF e.name \in DOMAIN scope THEN scope[e.name].struct ELSE "none"
         [] e.k = "field"  -> LET base == StructTypeOf(c, scope, e.base)
                              IN IF base = "none" THEN "none" ELSE Struct(FieldType(c, base, e.name))
         [] e.k = "call"   -> LET own == {f \in ToSet(c.functions) : f.name = e.name /\ f.ret # <<>>}
                              IN IF own = {} THEN "none" ELSE Struct((CHOOSE f \in own : TRUE).ret[1])
         [] OTHER          -> "none"
OffsetOf(c, name, f) == WORD_BYTES * (Min({i \in DOMAIN FieldsOf(c, name) : FieldsOf(c, name)[i][1] = f}) - 1)

\* A literal past the immediates is built from its digits, the leading zeros left out.
GenInt(g, v) ==
    IF v >= FIELD THEN Hold(Fail(g, "CodegenError"), 0)
    ELSE IF v <= IMM_MAX THEN EmitNew(g, "Load", 0, 0, v)
    ELSE LET reg == g.next
             Digit(h, d) ==   \* .reg is -1 until the first digit is loaded
                 IF h.reg = -1 THEN IF d = 0 THEN h ELSE Hold(Emit(h, "Load", reg, 0, 0, d), reg)
                 ELSE LET shifted == Emit(h, "Mul", reg, reg, reg + 1, 0)
                      IN IF d = 0 THEN shifted
                         ELSE Emit(Emit(shifted, "Load", reg + 2, 0, 0, d), "Add", reg, reg, reg + 2, 0)
             ready == Hold(Alloc(EmitNew(Alloc(g), "Load", 0, 0, LIMB)), -1)
         IN FoldLeft(Digit, ready, <<v \div (LIMB * LIMB), (v \div LIMB) % LIMB, v % LIMB>>)

RECURSIVE GenExpr(_, _, _)
\* The results of several expressions, each kept in its register.
RECURSIVE GenAll(_, _, _)
GenAll(c, g, es) ==
    IF es = <<>> THEN [g |-> g, regs |-> <<>>]
    ELSE LET first == GenExpr(c, g, es[1])
             rest == GenAll(c, first, Tail(es))
         IN [g |-> rest.g, regs |-> <<first.reg>> \o rest.regs]

GenMappingSlot(c, g, name, key) ==
    LET k == GenExpr(c, g, key)
        base == EmitNew(k, "Load", 0, 0, SlotNamed(c, name))
    IN EmitNew(base, "Poseidon", base.reg, k.reg, 0)

\* The operand that is a temporary, the left one first, takes the result.
GenOperation(c, g, op, l, r) ==
    LET x == GenExpr(c, g, l)
        y == GenExpr(c, x, r)
        res == IF x.reg >= g.next THEN Hold(y, x.reg) ELSE IF y.reg >= x.next THEN y ELSE Alloc(y)
    IN Free(Emit(res, op, res.reg, x.reg, y.reg, 0), IF res.reg + 1 > g.next THEN res.reg + 1 ELSE g.next)

\* Fields go where the declaration puts them; the pointer is taken before
\* they are computed, and the heap grows after.
GenStruct(c, g, e) ==
    LET ptr == EmitNew(g, "Add", HEAP_REG, 0, 0)
        vals == GenAll(c, ptr, [i \in DOMAIN e.fields |-> e.fields[i][2]])
        StoreField(h, i) == Emit(h, "Store", 0, ptr.reg, vals.regs[i], OffsetOf(c, e.name, e.fields[i][1]))
        stored == FoldLeft(StoreField, vals.g, [i \in DOMAIN e.fields |-> i])
        size == EmitNew(stored, "Load", 0, 0, WORD_BYTES * Len(FieldsOf(c, e.name)))
        grown == Emit(size, "Add", HEAP_REG, HEAP_REG, size.reg, 0)
    IN EmitNew(Free(grown, g.next), "Add", ptr.reg, 0, 0)
GenField(c, g, e) ==
    LET base == GenExpr(c, g, e.base)
        res == Alloc(base)
        struct == StructTypeOf(c, g.scope, e.base)
    IN IF struct = "none" THEN Fail(res, "CodegenError")
       ELSE Emit(res, "Load", res.reg, base.reg, 0, OffsetOf(c, struct, e.name))

\* Mutant: the caller keeps its registers where the callee writes.
GenCallUnsaved(c, g, e) ==
    LET args == GenAll(c, g, e.args)
        pushed == PushRegs(args.g, args.regs)
    IN EmitNew(Free([Emit(pushed, "Call", 0, 0, 0, 0) EXCEPT !.calls = Append(@, <<Here(pushed), e.name>>)],
                    g.next), "Pop", 0, 0, 0)

\* The registers in use go on the stack, then the arguments; the result is
\* taken off before they come back.
GenCall(c, g, e) ==
    LET used == [i \in 1 .. g.next - 1 |-> i]
        args == GenAll(c, PushRegs(g, used), e.args)
        pushed == PushRegs(args.g, args.regs)
        called == [Emit(pushed, "Call", 0, 0, 0, 0) EXCEPT !.calls = Append(@, <<Here(pushed), e.name>>)]
        res == EmitNew(Free(called, g.next), "Pop", 0, 0, 0)
    IN PopRegs(res, Reverse(used))
GenMerkle(c, g, e) ==
    LET root == GenExpr(c, g, e.args[1])
        leaf == GenExpr(c, root, e.args[2])
    IN IF e.args[3].k # "int" \/ e.args[3].v > IMM_MAX THEN Hold(Fail(leaf, "CodegenError"), 0)
       ELSE EmitNew(leaf, "VerifyMerkle", root.reg, leaf.reg, e.args[3].v)

GenExpr(c, g, e) ==
    CASE e.k = "int"    -> GenInt(g, e.v)
      [] e.k = "ident"  -> IF e.name \in DOMAIN g.scope THEN Hold(g, g.scope[e.name].reg)
                           ELSE Hold(Fail(g, "CodegenError"), 0)
      [] e.k = "sread"  -> IF SlotsNamed(c, e.name) = {} THEN Hold(Fail(g, "CodegenError"), 0)
                           ELSE EmitNew(g, "SRead", 0, 0, SlotNamed(c, e.name))
      [] e.k = "mread"  -> LET slot == GenMappingSlot(c, g, e.name, e.key)
                           IN EmitNew(slot, "SRead", 0, slot.reg, -1)
      [] e.k = "struct" -> GenStruct(c, g, e)
      [] e.k = "field"  -> GenField(c, g, e)
      [] e.k = "binary" -> GenOperation(c, g, e.op, e.l, e.r)
      [] e.k = "call" /\ e.name = "poseidon"            -> GenOperation(c, g, "Poseidon", e.args[1], e.args[2])
      [] e.k = "call" /\ e.name = "msg::sender"         -> EmitNew(g, "Syscall", 0, 0, 1)
      [] e.k = "call" /\ e.name = "msg::nonce"          -> EmitNew(g, "Syscall", 0, 0, 3)
      [] e.k = "call" /\ e.name = "block::number"       -> EmitNew(g, "Syscall", 0, 0, 2)
      [] e.k = "call" /\ e.name = "verify_merkle_proof" -> GenMerkle(c, g, e)
      [] OTHER          -> GenCall(c, g, e)

(***************************************************************************)
(* Statements.  Temporaries are given back at the end of most.             *)
(***************************************************************************)
RECURSIVE GenBody(_, _, _)

\* A new variable is the register its value is in.
GenLet(c, g, s) ==
    LET v == GenExpr(c, g, s.e)
    IN [Free(v, IF v.reg >= g.next THEN v.reg + 1 ELSE g.next)
        EXCEPT !.scope = Bind(@, s.name, [reg |-> v.reg, struct |-> StructTypeOf(c, g.scope, s.e)])]
GenAssign(c, g, s) ==
    LET v == GenExpr(c, g, s.e)
    IN IF s.name \notin DOMAIN g.scope THEN Fail(v, "CodegenError")
       ELSE Free(Emit(v, "Add", g.scope[s.name].reg, v.reg, 0, 0), g.next)
\* Mutant: the write names its register as the destination, too.
GenStorageNamed(c, g, s) ==
    LET v == GenExpr(c, g, s.e)
    IN IF SlotsNamed(c, s.name) = {} THEN Fail(v, "CodegenError")
       ELSE Free(Emit(v, "SWrite", v.reg, v.reg, 0, SlotNamed(c, s.name)), g.next)
GenStorageWrite(c, g, s) ==
    LET v == GenExpr(c, g, s.e)
    IN IF SlotsNamed(c, s.name) = {} THEN Fail(v, "CodegenError")
       ELSE Free(Emit(v, "SWrite", 0, v.reg, 0, SlotNamed(c, s.name)), g.next)
GenMappingWrite(c, g, s) ==
    LET k == GenExpr(c, g, s.key)
        v == GenExpr(c, k, s.e)
        base == EmitNew(v, "Load", 0, 0, SlotNamed(c, s.name))
        slot == EmitNew(base, "Poseidon", base.reg, k.reg, 0)
    IN Free(Emit(slot, "SWrite", 0, v.reg, slot.reg, -1), g.next)

\* The else branch lies before the then branch.
GenIf(c, g, s) ==
    LET cond == GenExpr(c, g, s.e)
        other == GenBody(c, Free(Emit(cond, "Jnz", 0, cond.reg, 0, 0), g.next), s.else)
        then == Emit(other, "Jmp", 0, 0, 0, 0)
        done == GenBody(c, then, s.then)
    IN Patch(Patch(done, Here(cond), Here(then)), Here(other), Here(done))
\* A test, the jump into the body, the jump past it; the body ends with a jump
\* back, after it has moved the counter, if there is one.
Looped(c, cond, start, next, body, count) ==
    LET leave == Free(Emit(cond, "Jnz", 0, cond.reg, 0, 0), next)
        inside == Emit(leave, "Jmp", 0, 0, 0, 0)
        ran == GenBody(c, inside, body)
        one == EmitNew(ran, "Load", 0, 0, 1)
        back == IF count = 0 THEN ran ELSE Free(Emit(one, "Add", count, count, one.reg, 0), next)
        done == Emit(back, "Jmp", 0, 0, 0, start - Here(back))
    IN Patch(Patch(done, Here(cond), Here(inside)), Here(leave), Here(done))
GenWhile(c, g, s) == Looped(c, GenExpr(c, g, s.e), Here(g), g.next, s.body, 0)
GenFor(c, g, s) ==
    LET from == GenExpr(c, g, s.from)
        to == GenExpr(c, from, s.to)
        count == EmitNew(to, "Add", from.reg, 0, 0)
        ready == [Free(count, count.reg + 1) EXCEPT !.scope = Bind(@, s.name, [reg |-> count.reg, struct |-> "none"])]
        test == EmitNew(ready, "Lt", count.reg, to.reg, 0)
        done == Looped(c, test, Here(ready), ready.next, s.body, count.reg)
    IN [Free(done, g.next) EXCEPT !.scope = g.scope]

\* A chain of tests: an arm that does not match jumps to the next one, each
\* body to the end.  The scrutinee's register is free while the arms are laid.
RECURSIVE GenArms(_, _, _, _, _)
GenArms(c, g, scrutinee, arms, ends) ==
    IF arms = <<>> THEN [g |-> g, ends |-> ends]
    ELSE LET tests == arms[1].pattern # -1
             pat == EmitNew(g, "Load", 0, 0, arms[1].pattern)
             diff == EmitNew(pat, "Sub", scrutinee, pat.reg, 0)
             tested == IF tests THEN Free(Emit(diff, "Jnz", 0, diff.reg, 0, 0), g.next) ELSE g
             body == GenBody(c, tested, arms[1].body)
             left == Free(Emit(body, "Jmp", 0, 0, 0, 0), g.next)
             past == IF tests THEN Patch(left, Here(diff), Here(left)) ELSE left
         IN GenArms(c, past, scrutinee, Tail(arms), Append(ends, Here(body)))
GenMatch(c, g, s) ==
    LET v == GenExpr(c, g, s.e)
        chain == GenArms(c, Free(v, g.next), v.reg, s.arms, <<>>)
        ToTheEnd(h, at) == Patch(h, at, Here(chain.g))
    IN FoldLeft(ToTheEnd, chain.g, chain.ends)

\* The return address is under the value.
GenReturn(c, g, s) ==
    LET addr == EmitNew(g, "Pop", 0, 0, 0)
        v == IF s.value = <<>> THEN EmitNew(addr, "Load", 0, 0, 0) ELSE GenExpr(c, addr, s.value[1])
    IN Free(Emit(PushRegs(v, <<v.reg, addr.reg>>), "Ret", 0, 0, 0, 0), g.next)
GenEmit(c, g, s) ==
    LET Logged(h, e) == LET v == GenExpr(c, h, e) IN Emit(v, "Log", 0, v.reg, 0, 0)
    IN Free(FoldLeft(Logged, g, s.args), g.next)

GenStmt(c, g, s) ==
    IF g.err # "none" THEN g
    ELSE CASE s.k = "let"       -> GenLet(c, g, s)
           [] s.k = "constrain" -> LET v == GenExpr(c, g, s.e) IN Free(Emit(v, "Assert", 0, v.reg, 0, 0), g.next)
           [] s.k = "swrite"    -> GenStorageWrite(c, g, s)
           [] s.k = "mwrite"    -> GenMappingWrite(c, g, s)
           [] s.k = "assign"    -> GenAssign(c, g, s)
           [] s.k = "if"        -> GenIf(c, g, s)
           [] s.k = "while"     -> GenWhile(c, g, s)
           [] s.k = "match"     -> GenMatch(c, g, s)
           [] s.k = "for"       -> GenFor(c, g, s)
           [] s.k = "return"    -> GenReturn(c, g, s)
           [] s.k = "emit"      -> GenEmit(c, g, s)
           [] s.k = "expr"      -> Free(GenExpr(c, g, s.e), g.next)
GenBody(c, g, body) == FoldLeft(LAMBDA h, s : GenStmt(c, h, s), g, body)

\* A function takes the return address, its parameters from the last to the
\* first, puts the address back, and answers zero where its body does not return.
GenFunction(c, g, f) ==
    LET addr == EmitNew([Free(g, 1) EXCEPT !.scope = <<>>], "Pop", 0, 0, 0)
        regs == [i \in DOMAIN f.params |-> addr.reg + i]
        Param(h, i) == [Alloc(h) EXCEPT !.scope = Bind(@, f.params[i][1],
                          [reg |-> regs[i], struct |-> IF IsStruct(c, f.params[i][2]) THEN f.params[i][2][1] ELSE "none"])]
        ready == PushRegs(PopRegs(FoldLeft(Param, addr, [i \in DOMAIN f.params |-> i]), Reverse(regs)), <<addr.reg>>)
        back == EmitNew(GenBody(c, ready, f.body), "Pop", 0, 0, 0)
        zero == EmitNew(back, "Load", 0, 0, 0)
    IN Emit(PushRegs(zero, <<zero.reg, back.reg>>), "Ret", 0, 0, 0, 0)

Generate(c) ==
    LET start == [code |-> <<>>, next |-> 1, reg |-> 0, calls |-> <<<<1, "main">>>>, scope |-> <<>>, err |-> "none"]
        boot == Emit(Emit(Emit(start, "Load", HEAP_REG, 0, 0, HEAP_BASE), "Call", 0, 0, 0, 0), "Halt", 0, 0, 0, 0)
        Laid(h, f) == [g |-> GenFunction(c, h.g, f), at |-> Bind(h.at, f.name, Here(h.g))]
        all == FoldLeft(Laid, [g |-> boot, at |-> <<>>], c.functions)
        Called(h, call) == IF call[2] \in DOMAIN all.at THEN Patch(h, call[1], all.at[call[2]]) ELSE Fail(h, "CodegenError")
    IN FoldLeft(Called, all.g, all.g.calls)

Translated(read) ==
    LET g == Generate(read.val)
        Refused(err) == [err |-> err, code |-> <<>>]
    IN IF read.err # "none" THEN Refused(read.err)
       ELSE IF ~Accepted(read.val) THEN Refused("SemanticError")
       ELSE IF g.err # "none" THEN Refused(g.err)
       ELSE [err |-> "none", code |-> [i \in DOMAIN g.code |-> Isa!Encode(g.code[i])]]
Compile(text) == Translated(Parser!Parse(text))
=============================================================================
