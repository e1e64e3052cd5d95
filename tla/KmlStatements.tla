--------------------------- MODULE KmlStatements ---------------------------
(***************************************************************************)
(* The statements of a function body, as far as control flow and one       *)
(* variable x tell them apart.  A statement is a record whose field k is   *)
(* its kind; a statement that does something observable (a call, an access *)
(* to x, a condition) has an identity id, unique in its program.           *)
(***************************************************************************)
EXTENDS Naturals, Sequences

\* An expression statement that calls something: it may throw.
Op(id) == [k |-> "op", id |-> id]

\* `let x: T = v` (init) or `let x: T` in the enclosing block; v is a fresh
\* allocation.  owned is the annotation @owned.
Decl(id, init) == [k |-> "decl", id |-> id, init |-> init, owned |-> FALSE]
OwnedDecl(id) == [Decl(id, TRUE) EXCEPT !.owned = TRUE]

\* `x = v`; the value stored is undefined or not.
Assign(id, undef) == [k |-> "assign", id |-> id, undef |-> undef]

\* A read of x.
Read(id) == [k |-> "read", id |-> id]

Return(id) == [k |-> "return", id |-> id]
Throw(id) == [k |-> "throw", id |-> id]

\* l is the label, "" for none.
Break(l) == [k |-> "break", l |-> l]
Continue(l) == [k |-> "continue", l |-> l]

\* A condition: an opaque expression that calls something, the literal true,
\* `x !== undefined` or `x === undefined`.
Cond(id) == [c |-> "call", id |-> id]
CondTrue == [c |-> "true", id |-> ""]
Present(id) == [c |-> "present", id |-> id]
Absent(id) == [c |-> "absent", id |-> id]

Block(body) == [k |-> "block", body |-> body]

\* els is <<>> when the statement has no else.
If(test, then, els) == [k |-> "if", test |-> test, body |-> then, els |-> els]

While(test, body) == [k |-> "while", test |-> test, body |-> body]
DoWhile(test, body) == [k |-> "dowhile", test |-> test, body |-> body]

\* `for (; test; update)`, the update a call.
For(test, update, body) ==
    [k |-> "for", test |-> test, update |-> update, body |-> body]

\* `for (const v of it)`: over a generator ("gen") or a value typed any that
\* implements the iterator protocol ("any"); close is the call of return().
ForOf(over, test, close, body) ==
    [k |-> "forof", over |-> over, test |-> test, close |-> close, body |-> body]

Label(l, s) == [k |-> "label", l |-> l, s |-> s]

\* cases is a sequence of [def, test, body], at most one of them the default.
Case(test, body) == [def |-> FALSE, test |-> test, body |-> body]
Default(body) == [def |-> TRUE, test |-> CondTrue, body |-> body]
Switch(cases) == [k |-> "switch", cases |-> cases]

\* A try statement; hasC and hasF say whether it has a catch and a finally.
\* user is FALSE for one the compiler makes (a for-of's iterator close).
Try(body, hasC, c, hasF, f) ==
    [k |-> "try", body |-> body, hasC |-> hasC, c |-> c, hasF |-> hasF, f |-> f,
     user |-> TRUE]

LoopKinds == {"while", "dowhile", "for", "forof"}

\* The sequences of statements nested directly in statement s.
Parts(s) ==
    CASE s.k \in {"block", "while", "dowhile", "for", "forof"} -> {s.body}
      [] s.k = "if" -> {s.body, s.els}
      [] s.k = "label" -> {<<s.s>>}
      [] s.k = "switch" -> {s.cases[i].body : i \in DOMAIN s.cases}
      [] s.k = "try" -> {s.body, s.c, s.f}
      [] OTHER -> {}

\* Every statement in the sequence ss, at any depth.
RECURSIVE Nested(_)
Nested(ss) ==
    UNION {{ss[i]} \cup UNION {Nested(p) : p \in Parts(ss[i])} : i \in DOMAIN ss}

\* The tests of statement s.
TestsOf(s) ==
    CASE s.k \in {"if"} \cup LoopKinds -> {s.test}
      [] s.k = "switch" -> {s.cases[i].test : i \in DOMAIN s.cases}
      [] OTHER -> {}

\* The statements ss read or store x.
Mentions(ss) ==
    \E s \in Nested(ss) : \/ s.k \in {"read", "assign"}
                          \/ \E t \in TestsOf(s) : t.c \in {"present", "absent"}

\* The statements ss are a scope that declares x.
Declares(ss) == \E i \in DOMAIN ss : ss[i].k = "decl"

\* The switch s declares x in one of its cases: its block is one scope.
SwitchDeclares(s) == \E i \in DOMAIN s.cases : Declares(s.cases[i].body)
=============================================================================
