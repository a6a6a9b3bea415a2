-------------------------- MODULE ExpressionsProofs --------------------------
(***************************************************************************)
(* Filter expressions of every shape: induction over them, the equations   *)
(* of the recursive definitions, and that SQLite's reading of the text of  *)
(* a numbered filter with bound parameters is the program's reading.       *)
(***************************************************************************)
EXTENDS Expressions, SequenceTheorems, WellFoundedInduction, TLAPS

-----------------------------------------------------------------------------
(* Induction and recursive definitions.  The library's theorems on them    *)
(* have operators for parameters, which the provers do not instantiate:    *)
(* here induction is stated with sets, and a recursive function with the   *)
(* name of its definition.  Body is its value for x, if f is the function  *)
(* and p its other parameters.                                             *)

NestedDef(f, n, p) ==
    IF n = 0 THEN Simple
    ELSE f[n - 1] \cup [kind : {"logical"}, left : f[n - 1], op : {"AND", "OR"}, right : f[n - 1]]

ComparisonsDef(f, x, p) ==
    IF x.kind = "logical" THEN f[x.left] \cup f[x.right] ELSE {x}

ParametersDef(f, x, p) ==
    IF x.kind = "logical" THEN f[x.left] + f[x.right] ELSE IF HasParameter(x) THEN 1 ELSE 0

BindingsDef(f, x, p) ==
    IF x.kind = "logical"
    THEN [k \in DOMAIN f[x.left] \cup DOMAIN f[x.right] |->
             IF k \in DOMAIN f[x.right] THEN f[x.right][k] ELSE f[x.left][k]]
    ELSE [k \in IF HasParameter(x) /\ x.param \in BindParameters[p[1]] THEN {x.index + 1} ELSE {} |->
             p[2][x.cell]]

TextDef(f, x, p) ==
    IF x.kind = "logical" THEN Parenthesised(f[x.left] \o Connective(x.op) \o f[x.right])
    ELSE SimpleText(x)

HoldsDef(f, x, p) ==
    IF x.kind = "logical"
    THEN IF x.op = "AND" THEN Smaller(f[x.left], f[x.right]) ELSE Larger(f[x.left], f[x.right])
    ELSE Agrees(x, p[1], p[2])

IndicesDef(f, x, p) ==
    [n \in Nat |->
        IF x.kind = "logical"
        THEN Logical(f[x.left][n], x.op, f[x.right][n + Parameters(x.left)])
        ELSE IF HasParameter(x) THEN [x EXCEPT !.index = n] ELSE x]

NestedTextDef(f, n, p) == Seq(IF n = 0 THEN Item ELSE Item \cup [op : {"()"}, items : f[n - 1]])

Operands(t) == {k \in DOMAIN t : t[k].op \notin {"AND", "OR"}}
Anded(t, k) == {j \in Operands(t) : \A i \in DOMAIN t : t[i].op = "OR" => (i < j <=> i < k)}
OperandOf(o, p) == IF o.func = "?" THEN p[2][o.index] ELSE ValueOf(o, p[1])
TruthOf(f, t, k, p) ==
    IF t[k].op = "()" THEN f[t[k].items]
    ELSE Compare(OperandOf(t[k].left, p), t[k].op, OperandOf(t[k].right, p))

SqlDef(f, t, p) == Max({Min({TruthOf(f, t, j, p) : j \in Anded(t, k)}) : k \in Operands(t)})

KeptDef(f, n, p) ==
    IF n = 0 THEN <<>> ELSE IF n \in p[2] THEN Append(f[n - 1], p[1][n]) ELSE f[n - 1]

SumDef(f, n, p) == IF n = 0 THEN 0 ELSE f[n - 1] + p[n]

Body(name, f, x, p) ==
    IF name = "Nested" THEN NestedDef(f, x, p)
    ELSE IF name = "Comparisons" THEN ComparisonsDef(f, x, p)
    ELSE IF name = "Parameters" THEN ParametersDef(f, x, p)
    ELSE IF name = "Bindings" THEN BindingsDef(f, x, p)
    ELSE IF name = "Text" THEN TextDef(f, x, p)
    ELSE IF name = "Holds" THEN HoldsDef(f, x, p)
    ELSE IF name = "Indices" THEN IndicesDef(f, x, p)
    ELSE IF name = "NestedText" THEN NestedTextDef(f, x, p)
    ELSE IF name = "Sql" THEN SqlDef(f, x, p)
    ELSE IF name = "Kept" THEN KeptDef(f, x, p)
    ELSE SumDef(f, x, p)

\* The function with that name and domain.
Defined(name, D, p) == LET f[x \in D] == Body(name, f, x, p) IN f

Identity == [n \in Nat |-> n]

\* A set of natural numbers has a smallest element.
LEMMA Smallest ==
    ASSUME NEW S, S \subseteq Nat, S # {}
    PROVE  \E n \in S : \A k \in S : ~(k < n)
<1> DEFINE R == OpToRel(<, Nat)
<1>1. IsWellFoundedOn(R, Nat)
  BY NatLessThanWellFounded
<1>2. \A k, n \in Nat : k < n => <<k, n>> \in R
  BY DEF OpToRel
<1> HIDE DEF R
<1>3. \E n \in S : \A k \in S : <<k, n>> \notin R
  BY <1>1, WFMin, Zenon
<1> QED
  BY <1>2, <1>3

\* Induction over the natural numbers.
LEMMA Induction ==
    ASSUME NEW S, 0 \in S, \A n \in Nat : n \in S => n + 1 \in S
    PROVE  Nat \subseteq S
<1> DEFINE U == Nat \ S
<1> SUFFICES ASSUME U # {} PROVE FALSE
  OBVIOUS
<1>1. U \subseteq Nat
  OBVIOUS
<1>2. PICK n \in U : \A k \in U : ~(k < n)
  <2> HIDE DEF U
  <2> QED BY <1>1, Smallest
<1>3. n \in Nat /\ n # 0 /\ n \notin S
  OBVIOUS
<1>4. n - 1 \in Nat /\ (n - 1) + 1 = n /\ n - 1 < n
  BY <1>3, SMT
<1>5. n - 1 \notin S
  BY <1>3, <1>4
<1> QED
  BY <1>2, <1>4, <1>5

\* Induction over the measure.
LEMMA MeasureInduction ==
    ASSUME NEW D, NEW M, \A x \in D : M[x] \in Nat,
           NEW S, \A x \in D : (\A y \in D : M[y] < M[x] => y \in S) => x \in S
    PROVE  D \subseteq S
<1> DEFINE U == {n \in Nat : \A x \in D : M[x] < n => x \in S}
<1>1. 0 \in U
  OBVIOUS
<1>2. ASSUME NEW n \in Nat, n \in U PROVE n + 1 \in U
  BY <1>2
<1>3. Nat \subseteq U
  <2> HIDE DEF U
  <2> QED BY <1>1, <1>2, Induction
<1>4. ASSUME NEW x \in D PROVE x \in S
  <2>1. M[x] + 1 \in U /\ M[x] < M[x] + 1
    BY <1>3
  <2> QED BY <2>1
<1> QED
  BY <1>4

\* The value of the function depends only on its values for smaller elements.
Local(D, M, name, p) ==
    \A f, g : \A x \in D : (\A y \in D : M[y] < M[x] => f[y] = g[y]) =>
        Body(name, f, x, p) = Body(name, g, x, p)

\* f is the function for the elements below n.
Below(D, M, name, f, n, p) == \A x \in D : M[x] < n => f[x] = Body(name, f, x, p)

LEMMA BelowExists ==
    ASSUME NEW D, NEW M, \A x \in D : M[x] \in Nat,
           NEW name, NEW p, Local(D, M, name, p), NEW n \in Nat
    PROVE  \E f : Below(D, M, name, f, n, p)
<1> DEFINE S == {k \in Nat : \E f : Below(D, M, name, f, k, p)}
<1>1. 0 \in S
  BY DEF Below
<1>2. ASSUME NEW k \in Nat, k \in S PROVE k + 1 \in S
  <2>1. PICK f : Below(D, M, name, f, k, p)
    BY <1>2
  <2> DEFINE g == [x \in D |-> IF M[x] < k THEN f[x] ELSE Body(name, f, x, p)]
  <2>2. \A x \in D : M[x] < k + 1 => g[x] = Body(name, f, x, p)
    BY <2>1 DEF Below
  <2>3. \A x \in D : M[x] < k => g[x] = f[x]
    OBVIOUS
  <2> HIDE DEF g
  <2>4. ASSUME NEW x \in D, M[x] < k + 1 PROVE g[x] = Body(name, g, x, p)
    <3>1. \A y \in D : M[y] < M[x] => f[y] = g[y]
      BY <2>3, <2>4
    <3>2. Body(name, f, x, p) = Body(name, g, x, p)
      BY <3>1 DEF Local
    <3> QED BY <3>2, <2>2, <2>4
  <2>5. Below(D, M, name, g, k + 1, p)
    BY <2>4 DEF Below
  <2> QED BY <2>5
<1> HIDE DEF S
<1>3. n \in S
  BY <1>1, <1>2, Induction
<1> QED
  BY <1>3 DEF S

LEMMA BelowUnique ==
    ASSUME NEW D, NEW M, \A x \in D : M[x] \in Nat,
           NEW name, NEW p, Local(D, M, name, p),
           NEW f, NEW m \in Nat, Below(D, M, name, f, m, p),
           NEW g, NEW n \in Nat, Below(D, M, name, g, n, p)
    PROVE  \A x \in D : M[x] < m /\ M[x] < n => f[x] = g[x]
<1> DEFINE S == {x \in D : M[x] < m /\ M[x] < n => f[x] = g[x]}
<1>1. ASSUME NEW x \in D, \A y \in D : M[y] < M[x] => y \in S PROVE x \in S
  <2> SUFFICES ASSUME M[x] < m, M[x] < n PROVE f[x] = g[x]
    OBVIOUS
  <2>1. \A y \in D : M[y] < M[x] => f[y] = g[y]
    BY <1>1
  <2>2. Body(name, f, x, p) = Body(name, g, x, p)
    BY <2>1 DEF Local
  <2> QED BY <2>2 DEF Below
<1> HIDE DEF S
<1>2. D \subseteq S
  BY <1>1, MeasureInduction
<1> QED
  BY <1>2 DEF S

\* A local recursive definition defines the function.
THEOREM Recursive ==
    ASSUME NEW D, NEW M, \A x \in D : M[x] \in Nat,
           NEW name, NEW p, Local(D, M, name, p)
    PROVE  Defined(name, D, p) = [x \in D |-> Body(name, Defined(name, D, p), x, p)]
<1> DEFINE part(n) == CHOOSE f : Below(D, M, name, f, n, p)
           h == [x \in D |-> part(M[x] + 1)[x]]
<1>1. \A n \in Nat : Below(D, M, name, part(n), n, p)
  BY BelowExists
<1> HIDE DEF part
<1>2. ASSUME NEW x \in D PROVE h[x] = Body(name, h, x, p)
  <2>1. M[x] + 1 \in Nat /\ M[x] < M[x] + 1 /\ Below(D, M, name, part(M[x] + 1), M[x] + 1, p)
    BY <1>1
  <2>2. h[x] = Body(name, part(M[x] + 1), x, p)
    BY <2>1 DEF Below
  <2>3. ASSUME NEW y \in D, M[y] < M[x] PROVE part(M[x] + 1)[y] = h[y]
    <3>1. /\ M[y] + 1 \in Nat /\ M[y] < M[y] + 1
          /\ Below(D, M, name, part(M[y] + 1), M[y] + 1, p) /\ M[y] < M[x] + 1
      BY <1>1, <2>3
    <3>2. part(M[x] + 1)[y] = part(M[y] + 1)[y]
      BY <2>1, <3>1, BelowUnique
    <3> QED BY <3>2
  <2>4. Body(name, part(M[x] + 1), x, p) = Body(name, h, x, p)
    BY <2>3 DEF Local
  <2> QED BY <2>2, <2>4
<1>3. h = [x \in D |-> Body(name, h, x, p)]
  BY <1>2
<1> HIDE DEF h
<1>4. \E f : f = [x \in D |-> Body(name, f, x, p)]
  BY <1>3
<1> QED
  BY <1>4 DEF Defined

LEMMA RecursiveOnNat ==
    ASSUME NEW name, NEW p, Local(Nat, Identity, name, p)
    PROVE  Defined(name, Nat, p) = [n \in Nat |-> Body(name, Defined(name, Nat, p), n, p)]
<1>1. \A n \in Nat : Identity[n] \in Nat
  BY DEF Identity
<1> QED
  BY <1>1, Recursive

-----------------------------------------------------------------------------
(* Nested, and induction over expressions.                                 *)

LogicalOf(E) == [kind : {"logical"}, left : E, op : {"AND", "OR"}, right : E]

LEMMA NestedEquation ==
    /\ Nested[0] = Simple
    /\ \A n \in Nat : Nested[n + 1] = Nested[n] \cup LogicalOf(Nested[n])
<1> DEFINE F == Defined("Nested", Nat, 0)
<1>1. Local(Nat, Identity, "Nested", 0)
  BY DEF Local, Body, Identity, NestedDef
<1>2. F = [n \in Nat |-> NestedDef(F, n, 0)]
  <2>1. F = [n \in Nat |-> Body("Nested", F, n, 0)]
    BY <1>1, RecursiveOnNat
  <2> HIDE DEF F
  <2> QED BY <2>1 DEF Body
<1>3. Nested = F
  BY DEF Nested, Defined, Body, NestedDef
<1>4. \A n \in Nat : Nested[n] = NestedDef(Nested, n, 0)
  BY <1>2, <1>3
<1>5. Nested[0] = Simple
  BY <1>4 DEF NestedDef
<1>6. ASSUME NEW n \in Nat PROVE Nested[n + 1] = Nested[n] \cup LogicalOf(Nested[n])
  <2>1. n + 1 \in Nat /\ n + 1 # 0 /\ (n + 1) - 1 = n
    OBVIOUS
  <2> QED BY <1>4, <2>1 DEF NestedDef, LogicalOf
<1> QED
  BY <1>5, <1>6

\* An expression is a comparison, or connects two expressions.
LEMMA ExprShape ==
    ASSUME NEW n \in Nat, NEW e \in Nested[n]
    PROVE  /\ e.kind # "logical" => e \in Simple
           /\ e.kind = "logical" =>
                 /\ n # 0 /\ e.op \in {"AND", "OR"}
                 /\ e.left \in Nested[n - 1] /\ e.right \in Nested[n - 1]
                 /\ e = Logical(e.left, e.op, e.right)
<1> DEFINE Shape(x, k) ==
             /\ x.kind # "logical" => x \in Simple
             /\ x.kind = "logical" =>
                   /\ k # 0 /\ x.op \in {"AND", "OR"}
                   /\ x.left \in Nested[k - 1] /\ x.right \in Nested[k - 1]
                   /\ x = Logical(x.left, x.op, x.right)
           S == {k \in Nat : (\A x \in Nested[k] : Shape(x, k)) /\ Nested[k] \subseteq Nested[k + 1]}
<1>1. 0 \in S
  <2>1. \A x \in Simple : x.kind # "logical"
    BY DEF Simple
  <2> QED BY <2>1, NestedEquation
<1>2. ASSUME NEW k \in Nat, k \in S PROVE k + 1 \in S
  <2>1. Nested[k + 1] = Nested[k] \cup LogicalOf(Nested[k]) /\ k + 1 \in Nat
        /\ k + 1 # 0 /\ (k + 1) - 1 = k
    BY NestedEquation
  <2>2. Nested[k + 1] \subseteq Nested[k + 1 + 1]
    BY <2>1, NestedEquation
  <2>3. ASSUME NEW x \in LogicalOf(Nested[k]) PROVE Shape(x, k + 1)
    BY <2>1 DEF LogicalOf, Logical
  <2>4. ASSUME NEW x \in Nested[k] PROVE Shape(x, k + 1)
    <3>1. Shape(x, k)
      BY <1>2
    <3>2. k # 0 => k - 1 \in Nat /\ (k - 1) + 1 = k
      OBVIOUS
    <3>3. k # 0 => Nested[k - 1] \subseteq Nested[k]
      BY <3>2, NestedEquation
    <3> QED BY <2>1, <3>1, <3>3
  <2> QED BY <2>1, <2>2, <2>3, <2>4
<1> HIDE DEF S
<1>3. n \in S
  BY <1>1, <1>2, Induction
<1> QED
  BY <1>3 DEF S

LEMMA NestedGrows ==
    ASSUME NEW n \in Nat
    PROVE  Nested[n] \subseteq Nested[n + 1]
BY NestedEquation

\* The nesting of an expression.
Depth(e) == CHOOSE n \in Nat : e \in Nested[n] /\ \A k \in Nat : e \in Nested[k] => ~(k < n)

LEMMA DepthDefined ==
    ASSUME NEW n \in Nat, NEW e \in Nested[n]
    PROVE  Depth(e) \in Nat /\ Depth(e) <= n /\ e \in Nested[Depth(e)]
<1> DEFINE S == {k \in Nat : e \in Nested[k]}
<1>1. S \subseteq Nat /\ S # {}
  OBVIOUS
<1>2. \E m \in S : \A k \in S : ~(k < m)
  <2> HIDE DEF S
  <2> QED BY <1>1, Smallest
<1>3. \E m \in Nat : e \in Nested[m] /\ \A k \in Nat : e \in Nested[k] => ~(k < m)
  BY <1>2
<1>4. Depth(e) \in Nat /\ e \in Nested[Depth(e)]
      /\ \A k \in Nat : e \in Nested[k] => ~(k < Depth(e))
  BY <1>3 DEF Depth
<1> QED
  BY <1>4

Depths == [e \in Expr |-> Depth(e)]

\* Both sides of a connective are expressions of less depth.
LEMMA Sides ==
    ASSUME NEW e \in Expr
    PROVE  /\ Depth(e) \in Nat
           /\ e.kind # "logical" => e \in Simple
           /\ e.kind = "logical" =>
                 /\ e.left \in Expr /\ Depth(e.left) < Depth(e)
                 /\ e.right \in Expr /\ Depth(e.right) < Depth(e)
                 /\ e.op \in {"AND", "OR"} /\ e = Logical(e.left, e.op, e.right)
<1> DEFINE n == Depth(e)
<1>1. n \in Nat /\ n <= MaxDepth /\ e \in Nested[n]
  BY DepthDefined, DepthAssumption DEF Expr
<1> HIDE DEF n
<1>2. SUFFICES ASSUME e.kind = "logical"
      PROVE /\ e.left \in Expr /\ Depth(e.left) < n
            /\ e.right \in Expr /\ Depth(e.right) < n
  BY <1>1, ExprShape DEF n
<1>3. n - 1 \in Nat /\ n - 1 < n /\ e.left \in Nested[n - 1] /\ e.right \in Nested[n - 1]
  BY <1>1, <1>2, ExprShape
<1>4. Depth(e.left) \in Nat /\ Depth(e.left) <= n - 1
  BY <1>3, DepthDefined
<1>5. Depth(e.right) \in Nat /\ Depth(e.right) <= n - 1
  BY <1>3, DepthDefined
<1>6. \A k \in Nat : n - 1 <= k => Nested[n - 1] \subseteq Nested[k]
  <2> DEFINE S == {k \in Nat : n - 1 <= k => Nested[n - 1] \subseteq Nested[k]}
  <2>1. 0 \in S
    BY <1>3
  <2>2. ASSUME NEW k \in Nat, k \in S PROVE k + 1 \in S
    <3>1. Nested[k] \subseteq Nested[k + 1]
      BY NestedGrows
    <3>2. n - 1 <= k + 1 => n - 1 <= k \/ n - 1 = k + 1
      BY <1>3
    <3> QED BY <2>2, <3>1, <3>2
  <2> HIDE DEF S
  <2>3. Nat \subseteq S
    BY <2>1, <2>2, Induction
  <2> QED BY <2>3 DEF S
<1>7. Nested[n - 1] \subseteq Expr
  BY <1>1, <1>3, <1>6, DepthAssumption DEF Expr
<1> QED
  BY <1>1, <1>3, <1>4, <1>5, <1>7

\* Induction over expressions.
LEMMA ExprInduction ==
    ASSUME NEW S,
           \A e \in Expr : e.kind # "logical" => e \in S,
           \A e \in Expr : e.kind = "logical" /\ e.left \in S /\ e.right \in S => e \in S
    PROVE  Expr \subseteq S
<1> DEFINE U == {n \in Nat : \A e \in Expr : Depth(e) < n => e \in S}
<1>1. 0 \in U
  BY Sides
<1>2. ASSUME NEW n \in Nat, n \in U PROVE n + 1 \in U
  <2> SUFFICES ASSUME NEW e \in Expr, Depth(e) < n + 1 PROVE e \in S
    OBVIOUS
  <2>1. CASE e.kind # "logical"
    BY <2>1
  <2>2. CASE e.kind = "logical"
    <3>1. /\ e.left \in Expr /\ Depth(e.left) < Depth(e) /\ Depth(e.left) \in Nat
          /\ e.right \in Expr /\ Depth(e.right) < Depth(e) /\ Depth(e.right) \in Nat
          /\ Depth(e) \in Nat
      BY <2>2, Sides
    <3>2. Depth(e.left) < n /\ Depth(e.right) < n
      BY <3>1
    <3>3. e.left \in S /\ e.right \in S
      BY <1>2, <3>1, <3>2
    <3> QED BY <2>2, <3>3
  <2> QED BY <2>1, <2>2
<1> HIDE DEF U
<1>3. Nat \subseteq U
  BY <1>1, <1>2, Induction
<1>4. ASSUME NEW e \in Expr PROVE e \in S
  <2>1. Depth(e) + 1 \in U /\ Depth(e) < Depth(e) + 1
    BY <1>3, Sides
  <2> QED BY <2>1 DEF U
<1> QED
  BY <1>4

LEMMA RecursiveOnExpr ==
    ASSUME NEW name, NEW p, Local(Expr, Depths, name, p)
    PROVE  Defined(name, Expr, p) = [e \in Expr |-> Body(name, Defined(name, Expr, p), e, p)]
<1>1. \A e \in Expr : Depths[e] \in Nat
  BY Sides DEF Depths
<1> QED
  BY <1>1, Recursive

\* Definitions that look at both sides of a connective only are local.
LEMMA LocalOnExpr ==
    ASSUME NEW name, NEW p,
           \A f, g : \A e \in Expr :
               (e.kind = "logical" => f[e.left] = g[e.left] /\ f[e.right] = g[e.right]) =>
               Body(name, f, e, p) = Body(name, g, e, p)
    PROVE  Local(Expr, Depths, name, p)
<1> SUFFICES ASSUME NEW f, NEW g, NEW e \in Expr,
                    \A y \in Expr : Depths[y] < Depths[e] => f[y] = g[y]
             PROVE  Body(name, f, e, p) = Body(name, g, e, p)
  BY DEF Local
<1>1. e.kind = "logical" => /\ e.left \in Expr /\ Depths[e.left] < Depths[e]
                            /\ e.right \in Expr /\ Depths[e.right] < Depths[e]
  BY Sides DEF Depths
<1> QED
  BY <1>1

-----------------------------------------------------------------------------
(* The equations of the recursive definitions.                             *)


LEMMA ComparisonsInEquation ==
    ASSUME NEW e \in Expr
    PROVE  ComparisonsIn(e) = IF e.kind = "logical" THEN ComparisonsIn(e.left) \cup ComparisonsIn(e.right)
                              ELSE {e}
<1> DEFINE p == 0
           F == Defined("Comparisons", Expr, p)
<1>1. Local(Expr, Depths, "Comparisons", p)
  <2>1. \A f, g : \A x \in Expr :
           (x.kind = "logical" => f[x.left] = g[x.left] /\ f[x.right] = g[x.right]) =>
           ComparisonsDef(f, x, p) = ComparisonsDef(g, x, p)
    BY DEF ComparisonsDef
  <2>2. \A f, x : Body("Comparisons", f, x, p) = ComparisonsDef(f, x, p)
    BY DEF Body
  <2> QED BY <2>1, <2>2, LocalOnExpr
<1>2. F = [x \in Expr |-> ComparisonsDef(F, x, p)]
  <2>1. F = [x \in Expr |-> Body("Comparisons", F, x, p)]
    BY <1>1, RecursiveOnExpr
  <2> HIDE DEF F
  <2> QED BY <2>1 DEF Body
<1>3. \A x \in Expr : ComparisonsIn(x) = F[x]
  BY DEF ComparisonsIn, Defined, Body, ComparisonsDef
<1>4. F[e] = ComparisonsDef(F, e, p)
  BY <1>2
<1>5. e.kind = "logical" => e.left \in Expr /\ e.right \in Expr
  BY Sides
<1> QED
  BY <1>3, <1>4, <1>5 DEF ComparisonsDef


LEMMA ParametersEquation ==
    ASSUME NEW e \in Expr
    PROVE  Parameters(e) = IF e.kind = "logical" THEN Parameters(e.left) + Parameters(e.right)
                           ELSE IF HasParameter(e) THEN 1 ELSE 0
<1> DEFINE p == 0
           F == Defined("Parameters", Expr, p)
<1>1. Local(Expr, Depths, "Parameters", p)
  <2>1. \A f, g : \A x \in Expr :
           (x.kind = "logical" => f[x.left] = g[x.left] /\ f[x.right] = g[x.right]) =>
           ParametersDef(f, x, p) = ParametersDef(g, x, p)
    BY DEF ParametersDef
  <2>2. \A f, x : Body("Parameters", f, x, p) = ParametersDef(f, x, p)
    BY DEF Body
  <2> QED BY <2>1, <2>2, LocalOnExpr
<1>2. F = [x \in Expr |-> ParametersDef(F, x, p)]
  <2>1. F = [x \in Expr |-> Body("Parameters", F, x, p)]
    BY <1>1, RecursiveOnExpr
  <2> HIDE DEF F
  <2> QED BY <2>1 DEF Body
<1>3. \A x \in Expr : Parameters(x) = F[x]
  BY DEF Parameters, Defined, Body, ParametersDef
<1>4. F[e] = ParametersDef(F, e, p)
  BY <1>2
<1>5. e.kind = "logical" => e.left \in Expr /\ e.right \in Expr
  BY Sides
<1> QED
  BY <1>3, <1>4, <1>5 DEF ParametersDef


LEMMA BindingsEquation ==
    ASSUME NEW e \in Expr, NEW b, NEW memory
    PROVE  Bindings(e, b, memory) =
              IF e.kind = "logical"
              THEN LET l == Bindings(e.left, b, memory)
                       r == Bindings(e.right, b, memory)
                   IN  [k \in DOMAIN l \cup DOMAIN r |-> IF k \in DOMAIN r THEN r[k] ELSE l[k]]
              ELSE [k \in IF HasParameter(e) /\ e.param \in BindParameters[b]
                          THEN {e.index + 1} ELSE {} |-> memory[e.cell]]
<1> DEFINE p == <<b, memory>>
           F == Defined("Bindings", Expr, p)
<1>1. Local(Expr, Depths, "Bindings", p)
  <2>1. \A f, g : \A x \in Expr :
           (x.kind = "logical" => f[x.left] = g[x.left] /\ f[x.right] = g[x.right]) =>
           BindingsDef(f, x, p) = BindingsDef(g, x, p)
    BY DEF BindingsDef
  <2>2. \A f, x : Body("Bindings", f, x, p) = BindingsDef(f, x, p)
    BY DEF Body
  <2> QED BY <2>1, <2>2, LocalOnExpr
<1>2. F = [x \in Expr |-> BindingsDef(F, x, p)]
  <2>1. F = [x \in Expr |-> Body("Bindings", F, x, p)]
    BY <1>1, RecursiveOnExpr
  <2> HIDE DEF F
  <2> QED BY <2>1 DEF Body
<1>3. \A x \in Expr : Bindings(x, b, memory) = F[x]
  BY DEF Bindings, Defined, Body, BindingsDef
<1>4. F[e] = BindingsDef(F, e, p)
  BY <1>2
<1>5. e.kind = "logical" => e.left \in Expr /\ e.right \in Expr
  BY Sides
<1> QED
  BY <1>3, <1>4, <1>5 DEF BindingsDef


LEMMA toStringEquation ==
    ASSUME NEW e \in Expr
    PROVE  toString(e) = IF e.kind = "logical"
                         THEN Parenthesised(toString(e.left) \o Connective(e.op) \o toString(e.right))
                         ELSE SimpleText(e)
<1> DEFINE p == 0
           F == Defined("Text", Expr, p)
<1>1. Local(Expr, Depths, "Text", p)
  <2>1. \A f, g : \A x \in Expr :
           (x.kind = "logical" => f[x.left] = g[x.left] /\ f[x.right] = g[x.right]) =>
           TextDef(f, x, p) = TextDef(g, x, p)
    BY DEF TextDef
  <2>2. \A f, x : Body("Text", f, x, p) = TextDef(f, x, p)
    BY DEF Body
  <2> QED BY <2>1, <2>2, LocalOnExpr
<1>2. F = [x \in Expr |-> TextDef(F, x, p)]
  <2>1. F = [x \in Expr |-> Body("Text", F, x, p)]
    BY <1>1, RecursiveOnExpr
  <2> HIDE DEF F
  <2> QED BY <2>1 DEF Body
<1>3. \A x \in Expr : toString(x) = F[x]
  BY DEF toString, Defined, Body, TextDef
<1>4. F[e] = TextDef(F, e, p)
  BY <1>2
<1>5. e.kind = "logical" => e.left \in Expr /\ e.right \in Expr
  BY Sides
<1> QED
  BY <1>3, <1>4, <1>5 DEF TextDef


LEMMA HoldsEquation ==
    ASSUME NEW e \in Expr, NEW group, NEW value
    PROVE  Holds(e, group, value) =
              IF e.kind # "logical" THEN Agrees(e, group, value)
              ELSE IF e.op = "AND"
                   THEN Smaller(Holds(e.left, group, value), Holds(e.right, group, value))
                   ELSE Larger(Holds(e.left, group, value), Holds(e.right, group, value))
<1> DEFINE p == <<group, value>>
           F == Defined("Holds", Expr, p)
<1>1. Local(Expr, Depths, "Holds", p)
  <2>1. \A f, g : \A x \in Expr :
           (x.kind = "logical" => f[x.left] = g[x.left] /\ f[x.right] = g[x.right]) =>
           HoldsDef(f, x, p) = HoldsDef(g, x, p)
    BY DEF HoldsDef
  <2>2. \A f, x : Body("Holds", f, x, p) = HoldsDef(f, x, p)
    BY DEF Body
  <2> QED BY <2>1, <2>2, LocalOnExpr
<1>2. F = [x \in Expr |-> HoldsDef(F, x, p)]
  <2>1. F = [x \in Expr |-> Body("Holds", F, x, p)]
    BY <1>1, RecursiveOnExpr
  <2> HIDE DEF F
  <2> QED BY <2>1 DEF Body
<1>3. \A x \in Expr : Holds(x, group, value) = F[x]
  BY DEF Holds, Defined, Body, HoldsDef
<1>4. F[e] = HoldsDef(F, e, p)
  BY <1>2
<1>5. e.kind = "logical" => e.left \in Expr /\ e.right \in Expr
  BY Sides
<1> QED
  BY <1>3, <1>4, <1>5 DEF HoldsDef

LEMMA ParametersType ==
    ASSUME NEW e \in Expr
    PROVE  Parameters(e) \in Nat
<1> DEFINE S == {x \in Expr : Parameters(x) \in Nat}
<1>1. ASSUME NEW x \in Expr, x.kind # "logical" PROVE x \in S
  BY <1>1, ParametersEquation
<1>2. ASSUME NEW x \in Expr, x.kind = "logical", x.left \in S, x.right \in S PROVE x \in S
  BY <1>2, ParametersEquation
<1> HIDE DEF S
<1>3. Expr \subseteq S
  BY <1>1, <1>2, ExprInduction
<1> QED
  BY <1>3 DEF S


LEMMA IndicesEquation ==
    ASSUME NEW e \in Expr, NEW n \in Nat
    PROVE  generateIndices(e, n) =
              IF e.kind = "logical"
              THEN Logical(generateIndices(e.left, n), e.op,
                           generateIndices(e.right, n + Parameters(e.left)))
              ELSE IF HasParameter(e) THEN [e EXCEPT !.index = n] ELSE e
<1> DEFINE F == Defined("Indices", Expr, 0)
<1>1. Local(Expr, Depths, "Indices", 0)
  <2>1. \A f, g : \A x \in Expr :
           (x.kind = "logical" => f[x.left] = g[x.left] /\ f[x.right] = g[x.right]) =>
           IndicesDef(f, x, 0) = IndicesDef(g, x, 0)
    BY DEF IndicesDef
  <2>2. \A f, x : Body("Indices", f, x, 0) = IndicesDef(f, x, 0)
    BY DEF Body
  <2> QED BY <2>1, <2>2, LocalOnExpr
<1>2. F = [x \in Expr |-> IndicesDef(F, x, 0)]
  <2>1. F = [x \in Expr |-> Body("Indices", F, x, 0)]
    BY <1>1, RecursiveOnExpr
  <2> HIDE DEF F
  <2> QED BY <2>1 DEF Body
<1>3. \A x \in Expr, k \in Nat : generateIndices(x, k) = F[x][k]
  BY DEF generateIndices, Defined, Body, IndicesDef
<1>4. F[e][n] = IndicesDef(F, e, 0)[n]
  BY <1>2
<1>5. e.kind = "logical" => e.left \in Expr /\ e.right \in Expr /\ n + Parameters(e.left) \in Nat
  BY Sides, ParametersType
<1> QED
  BY <1>3, <1>4, <1>5 DEF IndicesDef

-----------------------------------------------------------------------------
(* Numbered filters.                                                       *)

\* Numbers do not change the nesting: e with indices is an expression too.
LEMMA IndicesType ==
    ASSUME NEW e \in Expr, NEW n \in Nat
    PROVE  generateIndices(e, n) \in Expr
<1> DEFINE S == {k \in Nat : \A x \in Nested[k] :
                    x \in Expr => \A i \in Nat : generateIndices(x, i) \in Nested[k]}
<1>1. 0 \in S
  <2> SUFFICES ASSUME NEW x \in Simple, x \in Expr, NEW i \in Nat
               PROVE  generateIndices(x, i) \in Simple
    BY NestedEquation
  <2>1. x.kind # "logical"
    BY DEF Simple
  <2>2. generateIndices(x, i) = IF HasParameter(x) THEN [x EXCEPT !.index = i] ELSE x
    BY <2>1, IndicesEquation
  <2>3. CASE HasParameter(x)
    <3>1. x \in [kind : {"value", "like"}, col : Column, op : Operator \cup {"LIKE"}, lhs : BOOLEAN,
                param : {"fixed", "dynamic"}, cell : Cell, index : Int]
      BY <2>3 DEF Simple, HasParameter
    <3>2. [x EXCEPT !.index = i] \in [kind : {"value", "like"}, col : Column,
             op : Operator \cup {"LIKE"}, lhs : BOOLEAN, param : {"fixed", "dynamic"}, cell : Cell,
             index : Int]
      BY <3>1
    <3> QED BY <2>2, <2>3, <3>2 DEF Simple
  <2>4. CASE ~HasParameter(x)
    BY <2>2, <2>4
  <2> QED BY <2>3, <2>4
<1>2. ASSUME NEW k \in Nat, k \in S PROVE k + 1 \in S
  <2> SUFFICES ASSUME NEW x \in Nested[k + 1], x \in Expr, NEW i \in Nat
               PROVE  generateIndices(x, i) \in Nested[k + 1]
    OBVIOUS
  <2>1. CASE x \in Nested[k]
    BY <1>2, <2>1, NestedGrows
  <2>2. CASE x \in LogicalOf(Nested[k])
    <3>1. /\ x.kind = "logical" /\ x.left \in Nested[k] /\ x.right \in Nested[k]
          /\ x = Logical(x.left, x.op, x.right) /\ x.op \in {"AND", "OR"}
      BY <2>2 DEF LogicalOf, Logical
    <3>2. x.left \in Expr /\ x.right \in Expr
      BY <3>1, Sides
    <3>3. i + Parameters(x.left) \in Nat
      BY <3>2, ParametersType
    <3>4. generateIndices(x, i) = Logical(generateIndices(x.left, i), x.op,
                                          generateIndices(x.right, i + Parameters(x.left)))
      BY <3>1, IndicesEquation
    <3>5. /\ generateIndices(x.left, i) \in Nested[k]
          /\ generateIndices(x.right, i + Parameters(x.left)) \in Nested[k]
      BY <1>2, <3>1, <3>2, <3>3
    <3>6. generateIndices(x, i) \in LogicalOf(Nested[k])
      BY <3>1, <3>4, <3>5 DEF LogicalOf, Logical
    <3> QED BY <3>6, NestedEquation
  <2> QED BY <2>1, <2>2, NestedEquation
<1> HIDE DEF S
<1>3. MaxDepth \in S
  BY <1>1, <1>2, Induction, DepthAssumption
<1> QED
  BY <1>3 DEF S, Expr

\* The comparisons of a filter are comparisons.
LEMMA ComparisonsType ==
    ASSUME NEW e \in Expr
    PROVE  \A x \in ComparisonsIn(e) : x \in Simple /\ x \in Expr /\ x.kind # "logical"
<1> DEFINE S == {y \in Expr : \A x \in ComparisonsIn(y) : x \in Simple /\ x \in Expr /\ x.kind # "logical"}
<1>1. ASSUME NEW y \in Expr, y.kind # "logical" PROVE y \in S
  BY <1>1, Sides, ComparisonsInEquation
<1>2. ASSUME NEW y \in Expr, y.kind = "logical", y.left \in S, y.right \in S PROVE y \in S
  BY <1>2, ComparisonsInEquation
<1> HIDE DEF S
<1>3. Expr \subseteq S
  BY <1>1, <1>2, ExprInduction
<1> QED
  BY <1>3 DEF S

Renumbered(x, i) == IF HasParameter(x) THEN [x EXCEPT !.index = i] ELSE x

\* Only the number changes.
LEMMA RenumberedSame ==
    ASSUME NEW x \in Simple, NEW i \in Nat
    PROVE  LET y == Renumbered(x, i) IN
           /\ y \in Simple /\ y.kind = x.kind /\ y.op = x.op
           /\ HasParameter(y) <=> HasParameter(x)
           /\ HasParameter(x) => y.index = i
           /\ x.kind = "columns" => y = x
           /\ x.kind # "columns" => y.col = x.col /\ y.lhs = x.lhs /\ y.param = x.param /\ y.cell = x.cell
<1>1. CASE HasParameter(x)
  <2> DEFINE Numberable == [kind : {"value", "like"}, col : Column, op : Operator \cup {"LIKE"},
                          lhs : BOOLEAN, param : {"fixed", "dynamic"}, cell : Cell, index : Int]
  <2>1. x \in Numberable
    BY <1>1 DEF Simple, HasParameter
  <2>2. Renumbered(x, i) = [x EXCEPT !.index = i]
    BY <1>1 DEF Renumbered
  <2>3. [x EXCEPT !.index = i] \in Numberable
    BY <2>1
  <2> QED BY <1>1, <2>1, <2>2, <2>3 DEF HasParameter, Simple
<1>2. CASE ~HasParameter(x)
  BY <1>2 DEF Renumbered
<1> QED
  BY <1>1, <1>2

\* The comparisons of a numbered filter are those of the filter, with numbers.
LEMMA ComparisonsNumbered ==
    ASSUME NEW e \in Expr, NEW n \in Nat
    PROVE  \A x \in ComparisonsIn(generateIndices(e, n)) :
              \E y \in ComparisonsIn(e), i \in Nat : x = Renumbered(y, i)
<1> DEFINE S == {z \in Expr : \A k \in Nat : \A x \in ComparisonsIn(generateIndices(z, k)) :
                                 \E y \in ComparisonsIn(z), i \in Nat : x = Renumbered(y, i)}
<1>1. ASSUME NEW z \in Expr, z.kind # "logical" PROVE z \in S
  <2> SUFFICES ASSUME NEW k \in Nat, NEW x \in ComparisonsIn(generateIndices(z, k))
               PROVE  \E y \in ComparisonsIn(z), i \in Nat : x = Renumbered(y, i)
    OBVIOUS
  <2>1. generateIndices(z, k) = Renumbered(z, k) /\ z \in Simple
    BY <1>1, IndicesEquation, Sides DEF Renumbered
  <2>2. Renumbered(z, k).kind # "logical" /\ Renumbered(z, k) \in Expr
    BY <1>1, <2>1, RenumberedSame, IndicesType
  <2>3. x = Renumbered(z, k) /\ ComparisonsIn(z) = {z}
    BY <1>1, <2>1, <2>2, ComparisonsInEquation
  <2> QED BY <2>3
<1>2. ASSUME NEW z \in Expr, z.kind = "logical", z.left \in S, z.right \in S PROVE z \in S
  <2> SUFFICES ASSUME NEW k \in Nat, NEW x \in ComparisonsIn(generateIndices(z, k))
               PROVE  \E y \in ComparisonsIn(z), i \in Nat : x = Renumbered(y, i)
    BY <1>2
  <2> DEFINE l == generateIndices(z.left, k)
             m == k + Parameters(z.left)
             r == generateIndices(z.right, m)
  <2>1. m \in Nat
    BY <1>2, ParametersType
  <2>2. generateIndices(z, k) = Logical(l, z.op, r) /\ Logical(l, z.op, r) \in Expr
    BY <1>2, IndicesEquation, IndicesType
  <2>3. ComparisonsIn(Logical(l, z.op, r)) = ComparisonsIn(l) \cup ComparisonsIn(r)
    BY <2>2, ComparisonsInEquation DEF Logical
  <2>4. ComparisonsIn(z) = ComparisonsIn(z.left) \cup ComparisonsIn(z.right)
    BY <1>2, ComparisonsInEquation
  <2> QED BY <1>2, <2>1, <2>2, <2>3, <2>4
<1> HIDE DEF S
<1>3. Expr \subseteq S
  BY <1>1, <1>2, ExprInduction
<1> QED
  BY <1>3 DEF S

\* Every parameter has a number of its own, among those that the filter is
\* given: n and the following ones.
THEOREM NumbersDistinct ==
    ASSUME NEW e \in Expr, NEW n \in Nat
    PROVE  /\ \A x \in ComparisonsIn(generateIndices(e, n)) :
                 HasParameter(x) => x.index \in n .. n + Parameters(e) - 1
           /\ \A x, y \in ComparisonsIn(generateIndices(e, n)) :
                 HasParameter(x) /\ HasParameter(y) /\ y.index = x.index => y = x
<1> DEFINE Within(z, k) == \A x \in ComparisonsIn(generateIndices(z, k)) :
                              HasParameter(x) => x.index \in k .. k + Parameters(z) - 1
           Apart(z, k) == \A x, y \in ComparisonsIn(generateIndices(z, k)) :
                              HasParameter(x) /\ HasParameter(y) /\ y.index = x.index => y = x
           S == {z \in Expr : \A k \in Nat : Within(z, k) /\ Apart(z, k)}
<1>1. ASSUME NEW z \in Expr, z.kind # "logical" PROVE z \in S
  <2> SUFFICES ASSUME NEW k \in Nat PROVE Within(z, k) /\ Apart(z, k)
    OBVIOUS
  <2>1. generateIndices(z, k) = Renumbered(z, k) /\ z \in Simple
    BY <1>1, IndicesEquation, Sides DEF Renumbered
  <2>2. Renumbered(z, k).kind # "logical" /\ Renumbered(z, k) \in Expr
    BY <1>1, <2>1, RenumberedSame, IndicesType
  <2>3. ComparisonsIn(generateIndices(z, k)) = {Renumbered(z, k)}
    BY <2>1, <2>2, ComparisonsInEquation
  <2>4. HasParameter(Renumbered(z, k)) => Renumbered(z, k).index = k /\ Parameters(z) = 1
    BY <1>1, <2>1, RenumberedSame, ParametersEquation
  <2> QED BY <2>3, <2>4
<1>2. ASSUME NEW z \in Expr, z.kind = "logical", z.left \in S, z.right \in S PROVE z \in S
  <2> SUFFICES ASSUME NEW k \in Nat PROVE Within(z, k) /\ Apart(z, k)
    BY <1>2
  <2> DEFINE l == generateIndices(z.left, k)
             m == k + Parameters(z.left)
             r == generateIndices(z.right, m)
  <2>1. /\ m \in Nat /\ Parameters(z.left) \in Nat /\ Parameters(z.right) \in Nat
        /\ Parameters(z) = Parameters(z.left) + Parameters(z.right)
    BY <1>2, ParametersType, ParametersEquation
  <2>2. generateIndices(z, k) = Logical(l, z.op, r) /\ Logical(l, z.op, r) \in Expr
    BY <1>2, IndicesEquation, IndicesType
  <2>3. ComparisonsIn(Logical(l, z.op, r)) = ComparisonsIn(l) \cup ComparisonsIn(r)
    BY <2>2, ComparisonsInEquation DEF Logical
  <2>4. Within(z.left, k) /\ Apart(z.left, k) /\ Within(z.right, m) /\ Apart(z.right, m)
    <3>1. \A i \in Nat : Within(z.left, i) /\ Apart(z.left, i) /\ Within(z.right, i) /\ Apart(z.right, i)
      BY <1>2
    <3> HIDE DEF Within, Apart
    <3> QED BY <2>1, <3>1
  <2>5. \A x \in ComparisonsIn(l) : HasParameter(x) => x.index \in k .. m - 1
    <3>1. Within(z.left, k)
      BY <2>4
    <3> QED BY <2>1, <3>1
  <2>6. \A x \in ComparisonsIn(r) : HasParameter(x) => x.index \in m .. m + Parameters(z.right) - 1
    BY <2>4
  <2>7. /\ \A x, y \in ComparisonsIn(l) :
              HasParameter(x) /\ HasParameter(y) /\ y.index = x.index => y = x
        /\ \A x, y \in ComparisonsIn(r) :
              HasParameter(x) /\ HasParameter(y) /\ y.index = x.index => y = x
    BY <2>4
  <2>8. m - 1 < m /\ m <= k + Parameters(z) /\ k <= m
        /\ m + Parameters(z.right) - 1 = k + Parameters(z) - 1
    BY <2>1
  <2>9. \A x \in ComparisonsIn(l), y \in ComparisonsIn(r) :
            HasParameter(x) /\ HasParameter(y) => x.index # y.index
    BY <2>1, <2>5, <2>6
  <2>10. \A x \in ComparisonsIn(l) \cup ComparisonsIn(r) : HasParameter(x) =>
            x.index \in k .. k + Parameters(z) - 1
    BY <2>1, <2>5, <2>6, <2>8
  <2> HIDE DEF l, r
  <2>11. Within(z, k)
    BY <2>2, <2>3, <2>10
  <2>12. Apart(z, k)
    BY <2>2, <2>3, <2>7, <2>9
  <2> QED BY <2>11, <2>12
<1> HIDE DEF S
<1>3. Expr \subseteq S
  BY <1>1, <1>2, ExprInduction
<1> QED
  BY <1>3 DEF S

\* The program's reading does not look at the numbers.
LEMMA AgreesNumbered ==
    ASSUME NEW x \in Simple, NEW i \in Nat, NEW group, NEW value
    PROVE  Agrees(Renumbered(x, i), group, value) = Agrees(x, group, value)
BY RenumberedSame DEF Agrees

LEMMA HoldsNumbered ==
    ASSUME NEW e \in Expr, NEW n \in Nat, NEW group, NEW value
    PROVE  Holds(generateIndices(e, n), group, value) = Holds(e, group, value)
<1> DEFINE S == {z \in Expr : \A k \in Nat :
                    Holds(generateIndices(z, k), group, value) = Holds(z, group, value)}
<1>1. ASSUME NEW z \in Expr, z.kind # "logical" PROVE z \in S
  <2> SUFFICES ASSUME NEW k \in Nat
               PROVE  Holds(generateIndices(z, k), group, value) = Holds(z, group, value)
    OBVIOUS
  <2>1. generateIndices(z, k) = Renumbered(z, k) /\ z \in Simple
    BY <1>1, IndicesEquation, Sides DEF Renumbered
  <2>2. Renumbered(z, k).kind # "logical" /\ Renumbered(z, k) \in Expr
    BY <1>1, <2>1, RenumberedSame, IndicesType
  <2>3. Holds(Renumbered(z, k), group, value) = Agrees(Renumbered(z, k), group, value)
    BY <2>2, HoldsEquation
  <2>4. Holds(z, group, value) = Agrees(z, group, value)
    BY <1>1, HoldsEquation
  <2> QED BY <2>1, <2>3, <2>4, AgreesNumbered
<1>2. ASSUME NEW z \in Expr, z.kind = "logical", z.left \in S, z.right \in S PROVE z \in S
  <2> SUFFICES ASSUME NEW k \in Nat
               PROVE  Holds(generateIndices(z, k), group, value) = Holds(z, group, value)
    BY <1>2
  <2> DEFINE l == generateIndices(z.left, k)
             m == k + Parameters(z.left)
             r == generateIndices(z.right, m)
  <2>1. m \in Nat
    BY <1>2, ParametersType
  <2>2. generateIndices(z, k) = Logical(l, z.op, r) /\ Logical(l, z.op, r) \in Expr
    BY <1>2, IndicesEquation, IndicesType
  <2>3. Holds(l, group, value) = Holds(z.left, group, value)
        /\ Holds(r, group, value) = Holds(z.right, group, value)
    BY <1>2, <2>1
  <2> HIDE DEF l, r
  <2>4. Holds(Logical(l, z.op, r), group, value) =
          IF z.op = "AND" THEN Smaller(Holds(l, group, value), Holds(r, group, value))
          ELSE Larger(Holds(l, group, value), Holds(r, group, value))
    BY <2>2, HoldsEquation DEF Logical
  <2>5. Holds(z, group, value) =
          IF z.op = "AND" THEN Smaller(Holds(z.left, group, value), Holds(z.right, group, value))
          ELSE Larger(Holds(z.left, group, value), Holds(z.right, group, value))
    BY <1>2, HoldsEquation
  <2> QED BY <2>2, <2>3, <2>4, <2>5
<1> HIDE DEF S
<1>3. Expr \subseteq S
  BY <1>1, <1>2, ExprInduction
<1> QED
  BY <1>3 DEF S

-----------------------------------------------------------------------------
(* Binding.                                                                *)

Chosen(x, b) == HasParameter(x) /\ x.param \in BindParameters[b]

\* The values come from the comparisons that b selects, and each of them gives one.
LEMMA BindingsFrom ==
    ASSUME NEW e \in Expr, NEW b, NEW memory
    PROVE  /\ \A k \in DOMAIN Bindings(e, b, memory) : \E x \in ComparisonsIn(e) :
                 Chosen(x, b) /\ k = x.index + 1 /\ Bindings(e, b, memory)[k] = memory[x.cell]
           /\ \A x \in ComparisonsIn(e) : Chosen(x, b) => x.index + 1 \in DOMAIN Bindings(e, b, memory)
<1> DEFINE Good(z) ==
             /\ \A k \in DOMAIN Bindings(z, b, memory) : \E x \in ComparisonsIn(z) :
                   Chosen(x, b) /\ k = x.index + 1 /\ Bindings(z, b, memory)[k] = memory[x.cell]
             /\ \A x \in ComparisonsIn(z) : Chosen(x, b) =>
                   x.index + 1 \in DOMAIN Bindings(z, b, memory)
           S == {z \in Expr : Good(z)}
<1>1. ASSUME NEW z \in Expr, z.kind # "logical" PROVE z \in S
  <2>1. ComparisonsIn(z) = {z}
    BY <1>1, ComparisonsInEquation
  <2>2. Bindings(z, b, memory) =
           [k \in IF Chosen(z, b) THEN {z.index + 1} ELSE {} |-> memory[z.cell]]
    BY <1>1, BindingsEquation DEF Chosen
  <2>3. CASE Chosen(z, b)
    BY <2>1, <2>2, <2>3
  <2>4. CASE ~Chosen(z, b)
    BY <2>1, <2>2, <2>4
  <2> QED BY <2>3, <2>4
<1>2. ASSUME NEW z \in Expr, z.kind = "logical", z.left \in S, z.right \in S PROVE z \in S
  <2> DEFINE l == Bindings(z.left, b, memory)
             r == Bindings(z.right, b, memory)
  <2>1. ComparisonsIn(z) = ComparisonsIn(z.left) \cup ComparisonsIn(z.right)
    BY <1>2, ComparisonsInEquation
  <2>2. Bindings(z, b, memory) =
           [k \in DOMAIN l \cup DOMAIN r |-> IF k \in DOMAIN r THEN r[k] ELSE l[k]]
    <3>1. z.kind = "logical"
      BY <1>2
    <3> HIDE DEF Good, S
    <3> QED BY <3>1, BindingsEquation, ZenonT(30)
  <2>3. Good(z.left) /\ Good(z.right)
    BY <1>2
  <2>4. /\ \A k \in DOMAIN l : \E x \in ComparisonsIn(z.left) :
              Chosen(x, b) /\ k = x.index + 1 /\ l[k] = memory[x.cell]
        /\ \A k \in DOMAIN r : \E x \in ComparisonsIn(z.right) :
              Chosen(x, b) /\ k = x.index + 1 /\ r[k] = memory[x.cell]
        /\ \A x \in ComparisonsIn(z.left) : Chosen(x, b) => x.index + 1 \in DOMAIN l
        /\ \A x \in ComparisonsIn(z.right) : Chosen(x, b) => x.index + 1 \in DOMAIN r
    BY <2>3
  <2> HIDE DEF l, r
  <2>5. Good(z)
    BY <2>1, <2>2, <2>4
  <2> QED BY <1>2, <2>5
<1> HIDE DEF S
<1>3. Expr \subseteq S
  BY <1>1, <1>2, ExprInduction
<1> QED
  BY <1>3 DEF S

\* bind puts the value of every operand that it selects into the parameter of
\* its comparison, and leaves the parameters of the others as they are.
THEOREM BindsEachParameter ==
    ASSUME NEW e \in Expr, NEW n \in Nat, NEW b, NEW memory, NEW slots,
           \A x \in ComparisonsIn(generateIndices(e, n)) :
              HasParameter(x) => x.index + 1 \in DOMAIN slots
    PROVE  LET after == bind(generateIndices(e, n), b, slots, memory) IN
           /\ DOMAIN after = DOMAIN slots
           /\ \A x \in ComparisonsIn(generateIndices(e, n)) : HasParameter(x) =>
                 after[x.index + 1] = IF x.param \in BindParameters[b] THEN memory[x.cell]
                                      ELSE slots[x.index + 1]
           /\ \A k \in DOMAIN slots : after[k] = slots[k] \/
                 \E x \in ComparisonsIn(generateIndices(e, n)) :
                    HasParameter(x) /\ k = x.index + 1 /\ after[k] = memory[x.cell]
<1> DEFINE i == generateIndices(e, n)
           vals == Bindings(i, b, memory)
           after == bind(i, b, slots, memory)
<1>1. after = [k \in DOMAIN slots |-> IF k \in DOMAIN vals THEN vals[k] ELSE slots[k]]
  BY DEF bind
<1>2. i \in Expr
  BY IndicesType
<1>3. /\ \A k \in DOMAIN vals : \E x \in ComparisonsIn(i) :
              Chosen(x, b) /\ k = x.index + 1 /\ vals[k] = memory[x.cell]
      /\ \A x \in ComparisonsIn(i) : Chosen(x, b) => x.index + 1 \in DOMAIN vals
  <2> HIDE DEF i
  <2> QED BY <1>2, BindingsFrom
<1>4. \A x, y \in ComparisonsIn(i) :
          HasParameter(x) /\ HasParameter(y) /\ y.index + 1 = x.index + 1 => y = x
  <2>1. \A x \in ComparisonsIn(i) : HasParameter(x) => x.index \in Int
    BY NumbersDistinct, ParametersType
  <2>2. \A x, y \in ComparisonsIn(i) : HasParameter(x) /\ HasParameter(y) /\ y.index = x.index => y = x
    BY NumbersDistinct
  <2> HIDE DEF i
  <2> QED BY <2>1, <2>2
<1> HIDE DEF i, vals, after
<1>5. ASSUME NEW x \in ComparisonsIn(i), HasParameter(x)
      PROVE after[x.index + 1] = IF x.param \in BindParameters[b] THEN memory[x.cell]
                                 ELSE slots[x.index + 1]
  <2>1. x.index + 1 \in DOMAIN slots
    BY <1>5 DEF i
  <2>2. CASE x.param \in BindParameters[b]
    BY <1>1, <1>3, <1>4, <1>5, <2>1, <2>2 DEF Chosen
  <2>3. CASE x.param \notin BindParameters[b]
    BY <1>1, <1>3, <1>4, <1>5, <2>1, <2>3 DEF Chosen
  <2> QED BY <2>2, <2>3
<1> QED
  BY <1>1, <1>3, <1>5 DEF i, after, Chosen


-----------------------------------------------------------------------------
(* The texts, and SQLite's reading of them.                                *)

Group(T) == [op : {"()"}, items : T]

LEMMA NestedTextEquation ==
    /\ NestedText[0] = Seq(Item)
    /\ \A n \in Nat : NestedText[n + 1] = Seq(Item \cup Group(NestedText[n]))
<1> DEFINE F == Defined("NestedText", Nat, 0)
<1>1. Local(Nat, Identity, "NestedText", 0)
  BY DEF Local, Body, Identity, NestedTextDef
<1>2. F = [n \in Nat |-> NestedTextDef(F, n, 0)]
  <2>1. F = [n \in Nat |-> Body("NestedText", F, n, 0)]
    BY <1>1, RecursiveOnNat
  <2> HIDE DEF F
  <2> QED BY <2>1 DEF Body
<1>3. NestedText = F
  BY DEF NestedText, Defined, Body, NestedTextDef
<1>4. \A n \in Nat : NestedText[n] = NestedTextDef(NestedText, n, 0)
  BY <1>2, <1>3
<1>5. NestedText[0] = Seq(Item)
  BY <1>4 DEF NestedTextDef
<1>6. ASSUME NEW n \in Nat PROVE NestedText[n + 1] = Seq(Item \cup Group(NestedText[n]))
  <2>1. n + 1 \in Nat /\ n + 1 # 0 /\ (n + 1) - 1 = n
    OBVIOUS
  <2> QED BY <1>4, <2>1 DEF NestedTextDef, Group
<1> QED
  BY <1>5, <1>6

LEMMA SeqGrows ==
    ASSUME NEW S, NEW T, S \subseteq T
    PROVE  Seq(S) \subseteq Seq(T)
OBVIOUS

LEMMA TextsGrow ==
    ASSUME NEW n \in Nat
    PROVE  NestedText[n] \subseteq NestedText[n + 1]
<1> DEFINE S == {k \in Nat : NestedText[k] \subseteq NestedText[k + 1]}
<1>1. 0 \in S
  <2>1. NestedText[0 + 1] = Seq(Item \cup Group(NestedText[0])) /\ NestedText[0] = Seq(Item)
    BY NestedTextEquation
  <2> HIDE DEF S
  <2>2. NestedText[0] \subseteq NestedText[0 + 1]
    BY <2>1, SeqGrows
  <2> QED BY <2>2 DEF S
<1>2. ASSUME NEW k \in Nat, k \in S PROVE k + 1 \in S
  <2>1. Item \cup Group(NestedText[k]) \subseteq Item \cup Group(NestedText[k + 1])
    BY <1>2 DEF Group
  <2>2. NestedText[k + 1] = Seq(Item \cup Group(NestedText[k]))
        /\ NestedText[k + 1 + 1] = Seq(Item \cup Group(NestedText[k + 1])) /\ k + 1 \in Nat
    BY NestedTextEquation
  <2> QED BY <2>1, <2>2, SeqGrows
<1> HIDE DEF S
<1>3. n \in S
  BY <1>1, <1>2, Induction
<1> QED
  BY <1>3 DEF S

LEMMA TextsWithin ==
    ASSUME NEW n \in Nat, NEW m \in Nat, n <= m
    PROVE  NestedText[n] \subseteq NestedText[m]
<1> DEFINE S == {k \in Nat : n <= k => NestedText[n] \subseteq NestedText[k]}
<1>1. 0 \in S
  BY n = 0 \/ ~(n <= 0)
<1>2. ASSUME NEW k \in Nat, k \in S PROVE k + 1 \in S
  <2>1. NestedText[k] \subseteq NestedText[k + 1]
    BY TextsGrow
  <2>2. n <= k + 1 => n <= k \/ n = k + 1
    OBVIOUS
  <2> QED BY <1>2, <2>1, <2>2
<1> HIDE DEF S
<1>3. m \in S
  BY <1>1, <1>2, Induction
<1> QED
  BY <1>3 DEF S

\* The items of a text, and what a group holds.
LEMMA ItemsOfText ==
    ASSUME NEW n \in Nat, NEW t \in NestedText[n], NEW k \in DOMAIN t
    PROVE  t[k].op = "()" => n # 0 /\ t[k].items \in NestedText[n - 1]
<1>1. \A x \in Item : x.op # "()"
  BY DEF Item, Operator
<1>2. CASE n = 0
  BY <1>1, <1>2, NestedTextEquation
<1>3. CASE n # 0
  <2>1. n - 1 \in Nat /\ (n - 1) + 1 = n
    BY <1>3
  <2>2. NestedText[n] = Seq(Item \cup Group(NestedText[n - 1]))
    BY <2>1, NestedTextEquation
  <2>3. t[k] \in Item \cup Group(NestedText[n - 1])
    BY <2>2
  <2> QED BY <1>1, <1>3, <2>3 DEF Group
<1> QED
  BY <1>2, <1>3

\* The nesting of a text.
TextDepth(t) ==
    CHOOSE n \in Nat : t \in NestedText[n] /\ \A k \in Nat : t \in NestedText[k] => ~(k < n)

LEMMA TextDepthDefined ==
    ASSUME NEW n \in Nat, NEW t \in NestedText[n]
    PROVE  TextDepth(t) \in Nat /\ TextDepth(t) <= n /\ t \in NestedText[TextDepth(t)]
<1> DEFINE S == {k \in Nat : t \in NestedText[k]}
<1>1. S \subseteq Nat /\ S # {}
  OBVIOUS
<1>2. \E m \in S : \A k \in S : ~(k < m)
  <2> HIDE DEF S
  <2> QED BY <1>1, Smallest
<1>3. \E m \in Nat : t \in NestedText[m] /\ \A k \in Nat : t \in NestedText[k] => ~(k < m)
  BY <1>2
<1>4. TextDepth(t) \in Nat /\ t \in NestedText[TextDepth(t)]
      /\ \A k \in Nat : t \in NestedText[k] => ~(k < TextDepth(t))
  BY <1>3 DEF TextDepth
<1> QED
  BY <1>4

\* What is in parentheses is a text of less depth.
LEMMA InnerText ==
    ASSUME NEW t \in SqlText
    PROVE  /\ TextDepth(t) \in Nat
           /\ \A k \in DOMAIN t : t[k].op = "()" =>
                 t[k].items \in SqlText /\ TextDepth(t[k].items) < TextDepth(t)
<1> DEFINE n == TextDepth(t)
<1>1. n \in Nat /\ n <= MaxDepth /\ t \in NestedText[n]
  BY TextDepthDefined, DepthAssumption DEF SqlText
<1> HIDE DEF n
<1>2. ASSUME NEW k \in DOMAIN t, t[k].op = "()"
      PROVE  t[k].items \in SqlText /\ TextDepth(t[k].items) < n
  <2>1. n # 0 /\ n - 1 \in Nat /\ n - 1 <= MaxDepth /\ t[k].items \in NestedText[n - 1]
    BY <1>1, <1>2, ItemsOfText, DepthAssumption
  <2>2. TextDepth(t[k].items) \in Nat /\ TextDepth(t[k].items) <= n - 1
    BY <2>1, TextDepthDefined
  <2>3. t[k].items \in SqlText
    BY <2>1, TextsWithin, DepthAssumption DEF SqlText
  <2> QED BY <1>1, <2>2, <2>3
<1> QED
  BY <1>1, <1>2 DEF n


ItemTruth(t, k, group, slots) ==
    IF t[k].op = "()" THEN Sql(t[k].items, group, slots)
    ELSE Compare(OperandOf(t[k].left, <<group, slots>>), t[k].op,
                 OperandOf(t[k].right, <<group, slots>>))

TextTruth(t, group, slots) ==
    Max({Min({ItemTruth(t, j, group, slots) : j \in Anded(t, k)}) : k \in Operands(t)})

TextDepths == [t \in SqlText |-> TextDepth(t)]

LEMMA RecursiveOnText ==
    ASSUME NEW name, NEW p, Local(SqlText, TextDepths, name, p)
    PROVE  Defined(name, SqlText, p) =
               [t \in SqlText |-> Body(name, Defined(name, SqlText, p), t, p)]
<1>1. \A t \in SqlText : TextDepths[t] \in Nat
  BY InnerText DEF TextDepths
<1> QED
  BY <1>1, Recursive

LEMMA SqlEquation ==
    ASSUME NEW t \in SqlText, NEW group, NEW slots
    PROVE  Sql(t, group, slots) = TextTruth(t, group, slots)
<1> DEFINE p == <<group, slots>>
           F == Defined("Sql", SqlText, p)
           V(k) == ItemTruth(t, k, group, slots)
<1>1. Local(SqlText, TextDepths, "Sql", p)
  <2> SUFFICES ASSUME NEW f, NEW g, NEW x \in SqlText,
                      \A y \in SqlText : TextDepth(y) < TextDepth(x) => f[y] = g[y]
               PROVE  SqlDef(f, x, p) = SqlDef(g, x, p)
    BY DEF Local, Body, TextDepths
  <2>1. \A k \in Operands(x) : TruthOf(f, x, k, p) = TruthOf(g, x, k, p)
    BY InnerText DEF TruthOf, Operands
  <2>2. \A k : Anded(x, k) \subseteq Operands(x)
    BY DEF Anded
  <2>3. \A k : {TruthOf(f, x, j, p) : j \in Anded(x, k)} = {TruthOf(g, x, j, p) : j \in Anded(x, k)}
    BY <2>1, <2>2
  <2> QED BY <2>3 DEF SqlDef
<1>2. F = [x \in SqlText |-> SqlDef(F, x, p)]
  <2>1. F = [x \in SqlText |-> Body("Sql", F, x, p)]
    BY <1>1, RecursiveOnText
  <2> HIDE DEF F
  <2> QED BY <2>1 DEF Body
<1>3. \A x \in SqlText : Sql(x, group, slots) = F[x]
  BY DEF Sql, Defined, Body, SqlDef, TruthOf, OperandOf, Operands, Anded
<1> HIDE DEF F
<1>4. Sql(t, group, slots) = SqlDef(F, t, p)
  BY <1>2, <1>3
<1>5. \A k \in Operands(t) : TruthOf(F, t, k, p) = V(k)
  BY <1>3, InnerText DEF TruthOf, Operands, ItemTruth
<1>6. \A k : Anded(t, k) \subseteq Operands(t)
  BY DEF Anded
<1> HIDE DEF V, p
<1>7. \A k : {TruthOf(F, t, j, p) : j \in Anded(t, k)} = {V(j) : j \in Anded(t, k)}
  BY <1>5, <1>6
<1>8. Sql(t, group, slots) = Max({Min({V(j) : j \in Anded(t, k)}) : k \in Operands(t)})
  BY <1>4, <1>7 DEF SqlDef
<1> QED
  BY <1>8 DEF V, TextTruth

-----------------------------------------------------------------------------
(* The text of an expression, read by SQLite.                              *)

TruthValue == {0, 1, 2}

LEMMA CompareType ==
    \A x, op, y : Compare(x, op, y) \in TruthValue
BY DEF Compare, Truth, TruthValue

LEMMA AgreesType ==
    \A x, group, value : Agrees(x, group, value) \in TruthValue
BY CompareType DEF Agrees, Truth, TruthValue

LEMMA ExtremesOfOne ==
    ASSUME NEW v \in TruthValue
    PROVE  Min({v}) = v /\ Max({v}) = v
<1>1. \E x \in {v} : \A y \in {v} : x <= y
  BY DEF TruthValue
<1>2. \E x \in {v} : \A y \in {v} : x >= y
  BY DEF TruthValue
<1>3. Min({v}) \in {v}
  BY <1>1 DEF Min
<1>4. Max({v}) \in {v}
  BY <1>2 DEF Max
<1> QED
  BY <1>3, <1>4

LEMMA ExtremesOfTwo ==
    ASSUME NEW v \in TruthValue, NEW w \in TruthValue
    PROVE  Min({v, w}) = Smaller(v, w) /\ Max({v, w}) = Larger(v, w)
<1>1. \E x \in {v, w} : \A y \in {v, w} : x <= y
  BY DEF TruthValue
<1>2. \E x \in {v, w} : \A y \in {v, w} : x >= y
  BY DEF TruthValue
<1>3. Min({v, w}) \in {v, w} /\ Min({v, w}) <= v /\ Min({v, w}) <= w
  BY <1>1 DEF Min
<1>4. Max({v, w}) \in {v, w} /\ Max({v, w}) >= v /\ Max({v, w}) >= w
  BY <1>2 DEF Max
<1> QED
  BY <1>3, <1>4 DEF Smaller, Larger, TruthValue

LEMMA TextIsSeq ==
    ASSUME NEW t \in SqlText
    PROVE  \E T : t \in Seq(T)
<1>1. CASE MaxDepth = 0
  BY <1>1, NestedTextEquation DEF SqlText
<1>2. CASE MaxDepth # 0
  <2>1. MaxDepth - 1 \in Nat /\ (MaxDepth - 1) + 1 = MaxDepth
    BY <1>2, DepthAssumption
  <2> QED BY <2>1, NestedTextEquation DEF SqlText
<1> QED
  BY <1>1, <1>2

\* One item is read as it is.
LEMMA SqlOfOne ==
    ASSUME NEW t \in SqlText, Len(t) = 1, t[1].op \notin {"AND", "OR"}, NEW group, NEW slots,
           t[1].op = "()" => Sql(t[1].items, group, slots) \in TruthValue
    PROVE  Sql(t, group, slots) =
              IF t[1].op = "()" THEN Sql(t[1].items, group, slots)
              ELSE Compare(OperandOf(t[1].left, <<group, slots>>), t[1].op,
                           OperandOf(t[1].right, <<group, slots>>))
<1> DEFINE V(k) == ItemTruth(t, k, group, slots)
<1>1. Sql(t, group, slots) = Max({Min({V(j) : j \in Anded(t, k)}) : k \in Operands(t)})
  <2>1. Sql(t, group, slots) = TextTruth(t, group, slots)
    BY SqlEquation
  <2> QED BY <2>1 DEF TextTruth
<1>2. DOMAIN t = {1}
  BY TextIsSeq
<1>3. Operands(t) = {1} /\ Anded(t, 1) = {1}
  BY <1>2 DEF Operands, Anded
<1>4. V(1) \in TruthValue
  BY CompareType DEF ItemTruth
<1> HIDE DEF V
<1>5. {V(j) : j \in Anded(t, 1)} = {V(1)}
  BY <1>3
<1>6. {Min({V(j) : j \in Anded(t, k)}) : k \in Operands(t)} = {Min({V(1)})}
  BY <1>3, <1>5
<1>7. Sql(t, group, slots) = V(1)
  BY <1>1, <1>4, <1>6, ExtremesOfOne
<1> QED
  BY <1>7 DEF V, ItemTruth

LEMMA ThreeItems ==
    ASSUME NEW l, NEW m, NEW r
    PROVE  LET t == <<l>> \o <<m>> \o <<r>> IN
           /\ t \in Seq({l, m, r}) /\ DOMAIN t = {1, 2, 3}
           /\ t[1] = l /\ t[2] = m /\ t[3] = r
<1> DEFINE S == {l, m, r}
           u == <<l>> \o <<m>>
           t == u \o <<r>>
<1>1. <<l>> \in Seq(S) /\ <<m>> \in Seq(S) /\ <<r>> \in Seq(S)
  OBVIOUS
<1> HIDE DEF S
<1>2. u \in Seq(S) /\ Len(u) = 2 /\ \A i \in 1 .. 2 : u[i] = IF i <= 1 THEN <<l>>[i] ELSE <<m>>[i - 1]
  BY <1>1, ConcatProperties, Len(<<l>>) = 1, Len(<<m>>) = 1
<1> HIDE DEF u
<1>3. t \in Seq(S) /\ Len(t) = 3 /\ \A i \in 1 .. 3 : t[i] = IF i <= 2 THEN u[i] ELSE <<r>>[i - 2]
  BY <1>1, <1>2, ConcatProperties, Len(<<r>>) = 1
<1>4. u[1] = l /\ u[2] = m
  BY <1>2
<1>5. t[1] = l /\ t[2] = m /\ t[3] = r
  BY <1>3, <1>4
<1>6. DOMAIN t = {1, 2, 3}
  BY <1>3
<1> QED
  BY <1>3, <1>5, <1>6 DEF u, S

\* Two items are connected with AND or OR.
LEMMA SqlOfTwo ==
    ASSUME NEW l, NEW r, NEW op \in {"AND", "OR"}, NEW group, NEW slots,
           <<l>> \in SqlText, <<r>> \in SqlText, <<l>> \o Connective(op) \o <<r>> \in SqlText,
           l.op \notin {"AND", "OR"}, r.op \notin {"AND", "OR"},
           Sql(<<l>>, group, slots) \in TruthValue, Sql(<<r>>, group, slots) \in TruthValue,
           l.op = "()" => Sql(l.items, group, slots) \in TruthValue,
           r.op = "()" => Sql(r.items, group, slots) \in TruthValue
    PROVE  Sql(<<l>> \o Connective(op) \o <<r>>, group, slots) =
              IF op = "AND" THEN Smaller(Sql(<<l>>, group, slots), Sql(<<r>>, group, slots))
              ELSE Larger(Sql(<<l>>, group, slots), Sql(<<r>>, group, slots))
<1> DEFINE t == <<l>> \o Connective(op) \o <<r>>
           V(k) == ItemTruth(t, k, group, slots)
           x == Sql(<<l>>, group, slots)
           y == Sql(<<r>>, group, slots)
<1>1. DOMAIN t = {1, 2, 3} /\ t[1] = l /\ t[2] = [op |-> op] /\ t[3] = r
  BY ThreeItems DEF Connective
<1>2. DOMAIN t = {1, 2, 3} /\ t[1] = l /\ t[2].op = op /\ t[3] = r
  BY <1>1
<1>3. Sql(t, group, slots) = Max({Min({V(j) : j \in Anded(t, k)}) : k \in Operands(t)})
  <2>1. Sql(t, group, slots) = TextTruth(t, group, slots)
    BY SqlEquation
  <2> QED BY <2>1 DEF TextTruth
<1>4. V(1) = x
  <2>1. Len(<<l>>) = 1 /\ <<l>>[1] = l
    OBVIOUS
  <2> HIDE DEF t
  <2> QED BY <1>2, <2>1, SqlOfOne DEF ItemTruth
<1>5. V(3) = y
  <2>1. Len(<<r>>) = 1 /\ <<r>>[1] = r
    OBVIOUS
  <2> HIDE DEF t
  <2> QED BY <1>2, <2>1, SqlOfOne DEF ItemTruth
<1>6. Operands(t) = {1, 3}
  <2> HIDE DEF t
  <2> QED BY <1>2 DEF Operands
<1> HIDE DEF t, V
<1>7. CASE op = "AND"
  <2>1. Anded(t, 1) = {1, 3} /\ Anded(t, 3) = {1, 3}
    BY <1>2, <1>6, <1>7 DEF Anded
  <2>2. {Min({V(j) : j \in Anded(t, k)}) : k \in Operands(t)} = {Min({V(1), V(3)})}
    BY <1>6, <2>1
  <2>3. Smaller(x, y) \in TruthValue
    BY DEF Smaller
  <2>4. Min({V(1), V(3)}) = Smaller(x, y)
    BY <1>4, <1>5, ExtremesOfTwo
  <2>5. Sql(t, group, slots) = Max({Smaller(x, y)})
    BY <1>3, <2>2, <2>4
  <2> QED BY <1>7, <2>3, <2>5, ExtremesOfOne DEF t
<1>8. CASE op = "OR"
  <2>1. Anded(t, 1) = {1} /\ Anded(t, 3) = {3}
    BY <1>2, <1>6, <1>8 DEF Anded
  <2>2. {Min({V(j) : j \in Anded(t, k)}) : k \in Operands(t)} = {Min({V(1)}), Min({V(3)})}
    BY <1>6, <2>1
  <2>3. Min({V(1)}) = x /\ Min({V(3)}) = y
    BY <1>4, <1>5, ExtremesOfOne
  <2>4. Sql(t, group, slots) = Max({x, y})
    BY <1>3, <2>2, <2>3
  <2>5. Max({x, y}) = Larger(x, y)
    BY ExtremesOfTwo
  <2> QED BY <1>8, <2>4, <2>5 DEF t
<1> QED
  BY <1>7, <1>8


\* The items of a text of nesting k.
ItemsAt(k) == IF k = 0 THEN Item ELSE Item \cup Group(NestedText[k - 1])

LEMMA TextAt ==
    ASSUME NEW k \in Nat
    PROVE  /\ NestedText[k] = Seq(ItemsAt(k)) /\ Item \subseteq ItemsAt(k)
           /\ ItemsAt(k + 1) = Item \cup Group(NestedText[k]) /\ ItemsAt(k) \subseteq ItemsAt(k + 1)
<1>1. ASSUME NEW n \in Nat PROVE NestedText[n] = Seq(ItemsAt(n)) /\ Item \subseteq ItemsAt(n)
  <2>1. CASE n = 0
    BY <2>1, NestedTextEquation DEF ItemsAt
  <2>2. CASE n # 0
    <3>1. n - 1 \in Nat /\ (n - 1) + 1 = n
      BY <2>2
    <3> QED BY <2>2, <3>1, NestedTextEquation DEF ItemsAt
  <2> QED BY <2>1, <2>2
<1>2. ItemsAt(k + 1) = Item \cup Group(NestedText[k])
  <2>1. k + 1 # 0 /\ (k + 1) - 1 = k
    OBVIOUS
  <2> QED BY <2>1 DEF ItemsAt
<1>3. ItemsAt(k) \subseteq ItemsAt(k + 1)
  <2>1. CASE k = 0
    BY <1>2, <2>1 DEF ItemsAt
  <2>2. CASE k # 0
    <3>1. k - 1 \in Nat /\ (k - 1) + 1 = k
      BY <2>2
    <3>2. NestedText[k - 1] \subseteq NestedText[k]
      BY <3>1, TextsGrow
    <3> QED BY <1>2, <2>2, <3>2 DEF ItemsAt, Group
  <2> QED BY <2>1, <2>2
<1> QED
  BY <1>1, <1>2, <1>3

\* The text of a comparison is one term.
LEMMA SimpleTextType ==
    ASSUME NEW x \in Simple
    PROVE  \E it \in Item : SimpleText(x) = <<it>> /\ it.op \notin {"AND", "OR", "()"}
<1> DEFINE Operand == Column \cup [func : {"?"}, index : Int]
           Terms == [op : Operator \cup {"LIKE", "IS NULL", "IS NOT NULL"}, left : Operand,
                     right : Operand]
<1>1. \A it \in Terms : it \in Item /\ it.op \notin {"AND", "OR", "()"}
  BY DEF Item, Operator
<1>2. CASE x.kind = "columns"
  <2>1. x.left \in Column /\ x.right \in Column /\ x.op \in Operator
    BY <1>2 DEF Simple
  <2>2. [op |-> x.op, left |-> x.left, right |-> x.right] \in Terms
    BY <2>1
  <2> QED BY <1>1, <1>2, <2>2 DEF SimpleText, Term
<1>3. CASE x.kind # "columns" /\ x.param = "nullptr"
  <2>1. x.col \in Column
    BY <1>3 DEF Simple
  <2>2. \A o \in {"IS NULL", "IS NOT NULL"} : [op |-> o, left |-> x.col, right |-> x.col] \in Terms
    BY <2>1
  <2> QED BY <1>1, <1>3, <2>2 DEF SimpleText, ComparisonText, Term
<1>4. CASE x.kind # "columns" /\ x.param # "nullptr"
  <2>1. x.col \in Column /\ x.index \in Int /\ x.op \in Operator \cup {"LIKE"}
    BY <1>4 DEF Simple
  <2>2. Slot(x.index + 1) \in Operand
    BY <2>1 DEF Slot
  <2>3. /\ [op |-> x.op, left |-> x.col, right |-> Slot(x.index + 1)] \in Terms
        /\ [op |-> x.op, left |-> Slot(x.index + 1), right |-> x.col] \in Terms
    BY <2>1, <2>2
  <2> QED BY <1>1, <1>4, <2>3 DEF SimpleText, ComparisonText, Term
<1> QED
  BY <1>2, <1>3, <1>4

\* The text of an expression is one item: a term or a group.
LEMMA TextType ==
    ASSUME NEW e \in Expr
    PROVE  toString(e) \in SqlText /\ \E it : toString(e) = <<it>> /\ it.op \notin {"AND", "OR"}
<1> DEFINE One(x, k) == \E it \in ItemsAt(k) : toString(x) = <<it>> /\ it.op \notin {"AND", "OR"}
           S == {k \in Nat : \A x \in Nested[k] : x \in Expr => One(x, k)}
<1>1. 0 \in S
  <2> SUFFICES ASSUME NEW x \in Simple, x \in Expr PROVE One(x, 0)
    BY NestedEquation
  <2>1. toString(x) = SimpleText(x)
    BY toStringEquation DEF Simple
  <2> QED BY <2>1, SimpleTextType DEF ItemsAt
<1>2. ASSUME NEW k \in Nat, k \in S PROVE k + 1 \in S
  <2> SUFFICES ASSUME NEW x \in Nested[k + 1], x \in Expr PROVE One(x, k + 1)
    OBVIOUS
  <2>1. CASE x \in Nested[k]
    <3>1. One(x, k)
      BY <1>2, <2>1
    <3> QED BY <3>1, TextAt
  <2>2. CASE x \in LogicalOf(Nested[k])
    <3>1. /\ x.kind = "logical" /\ x.left \in Nested[k] /\ x.right \in Nested[k]
          /\ x.op \in {"AND", "OR"}
      BY <2>2 DEF LogicalOf
    <3>2. x.left \in Expr /\ x.right \in Expr
      BY <3>1, Sides
    <3>3. PICK l \in ItemsAt(k) : toString(x.left) = <<l>>
      BY <1>2, <3>1, <3>2
    <3>4. PICK r \in ItemsAt(k) : toString(x.right) = <<r>>
      BY <1>2, <3>1, <3>2
    <3> DEFINE m == [op |-> x.op]
               t == <<l>> \o <<m>> \o <<r>>
               it == [op |-> "()", items |-> t]
    <3>5. m \in ItemsAt(k)
      BY <3>1, TextAt DEF Item
    <3>6. t \in Seq({l, m, r})
      BY ThreeItems
    <3> HIDE DEF t
    <3>7. t \in NestedText[k]
      <4>1. {l, m, r} \subseteq ItemsAt(k)
        BY <3>5
      <4>2. Seq({l, m, r}) \subseteq Seq(ItemsAt(k))
        BY <4>1, SeqGrows
      <4> QED BY <3>6, <4>2, TextAt
    <3>8. it \in ItemsAt(k + 1) /\ it.op \notin {"AND", "OR"}
      BY <3>7, TextAt DEF Group
    <3>9. toString(x) = <<it>>
      <4>1. toString(x) = Parenthesised(<<l>> \o Connective(x.op) \o <<r>>)
        BY <3>1, <3>3, <3>4, toStringEquation
      <4> QED BY <4>1 DEF Parenthesised, Connective, t
    <3> QED BY <3>8, <3>9
  <2> QED BY <2>1, <2>2, NestedEquation
<1> HIDE DEF S
<1>3. MaxDepth \in S
  BY <1>1, <1>2, Induction, DepthAssumption
<1>4. PICK it \in ItemsAt(MaxDepth) : toString(e) = <<it>> /\ it.op \notin {"AND", "OR"}
  BY <1>3 DEF S, Expr
<1>5. <<it>> \in Seq(ItemsAt(MaxDepth))
  OBVIOUS
<1> QED
  BY <1>4, <1>5, TextAt, DepthAssumption DEF SqlText


LEMMA HoldsType ==
    ASSUME NEW e \in Expr, NEW group, NEW value
    PROVE  Holds(e, group, value) \in TruthValue
<1> DEFINE S == {z \in Expr : Holds(z, group, value) \in TruthValue}
<1>1. ASSUME NEW z \in Expr, z.kind # "logical" PROVE z \in S
  BY <1>1, HoldsEquation, AgreesType
<1>2. ASSUME NEW z \in Expr, z.kind = "logical", z.left \in S, z.right \in S PROVE z \in S
  BY <1>2, HoldsEquation DEF Smaller, Larger
<1> HIDE DEF S
<1>3. Expr \subseteq S
  BY <1>1, <1>2, ExprInduction
<1> QED
  BY <1>3 DEF S

\* If SQLite reads the text of every comparison of a filter as the program reads
\* the comparison, then it reads the text of the filter as the program reads the
\* filter: the parentheses of toString keep && and || as they are nested in the
\* C++ expression, whatever SQLite's precedence.
THEOREM SqlIsHolds ==
    ASSUME NEW e \in Expr, NEW group, NEW slots, NEW meant, NEW value,
           \A x \in ComparisonsIn(e) : Sql(SimpleText(x), group, slots) = Agrees(x, meant, value)
    PROVE  Sql(toString(e), group, slots) = Holds(e, meant, value)
<1> DEFINE Read(z) ==
             /\ Sql(toString(z), group, slots) = Holds(z, meant, value)
             /\ toString(z)[1].op = "()" =>
                   Sql(toString(z)[1].items, group, slots) = Holds(z, meant, value)
           S == {z \in Expr : (\A x \in ComparisonsIn(z) :
                    Sql(SimpleText(x), group, slots) = Agrees(x, meant, value)) => Read(z)}
<1>1. ASSUME NEW z \in Expr, z.kind # "logical" PROVE z \in S
  <2> SUFFICES ASSUME Sql(SimpleText(z), group, slots) = Agrees(z, meant, value) PROVE Read(z)
    BY <1>1, ComparisonsInEquation
  <2>1. toString(z) = SimpleText(z) /\ Holds(z, meant, value) = Agrees(z, meant, value)
    BY <1>1, toStringEquation, HoldsEquation
  <2>2. toString(z)[1].op # "()"
    <3>1. PICK it : toString(z) = <<it>> /\ it.op # "()"
      BY <1>1, <2>1, Sides, SimpleTextType
    <3> QED BY <3>1
  <2> QED BY <2>1, <2>2
<1>2. ASSUME NEW z \in Expr, z.kind = "logical", z.left \in S, z.right \in S PROVE z \in S
  <2> SUFFICES ASSUME \A x \in ComparisonsIn(z) :
                         Sql(SimpleText(x), group, slots) = Agrees(x, meant, value)
               PROVE  Read(z)
    OBVIOUS
  <2>1. z.left \in Expr /\ z.right \in Expr /\ z.op \in {"AND", "OR"}
    BY <1>2, Sides
  <2>2. Read(z.left) /\ Read(z.right)
    <3>1. ComparisonsIn(z) = ComparisonsIn(z.left) \cup ComparisonsIn(z.right)
      BY <1>2, ComparisonsInEquation
    <3> HIDE DEF Read
    <3> QED BY <1>2, <3>1
  <2>3. PICK l : toString(z.left) = <<l>> /\ l.op \notin {"AND", "OR"}
    BY <2>1, TextType
  <2>4. PICK r : toString(z.right) = <<r>> /\ r.op \notin {"AND", "OR"}
    BY <2>1, TextType
  <2> DEFINE t == <<l>> \o Connective(z.op) \o <<r>>
             it == [op |-> "()", items |-> t]
             x == Holds(z.left, meant, value)
             y == Holds(z.right, meant, value)
  <2>5. x \in TruthValue /\ y \in TruthValue
    BY <2>1, HoldsType
  <2>6. Sql(<<l>>, group, slots) = x /\ Sql(<<r>>, group, slots) = y
    BY <2>2, <2>3, <2>4
  <2>7. /\ l.op = "()" => Sql(l.items, group, slots) = x
        /\ r.op = "()" => Sql(r.items, group, slots) = y
    BY <2>2, <2>3, <2>4
  <2>8. <<l>> \in SqlText /\ <<r>> \in SqlText
    BY <2>1, <2>3, <2>4, TextType
  <2>9. toString(z) = <<it>> /\ toString(z) \in SqlText
    <3>1. toString(z) = Parenthesised(<<l>> \o Connective(z.op) \o <<r>>)
      BY <1>2, <2>3, <2>4, toStringEquation
    <3>2. toString(z) \in SqlText
      BY TextType
    <3> QED BY <3>1, <3>2 DEF Parenthesised
  <2>10. t \in SqlText
    <3> HIDE DEF t
    <3>1. 1 \in DOMAIN toString(z) /\ toString(z)[1] = it
      BY <2>9
    <3>2. toString(z)[1].items = t /\ toString(z)[1].op = "()"
      BY <3>1
    <3> QED BY <2>9, <3>1, <3>2, InnerText
  <2> HIDE DEF x, y, Read, S
  <2>11. Sql(t, group, slots) = IF z.op = "AND" THEN Smaller(x, y) ELSE Larger(x, y)
    <3>1. Sql(<<l>>, group, slots) \in TruthValue /\ Sql(<<r>>, group, slots) \in TruthValue
      BY <2>5, <2>6
    <3>2. /\ l.op = "()" => Sql(l.items, group, slots) \in TruthValue
          /\ r.op = "()" => Sql(r.items, group, slots) \in TruthValue
      BY <2>5, <2>7
    <3>3. Sql(t, group, slots) =
             IF z.op = "AND" THEN Smaller(Sql(<<l>>, group, slots), Sql(<<r>>, group, slots))
             ELSE Larger(Sql(<<l>>, group, slots), Sql(<<r>>, group, slots))
      BY <2>1, <2>3, <2>4, <2>8, <2>10, <3>1, <3>2, SqlOfTwo
    <3> QED BY <2>6, <3>3
  <2>12. Holds(z, meant, value) = IF z.op = "AND" THEN Smaller(x, y) ELSE Larger(x, y)
    BY <1>2, HoldsEquation DEF x, y
  <2> HIDE DEF t
  <2>13. it.op = "()" /\ it.items = t
    OBVIOUS
  <2> HIDE DEF it
  <2>14. Len(toString(z)) = 1 /\ toString(z)[1] = it
    BY <2>9
  <2>15. Holds(z, meant, value) \in TruthValue
    BY HoldsType
  <2>16. Sql(toString(z), group, slots) = Sql(t, group, slots)
    BY <2>9, <2>11, <2>12, <2>13, <2>14, <2>15, SqlOfOne
  <2> QED BY <2>11, <2>12, <2>13, <2>14, <2>16 DEF Read
<1> HIDE DEF S
<1>3. Expr \subseteq S
  BY <1>1, <1>2, ExprInduction
<1> QED
  BY <1>3 DEF S


\* What SQLite makes of the text of a comparison.
LEMMA SqlOfSimple ==
    ASSUME NEW x \in Simple, x \in Expr, NEW group, NEW slots
    PROVE  Sql(SimpleText(x), group, slots) =
              IF x.kind = "columns" THEN Compare(ValueOf(x.left, group), x.op, ValueOf(x.right, group))
              ELSE IF x.param = "nullptr" THEN Truth((x.op = "=") <=> (ValueOf(x.col, group) = Null))
              ELSE IF x.lhs THEN Compare(ValueOf(x.col, group), x.op, slots[x.index + 1])
              ELSE Compare(slots[x.index + 1], x.op, ValueOf(x.col, group))
<1>1. PICK it \in Item : SimpleText(x) = <<it>> /\ it.op \notin {"AND", "OR", "()"}
  BY SimpleTextType
<1>2. SimpleText(x) \in SqlText
  <2>1. x.kind # "logical"
    BY DEF Simple
  <2> QED BY <2>1, toStringEquation, TextType
<1>3. Len(SimpleText(x)) = 1 /\ SimpleText(x)[1] = it
  BY <1>1
<1> DEFINE p == <<group, slots>>
<1>4. Sql(SimpleText(x), group, slots) = Compare(OperandOf(it.left, p), it.op, OperandOf(it.right, p))
  BY <1>1, <1>2, <1>3, SqlOfOne
<1>5. \A c \in Column : OperandOf(c, p) = ValueOf(c, group)
  BY DEF OperandOf, Column
<1>6. \A i : OperandOf(Slot(i), p) = slots[i]
  BY DEF OperandOf, Slot
<1>7. CASE x.kind = "columns"
  <2>1. x.left \in Column /\ x.right \in Column
    BY <1>7 DEF Simple
  <2>2. it = [op |-> x.op, left |-> x.left, right |-> x.right]
    BY <1>3, <1>7 DEF SimpleText, Term
  <2>3. it.op = x.op /\ it.left = x.left /\ it.right = x.right
    BY <2>2
  <2> QED BY <1>4, <1>5, <1>7, <2>1, <2>3
<1>8. CASE x.kind # "columns" /\ x.param = "nullptr"
  <2>1. x.col \in Column
    BY <1>8 DEF Simple
  <2>2. it = [op |-> IF x.op = "=" THEN "IS NULL" ELSE "IS NOT NULL", left |-> x.col, right |-> x.col]
    BY <1>3, <1>8 DEF SimpleText, ComparisonText, Term
  <2>3. it.op = (IF x.op = "=" THEN "IS NULL" ELSE "IS NOT NULL") /\ it.left = x.col
    BY <2>2
  <2>4. OperandOf(it.left, p) = ValueOf(x.col, group)
    BY <1>5, <2>1, <2>3
  <2> HIDE DEF p
  <2>5. Compare(OperandOf(it.left, p), it.op, OperandOf(it.right, p))
           = Truth((x.op = "=") <=> (ValueOf(x.col, group) = Null))
    BY <2>3, <2>4 DEF Compare, Truth
  <2> QED BY <1>4, <1>8, <2>5
<1>9. CASE x.kind # "columns" /\ x.param # "nullptr"
  <2>1. x.col \in Column
    BY <1>9 DEF Simple
  <2>2. it = IF x.lhs THEN [op |-> x.op, left |-> x.col, right |-> Slot(x.index + 1)]
             ELSE [op |-> x.op, left |-> Slot(x.index + 1), right |-> x.col]
    BY <1>3, <1>9 DEF SimpleText, ComparisonText, Term
  <2>3. CASE x.lhs
    <3>1. it.op = x.op /\ it.left = x.col /\ it.right = Slot(x.index + 1)
      BY <2>2, <2>3
    <3>2. Sql(SimpleText(x), group, slots) = Compare(ValueOf(x.col, group), x.op, slots[x.index + 1])
      BY <1>4, <1>5, <1>6, <2>1, <3>1
    <3> QED BY <1>9, <2>3, <3>2
  <2>4. CASE ~x.lhs
    <3>1. it.op = x.op /\ it.left = Slot(x.index + 1) /\ it.right = x.col
      BY <2>2, <2>4
    <3>2. Sql(SimpleText(x), group, slots) = Compare(slots[x.index + 1], x.op, ValueOf(x.col, group))
      BY <1>4, <1>5, <1>6, <2>1, <3>1
    <3> QED BY <1>9, <2>4, <3>2
  <2> QED BY <2>3, <2>4
<1> QED
  BY <1>7, <1>8, <1>9

\* SQLite evaluates the text of a numbered filter with its parameters to what
\* the program meant, on every group of rows: if each parameter holds the value
\* of its operand, the two readings agree.
THEOREM FilterAsMeant ==
    ASSUME NEW e \in Expr, NEW n \in Nat, NEW group, NEW slots, NEW value,
           \A x \in ComparisonsIn(generateIndices(e, n)) :
              HasParameter(x) => slots[x.index + 1] = value[x.cell]
    PROVE  Sql(toString(generateIndices(e, n)), group, slots) = Holds(e, group, value)
<1> DEFINE i == generateIndices(e, n)
<1>1. i \in Expr
  BY IndicesType
<1> HIDE DEF i
<1>2. ASSUME NEW x \in ComparisonsIn(i)
      PROVE  Sql(SimpleText(x), group, slots) = Agrees(x, group, value)
  <2>1. x \in Simple /\ x \in Expr /\ (x.kind = "columns" \/ x.param = "nullptr"
                                      \/ slots[x.index + 1] = value[x.cell])
    BY <1>1, ComparisonsType DEF i, HasParameter
  <2> QED BY <2>1, SqlOfSimple DEF Agrees
<1>3. Sql(toString(i), group, slots) = Holds(i, group, value)
  BY <1>1, <1>2, SqlIsHolds
<1>4. Holds(i, group, value) = Holds(e, group, value)
  BY HoldsNumbered DEF i
<1> QED
  BY <1>3, <1>4 DEF i

\* Numbers do not change how many parameters there are.
LEMMA ParametersNumbered ==
    ASSUME NEW e \in Expr, NEW n \in Nat
    PROVE  Parameters(generateIndices(e, n)) = Parameters(e)
<1> DEFINE S == {z \in Expr : \A k \in Nat : Parameters(generateIndices(z, k)) = Parameters(z)}
<1>1. ASSUME NEW z \in Expr, z.kind # "logical" PROVE z \in S
  <2> SUFFICES ASSUME NEW k \in Nat PROVE Parameters(generateIndices(z, k)) = Parameters(z)
    OBVIOUS
  <2>1. generateIndices(z, k) = Renumbered(z, k) /\ z \in Simple
    BY <1>1, IndicesEquation, Sides DEF Renumbered
  <2>2. /\ Renumbered(z, k).kind # "logical" /\ Renumbered(z, k) \in Expr
        /\ HasParameter(Renumbered(z, k)) <=> HasParameter(z)
    BY <1>1, <2>1, RenumberedSame, IndicesType
  <2> QED BY <1>1, <2>1, <2>2, ParametersEquation
<1>2. ASSUME NEW z \in Expr, z.kind = "logical", z.left \in S, z.right \in S PROVE z \in S
  <2> SUFFICES ASSUME NEW k \in Nat PROVE Parameters(generateIndices(z, k)) = Parameters(z)
    BY <1>2
  <2> DEFINE l == generateIndices(z.left, k)
             m == k + Parameters(z.left)
             r == generateIndices(z.right, m)
  <2>1. m \in Nat
    BY <1>2, ParametersType
  <2>2. generateIndices(z, k) = Logical(l, z.op, r) /\ Logical(l, z.op, r) \in Expr
    BY <1>2, IndicesEquation, IndicesType
  <2>3. Parameters(l) = Parameters(z.left) /\ Parameters(r) = Parameters(z.right)
    BY <1>2, <2>1
  <2> HIDE DEF l, r, m
  <2>4. Logical(l, z.op, r).kind = "logical" /\ Logical(l, z.op, r).left = l
        /\ Logical(l, z.op, r).right = r
    BY DEF Logical
  <2>5. Parameters(Logical(l, z.op, r)) = Parameters(l) + Parameters(r)
    BY <2>2, <2>4, ParametersEquation
  <2>6. Parameters(z) = Parameters(z.left) + Parameters(z.right)
    BY <1>2, ParametersEquation
  <2> QED BY <2>2, <2>3, <2>5, <2>6
<1> HIDE DEF S
<1>3. Expr \subseteq S
  BY <1>1, <1>2, ExprInduction
<1> QED
  BY <1>3 DEF S

\* A comparison with a parameter is counted.
LEMMA ParametersCounted ==
    ASSUME NEW e \in Expr, NEW x \in ComparisonsIn(e), HasParameter(x)
    PROVE  Parameters(e) # 0
<1> DEFINE S == {z \in Expr : \A y \in ComparisonsIn(z) : HasParameter(y) => Parameters(z) # 0}
<1>1. ASSUME NEW z \in Expr, z.kind # "logical" PROVE z \in S
  <2>1. ComparisonsIn(z) = {z} /\ Parameters(z) = IF HasParameter(z) THEN 1 ELSE 0
    BY <1>1, ComparisonsInEquation, ParametersEquation
  <2> QED BY <2>1
<1>2. ASSUME NEW z \in Expr, z.kind = "logical", z.left \in S, z.right \in S PROVE z \in S
  <2>1. /\ ComparisonsIn(z) = ComparisonsIn(z.left) \cup ComparisonsIn(z.right)
        /\ Parameters(z) = Parameters(z.left) + Parameters(z.right)
    BY <1>2, ComparisonsInEquation, ParametersEquation
  <2>2. Parameters(z.left) \in Nat /\ Parameters(z.right) \in Nat
    BY <1>2, ParametersType
  <2>3. ASSUME NEW y \in ComparisonsIn(z), HasParameter(y) PROVE Parameters(z) # 0
    <3>1. Parameters(z.left) # 0 \/ Parameters(z.right) # 0
      BY <1>2, <2>1, <2>3
    <3> QED BY <2>1, <2>2, <3>1
  <2> QED BY <2>3
<1> HIDE DEF S
<1>3. Expr \subseteq S
  BY <1>1, <1>2, ExprInduction
<1> QED
  BY <1>3 DEF S

\* A filter without comparisons of two columns mentions only the tables that
\* containsTables was asked about: where(), having() and on() refuse all others.
THEOREM OnlyTheTablesAskedFor ==
    ASSUME NEW e \in Expr, NEW T, containsTables(e, T),
           \A x \in ComparisonsIn(e) : x.kind # "columns"
    PROVE  \A c \in ColumnsOf(e) : c.table \in T
BY DEF containsTables, ColumnsOf, ColumnsIn


-----------------------------------------------------------------------------
(* Sequences.                                                              *)

LEMMA PlaceFound ==
    ASSUME NEW T, NEW s \in Seq(T), NEW x
    PROVE  /\ PlaceOf(s, x) \in DOMAIN s \cup {0}
           /\ PlaceOf(s, x) # 0 => s[PlaceOf(s, x)] = x
           /\ (\E k \in DOMAIN s : s[k] = x) => PlaceOf(s, x) # 0
<1> DEFINE I == {k \in 1 .. Len(s) : s[k] = x}
<1>1. PlaceOf(s, x) = IF I # {} THEN Min(I) ELSE 0
  BY DEF PlaceOf, SelectInSeq
<1>2. DOMAIN s = 1 .. Len(s) /\ Len(s) \in Nat
  OBVIOUS
<1>3. CASE I # {}
  <2>1. \E m \in I : \A k \in I : ~(k < m)
    <3>1. I \subseteq Nat
      BY <1>2
    <3> HIDE DEF I
    <3> QED BY <1>3, <3>1, Smallest
  <2>2. \E m \in I : \A k \in I : m <= k
    BY <1>2, <2>1
  <2>3. Min(I) \in I
    <3> HIDE DEF I
    <3> QED BY <2>2 DEF Min
  <2> QED BY <1>1, <1>2, <1>3, <2>3
<1>4. CASE I = {}
  BY <1>1, <1>2, <1>4
<1> QED
  BY <1>3, <1>4

\* Kept as far as place n.
KeptTo(s, S, n) == Defined("Kept", Nat, <<s, S>>)[n]

LEMMA KeptEquation ==
    ASSUME NEW s, NEW S
    PROVE  /\ KeptTo(s, S, 0) = <<>>
           /\ \A n \in Nat : KeptTo(s, S, n + 1) =
                 IF n + 1 \in S THEN Append(KeptTo(s, S, n), s[n + 1]) ELSE KeptTo(s, S, n)
           /\ Len(s) \in Nat => Kept(s, S) = KeptTo(s, S, Len(s))
<1> DEFINE p == <<s, S>>
           F == Defined("Kept", Nat, p)
<1>1. Local(Nat, Identity, "Kept", p)
  BY DEF Local, Body, Identity, KeptDef
<1>2. F = [n \in Nat |-> KeptDef(F, n, p)]
  <2>1. F = [n \in Nat |-> Body("Kept", F, n, p)]
    BY <1>1, RecursiveOnNat
  <2> HIDE DEF F
  <2> QED BY <2>1 DEF Body
<1>3. Len(s) \in Nat => Kept(s, S) = F[Len(s)]
  BY DEF Kept, Defined, Body, KeptDef
<1> HIDE DEF F
<1>4. F[0] = <<>>
  BY <1>2 DEF KeptDef
<1>5. ASSUME NEW n \in Nat
      PROVE  F[n + 1] = IF n + 1 \in S THEN Append(F[n], s[n + 1]) ELSE F[n]
  <2>1. n + 1 \in Nat /\ n + 1 # 0 /\ (n + 1) - 1 = n
    OBVIOUS
  <2> QED BY <1>2, <2>1 DEF KeptDef
<1> QED
  BY <1>3, <1>4, <1>5 DEF F, KeptTo

\* A part of a sequence has items of the sequence and is not longer.
LEMMA KeptType ==
    ASSUME NEW T, NEW s \in Seq(T), NEW S
    PROVE  Kept(s, S) \in Seq(T) /\ Len(Kept(s, S)) <= Len(s)
<1> DEFINE G == {n \in Nat : n <= Len(s) =>
                    KeptTo(s, S, n) \in Seq(T) /\ Len(KeptTo(s, S, n)) <= n}
<1>1. 0 \in G
  <2>1. KeptTo(s, S, 0) = <<>>
    BY KeptEquation
  <2>2. <<>> \in Seq(T) /\ Len(<<>>) <= 0
    OBVIOUS
  <2> QED BY <2>1, <2>2
<1>2. ASSUME NEW n \in Nat, n \in G PROVE n + 1 \in G
  <2> SUFFICES ASSUME n + 1 <= Len(s)
               PROVE  KeptTo(s, S, n + 1) \in Seq(T) /\ Len(KeptTo(s, S, n + 1)) <= n + 1
    OBVIOUS
  <2>1. KeptTo(s, S, n) \in Seq(T) /\ Len(KeptTo(s, S, n)) <= n /\ s[n + 1] \in T
    BY <1>2
  <2>2. KeptTo(s, S, n + 1) =
           IF n + 1 \in S THEN Append(KeptTo(s, S, n), s[n + 1]) ELSE KeptTo(s, S, n)
    BY KeptEquation
  <2>3. /\ Append(KeptTo(s, S, n), s[n + 1]) \in Seq(T)
        /\ Len(Append(KeptTo(s, S, n), s[n + 1])) = Len(KeptTo(s, S, n)) + 1
    BY <2>1, AppendProperties
  <2>4. Len(KeptTo(s, S, n)) \in Nat
    BY <2>1
  <2> HIDE DEF G
  <2>5. CASE n + 1 \in S
    BY <2>1, <2>2, <2>3, <2>4, <2>5
  <2>6. CASE n + 1 \notin S
    BY <2>1, <2>2, <2>4, <2>6
  <2> QED BY <2>5, <2>6
<1> HIDE DEF G
<1>3. Len(s) \in G /\ Len(s) \in Nat
  BY <1>1, <1>2, Induction
<1> QED
  BY <1>3, KeptEquation DEF G

\* Items that are mapped are kept at the same places.
LEMMA KeptMapped ==
    ASSUME NEW T, NEW s \in Seq(T), NEW S, NEW g
    PROVE  Kept([k \in DOMAIN s |-> g[s[k]]], S) =
              [k \in DOMAIN Kept(s, S) |-> g[Kept(s, S)[k]]]
<1> DEFINE u == [k \in DOMAIN s |-> g[s[k]]]
           U == {g[t] : t \in T}
<1>5. \A n \in Nat : KeptTo(u, S, n + 1) =
         IF n + 1 \in S THEN Append(KeptTo(u, S, n), u[n + 1]) ELSE KeptTo(u, S, n)
  <2> HIDE DEF u
  <2> QED BY KeptEquation
<1> DEFINE Mapped(z) == [k \in DOMAIN z |-> g[z[k]]]
           G == {n \in Nat : n <= Len(s) =>
                    KeptTo(s, S, n) \in Seq(T) /\ KeptTo(u, S, n) = Mapped(KeptTo(s, S, n))}
<1>1. u \in Seq(U) /\ Len(u) = Len(s) /\ \A k \in 1 .. Len(s) : u[k] = g[s[k]]
  OBVIOUS
<1> HIDE DEF u, U
<1>2. 0 \in G
  <2>1. KeptTo(s, S, 0) = <<>> /\ KeptTo(u, S, 0) = <<>>
    BY KeptEquation
  <2>2. <<>> \in Seq(T) /\ Mapped(<<>>) = <<>>
    OBVIOUS
  <2> QED BY <2>1, <2>2
<1>3. ASSUME NEW n \in Nat, n \in G PROVE n + 1 \in G
  <2> SUFFICES ASSUME n + 1 <= Len(s)
               PROVE  /\ KeptTo(s, S, n + 1) \in Seq(T)
                      /\ KeptTo(u, S, n + 1) = Mapped(KeptTo(s, S, n + 1))
    OBVIOUS
  <2> DEFINE z == KeptTo(s, S, n)
  <2>1. z \in Seq(T) /\ KeptTo(u, S, n) = Mapped(z) /\ s[n + 1] \in T /\ u[n + 1] = g[s[n + 1]]
    BY <1>1, <1>3
  <2>2. KeptTo(s, S, n + 1) = IF n + 1 \in S THEN Append(z, s[n + 1]) ELSE z
    BY KeptEquation
  <2>3. KeptTo(u, S, n + 1) =
           IF n + 1 \in S THEN Append(KeptTo(u, S, n), u[n + 1]) ELSE KeptTo(u, S, n)
    BY <1>5
  <2> HIDE DEF z, G
  <2>4. Append(Mapped(z), g[s[n + 1]]) = Mapped(Append(z, s[n + 1])) /\ Append(z, s[n + 1]) \in Seq(T)
    BY <2>1
  <2> HIDE DEF Mapped
  <2> QED BY <2>1, <2>2, <2>3, <2>4 DEF z
<1> HIDE DEF G
<1>4. Len(s) \in G /\ Len(s) \in Nat
  BY <1>2, <1>3, Induction
<1> QED
  BY <1>1, <1>4, KeptEquation DEF G, u

\* The sum of the first numbers of s.
LEMMA SumToEquation ==
    ASSUME NEW s
    PROVE  SumTo(s, 0) = 0 /\ \A n \in Nat : SumTo(s, n + 1) = SumTo(s, n) + s[n + 1]
<1> DEFINE F == Defined("Sum", Nat, s)
<1>1. Local(Nat, Identity, "Sum", s)
  BY DEF Local, Body, Identity, SumDef
<1>2. F = [n \in Nat |-> SumDef(F, n, s)]
  <2>1. F = [n \in Nat |-> Body("Sum", F, n, s)]
    BY <1>1, RecursiveOnNat
  <2> HIDE DEF F
  <2> QED BY <2>1 DEF Body
<1>3. \A n \in Nat : SumTo(s, n) = F[n]
  BY DEF SumTo, Defined, Body, SumDef
<1> HIDE DEF F
<1>4. F[0] = 0
  BY <1>2 DEF SumDef
<1>5. ASSUME NEW n \in Nat PROVE F[n + 1] = F[n] + s[n + 1]
  <2>1. n + 1 \in Nat /\ n + 1 # 0 /\ (n + 1) - 1 = n
    OBVIOUS
  <2> QED BY <1>2, <2>1 DEF SumDef
<1> QED
  BY <1>3, <1>4, <1>5

\* It grows with the number of the summands.
LEMMA SumToGrows ==
    ASSUME NEW s, NEW m \in Nat, \A i \in 1 .. m : s[i] \in Nat
    PROVE  /\ \A n \in 0 .. m : SumTo(s, n) \in Nat
           /\ \A n \in 0 .. m : \A k \in 0 .. n : SumTo(s, k) <= SumTo(s, n)
<1> DEFINE Grows(n) == SumTo(s, n) \in Nat
                       /\ \A k \in 0 .. n : SumTo(s, k) \in Nat /\ SumTo(s, k) <= SumTo(s, n)
           G == {n \in Nat : n <= m => Grows(n)}
<1>1. 0 \in G
  BY SumToEquation
<1>2. ASSUME NEW n \in Nat, n \in G PROVE n + 1 \in G
  <2> SUFFICES ASSUME n + 1 <= m PROVE Grows(n + 1)
    OBVIOUS
  <2>1. Grows(n)
    BY <1>2
  <2>2. SumTo(s, n + 1) = SumTo(s, n) + s[n + 1] /\ s[n + 1] \in Nat
    BY SumToEquation
  <2>3. SumTo(s, n + 1) \in Nat /\ SumTo(s, n) <= SumTo(s, n + 1)
    BY <2>1, <2>2
  <2>4. ASSUME NEW k \in 0 .. n + 1
        PROVE  SumTo(s, k) \in Nat /\ SumTo(s, k) <= SumTo(s, n + 1)
    <3>1. CASE k = n + 1
      BY <2>3, <3>1
    <3>2. CASE k \in 0 .. n
      <4>1. SumTo(s, k) \in Nat /\ SumTo(s, k) <= SumTo(s, n) /\ SumTo(s, n) \in Nat
        BY <2>1, <3>2
      <4> HIDE DEF Grows
      <4> QED BY <2>3, <4>1
    <3> QED BY <3>1, <3>2
  <2> QED BY <2>3, <2>4
<1> HIDE DEF G
<1>3. Nat \subseteq G
  BY <1>1, <1>2, Induction
<1> QED
  BY <1>3 DEF G
=============================================================================
