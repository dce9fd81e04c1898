----------------------------- MODULE Derivation -----------------------------
(***************************************************************************)
(* coe_kernel/derivation.py and coe_kernel/dimensions.py: which numbers a  *)
(* run log bears out.  A number is what is written of it, [n, nd] for      *)
(* n / 10^nd; a log is the sequence of the numbers it prints, each under a *)
(* name; a derivation applies one operator to two operands, names of the   *)
(* log or constants.                                                       *)
(*                                                                         *)
(* Bounds: two decimals, whole parts below a thousand, derivations of the  *)
(* shapes of _BINARY (or one operand alone).  Numbers written without      *)
(* decimals appear in logs and derivations, not as claims.                 *)
(***************************************************************************)
EXTENDS Integers, Sequences

CONSTANTS
    Names,      \* the names a log may use
    Semantic    \* Semantic[n], what infer_semantic takes the name n for

Semantics == {"probability", "percentage", "count", "duration", "memory",
              "loss", "plain", "unknown"}

ASSUME DerivationAssumption == Semantic \in [Names -> Semantics]

-----------------------------------------------------------------------------
(* What is written *)

Hundredths(num) == num.n * (10 ^ (2 - num.nd))
Digits(k) == IF k < 10 THEN 1 ELSE IF k < 100 THEN 2 ELSE 3

\* val in run_log, for one number the log prints: the decimals of num begin its
\* decimals, and the whole part of num ends its whole part.  A sign in the log
\* does not keep a number without one from being found; a number with a sign is
\* found where the log has the sign, and then the whole parts are the same.
Size(n) == IF n < 0 THEN -n ELSE n
PrintedIn(num, line) ==
    LET shown == Size(line.n) \div (10 ^ (line.nd - num.nd)) IN
    /\ num.nd <= line.nd
    /\ IF num.n < 0 THEN line.n < 0 /\ shown = -num.n
       ELSE shown % (10 ^ (num.nd + Digits(num.n \div (10 ^ num.nd)))) = num.n
Printed(num, log) == \E i \in DOMAIN log : PrintedIn(num, log[i])

\* parse_log_symbols: the number a name was printed with last.
Symbols(log) ==
    [name \in {log[i].name : i \in DOMAIN log} |->
        log[CHOOSE i \in DOMAIN log :
              /\ log[i].name = name
              /\ \A j \in DOMAIN log : log[j].name = name => j <= i]]

-----------------------------------------------------------------------------
(* What is physically possible *)

\* The dimensions; a name that means nothing to infer_semantic has no known one.
Dimension(semantic) ==
    CASE semantic = "count"    -> "count"
      [] semantic = "duration" -> "time"
      [] semantic = "memory"   -> "bytes"
      [] semantic = "unknown"  -> "unknown"
      [] OTHER                 -> "none"

\* check_value.
InRange(semantic, num) ==
    /\ semantic \in {"probability", "count", "duration", "memory", "loss"}
          => Hundredths(num) >= 0
    /\ semantic = "probability" => Hundredths(num) <= 100

-----------------------------------------------------------------------------
(* Expressions *)

\* The templates of _BINARY: {a} - {b}, ({a} - {b}) / {b}, the same * 100; then
\* {a} + {b}, {a} / {b}, {a} * {b}, {a} / {b} * 100.
Subtracting == {"difference", "relative", "relative_percent"}
Binary == Subtracting \union {"sum", "ratio", "product", "percent"}

Name(name) == [is |-> "name", name |-> name]
Const(num) == [is |-> "const", num |-> num]
Apply(op, a, b) == [op |-> op, a |-> a, b |-> b]
NoDerivation == Apply("none", Name("none"), Name("none"))

Operands(e) == IF e.op = "alone" THEN {e.a} ELSE {e.a, e.b}
Unlogged(e, syms) == \E x \in Operands(e) : x.is = "name" /\ x.name \notin DOMAIN syms
DimensionOf(x) == IF x.is = "const" THEN "none" ELSE Dimension(Semantic[x.name])

\* check_expression: every symbol is known, and what is added or subtracted has
\* the same dimension, as far as the dimensions are known.
Consistent(e, syms) ==
    /\ ~ Unlogged(e, syms)
    /\ e.op \in Subtracting \union {"sum"} =>
          \/ "unknown" \in {DimensionOf(e.a), DimensionOf(e.b)}
          \/ DimensionOf(e.a) = DimensionOf(e.b)

\* What an operand stands for, in hundredths.
ValueOf(x, syms) == Hundredths(IF x.is = "const" THEN x.num ELSE syms[x.name])

\* safe_eval, as <<numerator, denominator>>; a denominator of 0 is a division
\* that raises, and what discover() skips as nan.
Over(n, d) == IF d < 0 THEN <<-n, -d>> ELSE <<n, d>>
Computed(op, a, b) ==
    CASE op = "alone"            -> <<a, 100>>
      [] op = "difference"       -> <<a - b, 100>>
      [] op = "sum"              -> <<a + b, 100>>
      [] op = "product"          -> <<a * b, 10000>>
      [] op = "ratio"            -> Over(a, b)
      [] op = "percent"          -> Over(a * 100, b)
      [] op = "relative"         -> Over(a - b, b)
      [] op = "relative_percent" -> Over((a - b) * 100, b)
Evaluated(e, syms) == Computed(e.op, ValueOf(e.a, syms), ValueOf(e.b, syms))

\* Mutant of RoundsTo: up to a whole unit of the last decimal.
RoundsLoosely(q, num) ==
    LET gap == q[1] * (10 ^ num.nd) - num.n * q[2] IN
    q[2] # 0 /\ Size(gap) <= q[2]

\* _round_trip: rounded to the decimals the claim is written with, the value is
\* the claimed one (round() goes to the even neighbour).
RoundsTo(q, num) ==
    LET gap == 2 * (q[1] * (10 ^ num.nd) - num.n * q[2])
    IN q[2] # 0 /\ (Size(gap) < q[2] \/ (Size(gap) = q[2] /\ num.n % 2 = 0))

Recomputes(e, num, syms) == RoundsTo(Evaluated(e, syms), num)

\* What discover() may propose: two different quantities of the log.
Discoverable(syms) ==
    {Apply(op, Name(p[1]), Name(p[2])) :
        op \in Binary, p \in {q \in (DOMAIN syms) \X (DOMAIN syms) : q[1] # q[2]}}

\* Mutant of Discovered: what can be derived in more than one way is given up.
DiscoveredUniquely(num, syms) ==
    /\ num.nd >= 2
    /\ \E e \in Discoverable(syms) :
          /\ Consistent(e, syms) /\ Recomputes(e, num, syms)
          /\ \A f \in Discoverable(syms) \ {e} : ~ Recomputes(f, num, syms)

\* discover: only for numbers of at least _MIN_PRECISION decimals.
Discovered(num, syms) ==
    /\ num.nd >= 2
    /\ \E e \in Discoverable(syms) : Consistent(e, syms) /\ Recomputes(e, num, syms)
=============================================================================
