------------------------------ MODULE MCKernel ------------------------------
EXTENDS Kernel

\* Two accuracies, two quantities of other dimensions and one of none known.
MCNames == {"base", "best", "steps", "secs", "zeta"}
MCSemantic == [name \in MCNames |->
    CASE name \in {"base", "best"} -> "probability"
      [] name = "steps" -> "count"
      [] name = "secs" -> "duration"
      [] name = "zeta" -> "unknown"]

Line(name, n, nd) == [name |-> name, n |-> n, nd |-> nd]
Accuracies == <<Line("base", 50, 2), Line("best", 58, 2)>>
\* Logs that grow, one that prints a name twice, one with a zero and a
\* percentage above one, one with a negative number.
MCLogs == {<<>>, Accuracies,
           Accuracies \o <<Line("steps", 40, 0), Line("secs", 5, 1)>>,
           Accuracies \o <<Line("zeta", 135, 2), Line("steps", 0, 0)>>,
           Accuracies \o <<Line("zeta", -8, 2)>>,
           Accuracies \o <<Line("best", 66, 2)>>}

Num(n, nd) == [n |-> n, nd |-> nd]
Values == {Num(8, 2), Num(16, 2), Num(160, 1), Num(135, 2), Num(5, 1), Num(58, 2),
           Num(9, 2), Num(116, 2), Num(63, 2), Num(-8, 2)}
Derivations ==
    {NoDerivation, Apply("alone", Const(Num(16, 2)), Name("none")),
     Apply("difference", Name("best"), Const(Num(1, 1))),
     Apply("ratio", Name("best"), Name("steps"))}
    \union {Apply(op, Name("best"), Name(b)) :
               op \in {"difference", "relative", "relative_percent"},
               b \in {"base", "secs", "zeta"}}

Numbers == [type : {"number"}, value : Values, derivation : Derivations,
            says : {"probability", "percentage", "count", "loss", "unknown"}]
Citations == [type : {"citation"}, arxiv : ArxivIds, doi : Dois, title : Titles]
Mechanisms == [type : {"mechanism"}, says : {"probability", "duration", "memory", "unknown"},
               value : {Num(58, 2), Num(135, 2), Num(-5, 1)}, indexed : BOOLEAN,
               evidence : {"none", "citation", "code_data", "log"}]
Atoms == {a \in [C : 0 .. 2, H : 0 .. 7, N : 0 .. 1, X : 0 .. 1] :
             a.C + a.H + a.N + a.X > 0}
Formulas == [type : {"domain"}, kind : {"formula"}, foreign : BOOLEAN, atoms : Atoms]
Reactions == [type : {"domain"}, kind : {"reaction"},
              left : [H : {2, 4}, O : {1, 2}], right : [H : {2, 4}, O : {1, 2}]]
Figures == [type : {"figure"}]

\* Every claim alone, and a few of each type in pairs.
Few == [type : {"citation"}, arxiv : {"held", "not_held"}, doi : {"none"},
        title : {"none", "indexed"}]
       \union [type : {"number"}, value : {Num(8, 2), Num(9, 2)},
               derivation : {NoDerivation}, says : {"unknown"}]
       \union [type : {"mechanism"}, says : {"unknown"}, value : {Num(58, 2)},
               indexed : {FALSE}, evidence : {"citation", "log"}]
MCDrafts ==
    {<<c>> : c \in Citations \union Numbers \union Mechanisms \union Formulas
                   \union Reactions \union Figures}
    \union {<<c, d>> : c \in Few, d \in Few}
=============================================================================
