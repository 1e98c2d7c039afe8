----------------------------- MODULE MCPiiScrubbing -----------------------------
(* TLC's instance of PiiScrubbing: values nested three deep, over a sensitive key in *)
(* two spellings and a key that is an address.                                        *)
EXTENDS PiiScrubbing

SomeKeys == {"token", "Token", "ann@x.org"}
Others   == {"level", "logger", "message", "time", "exc", "_state", "note"}
MCLower  == [k \in SomeKeys \cup Others |-> IF k = "Token" THEN "token" ELSE k]

\* Dicts with up to n keys and lists with up to n items over a set of values.
DictsOver(V, n) ==
  {Dict(f) : f \in UNION {[S -> V] : S \in {K \in SUBSET SomeKeys : Cardinality(K) <= n}}}
ListsOver(V, n) == {List(s) : s \in UNION {[1..i -> V] : i \in 0..n}}

Flat  == {Text(<<"word">>), Text(<<"email", "word", "email">>), Object(<<"email">>)}
Deep1 == Flat \cup DictsOver(Flat, 2) \cup ListsOver(Flat, 2)
Deep2 == ListsOver(Deep1, 1) \cup DictsOver(Deep1, 1)

MCMessages == {Text(<<"word">>), Text(<<"email", "email">>)}
MCNested ==
  [n \in 0..3 |-> CASE n = 0 -> Flat \cup MCMessages \cup {Redacted}
                    [] n = 1 -> Deep1 \cup {List(<<e>>) : e \in MCMessages}
                    [] n = 2 -> Deep2
                    [] OTHER -> DictsOver(Deep2, 1)]

MCSnapshots  == {None} \cup DictsOver(Flat, 2) \cup DictsOver(Deep1, 1) \cup DictsOver(Deep2, 1)
MCAttributes == [{"token", "note"} -> Flat] \cup
  UNION {[S -> Deep1] : S \in {{}, {"token"}, {"exc"}, {"level"}, {"_state"}, {"ann@x.org"}}}
===============================================================================
