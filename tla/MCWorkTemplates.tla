-------------------------- MODULE MCWorkTemplates --------------------------
(* Two requests over two tasks and a theory.  Numbers are in tenths, equal   *)
(* when they differ by at most one of them.                                  *)
EXTENDS WorkTemplates, TLC

CONSTANTS t1, t2, th

Word == [text |-> "even", number |-> NoNumber]
NaN == [text |-> "nan", number |-> NotANumber]
Num(text, n) == [text |-> text, number |-> n]
Typed(tokens, separator) == [tokens |-> tokens, separator |-> separator]

\* Title order differs from creation order: the theory comes last.
MCTitle == (t1 :> 2) @@ (t2 :> 1) @@ (th :> 3)
MCTopicsOf == th :> {"p"}
MCCorrectAnswer ==
  (t1 :> Typed(<<Num("2", 20), Num("3", 30)>>, "comma"))
    @@ (t2 :> Typed(<<Word>>, "space"))

Entry(c, n) == [content |-> c, order |-> n]
MCItemLists ==
  {<<Entry(th, 0), Entry(t1, 0)>>, <<Entry(t1, 0), Entry(t2, 0)>>, <<Entry(t2, 2), Entry(t1, 1)>>,
   <<Entry(t1, 0), Entry(th, 0), Entry(t2, 1)>>, <<Entry(t1, 1), Entry(t1, 1)>>}

MCSubmissions ==
  {<<>>} \cup
  {<<[task |-> t1, answer |-> a]>> :
     a \in {Typed(<<Num("3", 30), Num("2", 20)>>, "space"),
            Typed(<<Num("6/2", 30), Num("2.1", 21)>>, "comma"),
            Typed(<<Num("3", 30), Num("3", 30)>>, "comma"),
            Typed(<<NaN, Num("3", 30)>>, "comma"),
            Typed(<<Num("2", 20)>>, "space"),
            Typed(<<Word, Num("2", 20)>>, "space")}} \cup
  {<<[task |-> t2, answer |-> Typed(<<Word>>, "space")],
     [task |-> t2, answer |-> Typed(<<NaN>>, "space")],
     [task |-> t1, answer |-> Typed(<<Num("2", 20), Num("3", 30)>>, "comma")]>>}

Symmetry == Permutations(Requests)
=============================================================================
