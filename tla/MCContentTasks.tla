---------------------------- MODULE MCContentTasks ----------------------------
EXTENDS ContentTasks, TLC

W(t, w) == [tag |-> t, weight |-> w]

\* Single tasks: weights given, mixed, missing, negative; a tag named twice.
MCPlain ==
  {[difficulty |-> 2, topics |-> <<"p">>, tags |-> <<W("a", 1), W("b", 3)>>],
   [difficulty |-> 2, topics |-> <<"p">>, tags |-> <<W("a", 3), W("b", 0)>>],
   [difficulty |-> 2, topics |-> <<"p">>, tags |-> <<W("a", 0), W("b", -1)>>],
   [difficulty |-> 2, topics |-> <<"p">>, tags |-> <<W("a", 1), W("a", 1)>>]}

\* Scopes: shared tags that an item names again, with weights that repeat.
\* Nobody creates the topic q.
MCScopes ==
  {[topicIDs |-> <<"p">>, tagIDs |-> <<"a">>,
    items |-> <<[difficulty |-> 2, topicIDs |-> <<"p">>, tagIDs |-> <<"a">>, tags |-> <<>>],
                [difficulty |-> 0, topicIDs |-> <<"q">>, tagIDs |-> <<"b">>, tags |-> <<W("b", 1), W("b", 2), W("a", 0)>>]>>],
   [topicIDs |-> <<>>, tagIDs |-> <<>>,
    items |-> <<[difficulty |-> 0, topicIDs |-> <<>>, tagIDs |-> <<>>, tags |-> <<W("b", -1), W("a", 1)>>],
                [difficulty |-> 2, topicIDs |-> <<"q">>, tagIDs |-> <<>>, tags |-> <<>>]>>]}

Symmetry == Permutations(Requests)
=============================================================================
