---------------------------- MODULE MCDispatcher ----------------------------
(* Dispatcher for TLC. *)
EXTENDS Dispatcher

\* A malformed body comes with the entry points that take raw bytes.
PossibleShapes ==
    {s \in AllShapes : s.malformed => s.entry \in {"invoke", "stream"}}

\* An upstream is there.
RoutedShapes == {s \in PossibleShapes : s.upstream}

\* What may be asked for, by two restricting scopes and a granting one.
SomeNames == {"enrol", "report"}
SomeScopes == {"pairing", "guest", "user"}
Restrictions == [s \in {"pairing", "guest"} |-> IF s = "pairing" THEN {"enrol"} ELSE {"report"}]
ScopeLists == {<<>>, <<"user", "pairing">>, <<"pairing", "guest">>}

\* Alone, before and after another frame, and none at all.
SomeBatches ==
    {<<>>, <<"comment">>, <<"progress">>, <<"done">>, <<"error">>,
     <<"progress", "done">>, <<"done", "progress">>, <<"error", "done">>}
=============================================================================
