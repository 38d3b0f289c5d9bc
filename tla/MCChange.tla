------------------------------- MODULE MCChange -------------------------------
(* A small Lean project, and the edits that make the cases of Change happen. *)
EXTENDS Change, TLC

CONSTANTS none, t1, t2, v1, v2

\* The third module has the name of a declaration of the second.
ModulesDef == {<<"A">>, <<"B">>, <<"B", "q">>}

WrittenDef == {<<"x">>, <<"y">>, <<"B", "q">>}

IdentifiersDef == WrittenDef \cup {<<"q">>, <<"A", "x">>}

\* Sorted as the code sorts them.
NameOrderDef ==
    <<<<"A", "x">>, <<"A", "y">>, <<"B", "q">>, <<"B", "q", "x">>, <<"B", "q", "y">>,
      <<"B", "x">>, <<"B", "y">>>>

FoundationalDef == {<<"A", "y">>}

Header(name, kind, type, mentions) ==
    [name |-> name, kind |-> kind, private |-> FALSE, mentions |-> mentions,
     type |-> type, value |-> v1]

File(imports, headers) == [imports |-> imports, headers |-> headers]

\* A definition, a theorem about it in B, and one of the third
\* module, which imports B only.
ProjectDef ==
    (<<"A">> :> File({}, <<Header(<<"x">>, "definition", t1, <<>>)>>))
    @@ (<<"B">> :> File({<<"A">>}, <<Header(<<"y">>, "theorem", t1, <<<<"A", "x">>>>),
                                     Header(<<"B", "q">>, "theorem", t2, <<<<"y">>>>)>>))
    @@ (<<"B", "q">> :> File({<<"B">>}, <<Header(<<"x">>, "theorem", t1, <<<<"q">>>>)>>))

AdditionsDef ==
    {Header(n, kind, type, <<<<"x">>>>) :
        n \in WrittenDef, kind \in {"definition", "theorem"}, type \in {t1, none}}

=============================================================================
