------------------------------ MODULE MCAudit ------------------------------
(***************************************************************************)
(* A small instance of Audit, two requests and one retry of the task, the  *)
(* contents of single rows, and the user of one request.  Bound: a         *)
(* behaviour follows the rows of the requests, builds one part of a row or *)
(* follows that user; none of the three depends on another.                *)
(***************************************************************************)
EXTENDS Audit, AuditRows, ActingUser, TLC

\* Documents within MaxDepth = 3, and lists of lists of maps that are deeper.
MCStrings ==
    {"***", "replaced", "about", "none", "a", "NUL", "NaN", "surrogate",
     "name", "sort", "x", "api", "key", "content", "type", "size",
     "", "verify", "invite", "about-us", "u", "t"}
PlainKeys == {PlainKey(name) : name \in {<<"name">>, <<"sort", "key">>, <<"x", "api", "key">>}}
OddKeys == [name : {<<"name">>, <<"x", "api", "key">>}, rest : {"NUL"}]
MCKeys == PlainKeys \union OddKeys \union {[name |-> <<"name">>, rest |-> "surrogate"]}

MapsOf(keys, values) == {<<"map", <<<<key, v>>>>>> : key \in keys, v \in values}
ListsOf(values) == {<<"list", list>> : list \in {<<v>> : v \in values} \union {<<>>}}
PairsOf(values) == {<<"list", <<v, w>>>> : v \in values, w \in values}

Leaves == {<<"leaf", text>> : text \in {"a", "NUL", "NaN", "surrogate"}}
Shallow == Leaves \union MapsOf(MCKeys, Leaves) \union ListsOf(Leaves) \union PairsOf(Leaves)
TwoKeys ==
    {<<"map", <<<<key, v>>, <<PlainKey(<<"name">>), w>>>>>> :
        key \in MCKeys \ {PlainKey(<<"name">>)}, v \in Leaves, w \in Leaves}
MCDocuments ==
    Shallow \union ListsOf(Shallow) \union PairsOf(ListsOf(Leaves) \union Leaves)
    \union MapsOf(MCKeys, Shallow) \union TwoKeys \union ListsOf(ListsOf(MapsOf(MCKeys, Leaves)))

Texted == {<<"leaf", text>> : text \in {"a", "NUL"}}
FieldMaps == MapsOf(PlainKeys \union OddKeys, Texted)
MCForms == MapsOf(PlainKeys \union OddKeys, ListsOf(Texted)) \union FieldMaps
MCFields == MapsOf(PlainKeys, {<<"leaf", "a">>, <<"list", <<<<"leaf", "a">>>>>>})
MCQueries ==
    BoundedSeq([key : {<<"sort", "key">>, <<"x", "api", "key">>}, value : {"none", "a", "t"}], 2)

\* Links with and without their slash, also with a token that is a word of the
\* rest of the URL, and paths that are no links.
MCUrls ==
    [parsable : BOOLEAN,
     path : {<<"verify", "u", "t", "">>, <<"invite", "u", "t">>, <<"verify", "u", "u", "">>,
             <<"about-us", "u", "t", "">>, <<"verify", "t", "">>, <<"a", "NUL">>, <<"">>},
     rest : {<<>>, <<"NUL", "t", "a", "t">>}]

Symmetric == Permutations(Requests)

MCInit == Init /\ RowsInit /\ ActingInit

MCNext ==
    \/ Next /\ RowsInit /\ ActingInit /\ UNCHANGED <<built, actingVars>>
    \/ /\ Init /\ RowsInit /\ ActingInit
       /\ RowsNext
       /\ UNCHANGED <<vars, actingVars>>
    \/ ActingNext /\ Init /\ RowsInit /\ UNCHANGED <<vars, built>>

MCSpec == MCInit /\ [][MCNext]_<<vars, built, actingVars>>
=============================================================================
