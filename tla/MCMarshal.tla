----------------------------- MODULE MCMarshal -----------------------------
EXTENDS Marshal

Arm(cases, type) == [cases |-> cases, default |-> FALSE, type |-> type]
DefaultArm(type) == [cases |-> {}, default |-> TRUE, type |-> type]

\* A type of every kind; unions with and without a default arm, with an arm for 0 and
\* without, with two arms of nothing, and with a bool for a discriminant; a list.
MCDef == [
    int |-> [kind |-> "int"],
    hyper |-> [kind |-> "hyper"],
    bool |-> [kind |-> "bool"],
    blob |-> decl_type("opaque", "VEC", Unbounded),
    opaque3 |-> decl_type("opaque", "ARRAY", 3),
    string |-> decl_type("string", "VEC", 5),
    flags |-> decl_type("bool", "VEC", 2),
    pair |-> decl_type("hyper", "ARRAY", 2),
    record |-> [kind |-> "struct", fields |-> <<"bool", "string", "pair">>],
    fixed |-> [kind |-> "struct", fields |-> <<"opaque3", "int">>],
    choice |-> [kind |-> "union", tag |-> "int",
                arms |-> <<Arm({0}, Void), Arm({1}, "fixed"), Arm({2, 3}, "int"), Arm({4}, Void)>>],
    partial |-> [kind |-> "union", tag |-> "int", arms |-> <<Arm({1}, "string"), DefaultArm(Void)>>],
    open |-> [kind |-> "union", tag |-> "int", arms |-> <<DefaultArm("hyper"), Arm({2}, "flags")>>],
    result |-> [kind |-> "union", tag |-> "bool", arms |-> <<Arm({1}, "string"), Arm({0}, Void)>>],
    u4 |-> [kind |-> "union", tag |-> "int", arms |-> <<Arm({4}, "int")>>],
    choices |-> decl_type("choice", "VEC", 2),
    link |-> decl_type("node", "PTR", Unbounded),
    node |-> [kind |-> "struct", fields |-> <<"int", "link">>]]

Lists == LET one == <<<<7, <<>>>>>> IN {<<>>, one, <<<<1, one>>>>, <<<<2, <<<<1, one>>>>>>>>}
ChoiceObjects == {Union(0, 0, <<>>), Union(4, 0, <<>>), Union(1, 1, <<<<1, 2, 3>>, 9>>), Union(2, 2, 5), Union(3, 2, 5),
            Union(6, -1, <<>>), Union(1, 1, <<<<0, 1, 0>>, 0>>)}

MCObjects == [
    int |-> {0, 1, Word - 1},
    hyper |-> {0, Word + 2, 3 * Word},
    bool |-> BOOLEAN,
    opaque3 |-> {<<0, 0, 0>>, <<1, 2, 7>>},
    string |-> {<<>>, <<1, 2, 3, 4>>, <<5, 0, 0, 0, 1>>, <<1, 1, 1, 1, 1, 1>>},
    blob |-> {<<>>, <<3>>, <<1, 2, 3, 4, 5, 6>>},
    flags |-> {<<>>, <<TRUE>>, <<FALSE, TRUE>>, <<TRUE, TRUE, TRUE>>},
    pair |-> {<<1, Word>>, <<0, 0>>},
    record |-> {<<TRUE, <<1>>, <<1, 2>>>>, <<FALSE, <<3, 4>>, <<0, Word>>>>},
    fixed |-> {<<<<1, 2, 3>>, 9>>, <<<<0, 0, 1>>, 1>>, <<<<0, 1, 0>>, 0>>},
    choice |-> ChoiceObjects,
    partial |-> {Union(0, 0, <<>>), Union(1, 1, <<4, 4>>), Union(9, 0, <<>>)},
    open |-> {Union(0, 1, Word), Union(3, 1, Word), Union(2, 2, <<TRUE>>)},
    result |-> {Union(0, 0, <<>>), Union(1, 1, <<6>>), Union(1, 1, <<>>)},
    u4 |-> {Union(0, -1, <<>>), Union(4, 1, 4)},
    choices |-> {<<>>} \cup {<<c>> : c \in ChoiceObjects} \cup {<<Union(1, 1, <<<<1, 2, 3>>, 9>>), Union(2, 2, 5)>>},
    link |-> Lists]

\* As in tests/validate.cc, a struct is to have no 0; and a union no empty string.
MCValid(t, v) ==
    CASE t = "fixed" -> v[2] # 0
      [] t = "result" -> v.arm = 1 => v.val # <<>>
      [] OTHER -> TRUE

\* Each alone, and a header with a body.
MCArgTypes == {<<t>> : t \in DOMAIN MCObjects} \cup {<<"u4", "string">>, <<"int", "partial">>}
=============================================================================
