-------------------------- MODULE MCSampleRequest ---------------------------
(***************************************************************************)
(* All requests of up to three members drawn from the cases the parser     *)
(* tells apart: values of every kind, nested ones, and texts and           *)
(* abbreviated keys that pass for a known key.                             *)
(***************************************************************************)
EXTENDS SampleRequest

CONSTANT Keys   \* the keys used with every kind of value

Leaf(type, text) == [type |-> type, text |-> text, size |-> 0]
Str(text) == Leaf("string", text)
Num == Leaf("primitive", "1")
\* The array of n items, followed by the tokens inside it.
Nest(n, inner) == <<[type |-> "array", text |-> "[", size |-> n]>> \o inner

Value(k, value) ==
    [key |-> k, type |-> value[1].type, text |-> value[1].text, size |-> value[1].size,
     items |-> Tail(value)]

Arrays == {Nest(0, <<>>), Nest(1, <<Str("block")>>), Nest(1, <<Str("b")>>),
           Nest(2, <<Str("vcpu"), Str("state")>>), Nest(1, <<Str("foobar")>>),
           Nest(2, <<Str("vcpu"), Num>>), Nest(1, Nest(1, <<Str("block")>>))}
Values == {<<Num>>, <<Str("id1")>>, <<Str("aaa")>>} \cup Arrays

AllMembers ==
    {Value(k, v) : k \in Keys, v \in Values}
      \cup {Value("req-id", <<Str("id1x")>>), Value("req-id", <<Str("id2")>>),
            Value("req-id", <<Str("xyz")>>)}
      \* Texts that pass for a key: a value, an item, an abbreviation.
      \cup {Value("other", <<Str("req-id")>>), Value("other", Nest(1, <<Str("get-stats")>>)),
            Value("get", Nest(1, <<Str("block")>>))}

MCInputs == UNION {[1 .. n -> AllMembers] : n \in 0 .. 3}
\* The proper prefixes among the texts used.
MCShortened == {<<"b", "balloon">>, <<"b", "block">>, <<"get", "get-stats">>}
\* A text one character too long is cut to the text of a uuid.
MCUuidOf == [t \in {"id1", "id1x", "id2"} |-> IF t = "id2" THEN "uuid2" ELSE "uuid1"]
=============================================================================
