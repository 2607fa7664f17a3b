--------------------------- MODULE SampleRequest ----------------------------
(***************************************************************************)
(* sampler_parse_request of src/sampler.c: the walk over the tokens of a   *)
(* JSON request that fills a SampleRequest (request id and statistics).    *)
(*                                                                         *)
(* The JSON tokenizer is external: an object becomes the token of the      *)
(* object, then each key, followed by the token of its value and all       *)
(* tokens inside the value.  Texts are compared with strncmp over the      *)
(* token's length, so what matters of a text is which words it starts.     *)
(***************************************************************************)
EXTENDS Naturals, SequencesExt

CONSTANTS
    Inputs,      \* requests: sequences of members (below)
    Shortened,   \* pairs <<text, word>> such that text is a proper prefix of word
    LongTexts,   \* texts longer than VIR_UUID_STRING_BUFLEN
    UuidOf,      \* the uuid of each text whose first 36 characters uuid_parse accepts
    NoUuid,      \* the cleared uuid
    NotAnObject, \* a text that is no JSON object
    MaxTokens    \* JSON_REQUEST_MAX_TOKENS

\* A member has a key, and a value with its type, its text, the number of its
\* direct items and the tokens inside it, nested ones included.  Only arrays and
\* objects have any.  The first tokens inside an array are its direct items as
\* long as these are strings, so if as many as it has items are strings there
\* are no others.  Neither key starts the other.
ASSUME RequestAssumption ==
    /\ Inputs \subseteq Seq([key : STRING, type : STRING, text : STRING, size : Nat,
                            items : Seq([type : STRING, text : STRING, size : Nat])])
    /\ \A q \in Inputs : \A j \in DOMAIN q :
           /\ q[j].size <= Len(q[j].items)
           /\ q[j].type \notin {"array", "object"} => q[j].items = <<>>
           /\ q[j].type = "array" /\ (\A k \in 1 .. q[j].size : q[j].items[k].type = "string")
                  => Len(q[j].items) = q[j].size
    /\ {<<"req-id", "get-stats">>, <<"get-stats", "req-id">>} \cap Shortened = {}
    /\ MaxTokens \in Nat

VARIABLES
    input,       \* the request, or a text that is not a JSON object
    i,           \* the index of the loop
    uuid, stats, \* of the SampleRequest
    ret          \* "parsing", or the value returned

vars == <<input, i, uuid, stats, ret>>

\* The names parse_stats_string knows, in the order it tries them.
StatNames == <<"state", "cpu-total", "balloon", "vcpu", "interface", "block">>

Starts(text, word) == text = word \/ <<text, word>> \in Shortened

-----------------------------------------------------------------------------
(* jsmn_parse *)

Token(type, text, size) == [type |-> type, text |-> text, size |-> size]
MemberTokens(m) ==
    <<Token("string", m.key, 1), Token(m.type, m.text, m.size)>>
      \o [j \in 1 .. Len(m.items) |-> Token(m.items[j].type, m.items[j].text, m.items[j].size)]
ObjectTokens == FlattenSeq([j \in 1 .. Len(input) |-> MemberTokens(input[j])])

\* tokens[0] is the object itself; tokens[j] is token j of ObjectTokens.
tokens == ObjectTokens
r == Len(tokens) + 1

-----------------------------------------------------------------------------
is_token(tok, s) == tok.type = "string" /\ Starts(tok.text, s)
has_next == i + 1 < r

\* The first name that text starts.
Matches(text) == {n \in DOMAIN StatNames : Starts(text, StatNames[n])}
StatOf(text) == StatNames[CHOOSE n \in Matches(text) : \A m \in Matches(text) : n <= m]

Items == SubSeq(tokens, i + 2, i + 1 + tokens[i + 1].size)
parse_stats_string(text) == IF Matches(text) = {} THEN {} ELSE {StatOf(text)}
GoodItem(tok) == tok.type = "string" /\ Matches(tok.text) # {}

Fail == ret' = "error" /\ UNCHANGED <<i, uuid, stats>>

\* A text uuid_parse refuses leaves sr->uuid as it was.
ParseReqId ==
    LET val == tokens[i + 1]
    IN  IF val.type # "string" \/ val.text \in LongTexts THEN Fail
        ELSE /\ uuid' = IF val.text \in DOMAIN UuidOf THEN UuidOf[val.text] ELSE uuid
             /\ i' = i + 2
             /\ UNCHANGED <<stats, ret>>

\* Mutation: an unknown name is ignored, as its log message says.
ParseStats_Ignore ==
    IF tokens[i + 1].type # "array" THEN Fail
    ELSE /\ stats' = stats \cup UNION {parse_stats_string(Items[j].text) : j \in DOMAIN Items}
         /\ i' = i + tokens[i + 1].size + 2
         /\ UNCHANGED <<uuid, ret>>
\* The items are taken one by one, up to the first bad one.
ParseStats ==
    LET read == {j \in DOMAIN Items : \A k \in 1 .. j : GoodItem(Items[k])}
    IN  IF tokens[i + 1].type # "array" THEN Fail
        ELSE /\ stats' = stats \cup UNION {parse_stats_string(Items[j].text) : j \in read}
             /\ IF read = DOMAIN Items
                THEN i' = i + tokens[i + 1].size + 2 /\ UNCHANGED <<uuid, ret>>
                ELSE ret' = "error" /\ UNCHANGED <<i, uuid>>

\* An unexpected key is skipped, its value is looked at as the next key.
Unexpected == i' = i + 1 /\ UNCHANGED <<uuid, stats, ret>>

\* One turn of the loop.
ParseToken ==
    /\ ret = "parsing" /\ i < r
    /\ IF is_token(tokens[i], "req-id") /\ has_next THEN ParseReqId
       ELSE IF is_token(tokens[i], "get-stats") /\ has_next THEN ParseStats
       ELSE Unexpected
    /\ UNCHANGED input

ParseDone ==
    /\ ret = "parsing" /\ i >= r
    /\ ret' = "ok" /\ UNCHANGED <<input, i, uuid, stats>>

sampler_parse_request ==
    /\ input \in Inputs \cup {NotAnObject}
    /\ i = 1 /\ uuid = NoUuid /\ stats = {}
    /\ ret = IF input = NotAnObject \/ r > MaxTokens THEN "error" ELSE "parsing"

Init == sampler_parse_request
Next == ParseToken \/ ParseDone
Spec == Init /\ [][Next]_vars

-----------------------------------------------------------------------------
(* What a request means, member by member, with the keys the code looks for *)

GoodStats(m) ==
    m.type = "array" /\ \A j \in DOMAIN m.items :
        m.items[j].type = "string" /\ Matches(m.items[j].text) # {}
GoodMember(m) ==
    CASE m.key = "req-id" -> m.type = "string" /\ m.text \notin LongTexts
      [] m.key = "get-stats" -> GoodStats(m)
      [] OTHER -> TRUE

\* A member that has a known key, or of which the walk takes no token for one.
LikeKey(tok) == is_token(tok, "req-id") \/ is_token(tok, "get-stats")
Proper(m) ==
    \/ m.key \in {"req-id", "get-stats"}
    \/ \A j \in DOMAIN MemberTokens(m) : ~LikeKey(MemberTokens(m)[j])

Members == {input[j] : j \in DOMAIN input}
Asked == {StatOf(item.text) : item \in UNION {ToSet(m.items) : m \in
             {x \in Members : x.key = "get-stats"}}}
Ids == {j \in DOMAIN input : input[j].key = "req-id" /\ input[j].text \in DOMAIN UuidOf}

\* The walk and the meaning agree on every request in which nothing but a known
\* key passes for one, neither an abbreviation of it nor a text inside another
\* member, at any depth: the same requests are refused, no member is missed or
\* read twice, the last of several request ids counts, and a request with too
\* many tokens is refused rather than cut short.
ParsesAsMeant ==
    input # NotAnObject /\ (\A m \in Members : Proper(m)) =>
        /\ ret = "error" => r > MaxTokens \/ \E m \in Members : ~GoodMember(m)
        /\ ret = "ok" =>
               /\ r <= MaxTokens /\ \A m \in Members : GoodMember(m)
               /\ stats = Asked
               /\ uuid = IF Ids = {} THEN NoUuid ELSE UuidOf[input[Max(Ids)].text]

\* What tests/test_sampler_request.c (lines 92 to 126) expects of the key
\* "stats": a request in which it is not an array of known names is refused.
StatsKeyChecked ==
    ret = "ok" => \A m \in Members : m.key = "stats" => GoodStats(m)
=============================================================================
