----------------------------- MODULE AuditRows -----------------------------
(***************************************************************************)
(* What an audit row (audit/incoming_event_builder.py) and a log line      *)
(* (core/log_processors.py) hold: bodies, parameters, headers and fields   *)
(* are masked by key at any depth (core/masking.py), or described when     *)
(* they cannot be; tokens in URLs are masked; Postgres must accept the     *)
(* rest.  Pure functions of a request, over documents given as trees; the  *)
(* actions apply each to one input.                                        *)
(***************************************************************************)
EXTENDS Naturals, Sequences, SequencesExt

CONSTANTS
    Strings,        \* words of keys and URLs, and texts
    MaxDepth,       \* nested calls that json.loads and mask bear: Python's RecursionError
    Documents,      \* what json.loads makes of bodies, also of deeper ones
    Forms,          \* what parse_qs makes of bodies; the parameters and headers
    Urls,           \* paths of requests, with the rest of a header's URL
    Queries,        \* of logged paths
    Fields          \* of log lines

VARIABLE built      \* the part of a row under inspection, and what it is of

-----------------------------------------------------------------------------
(* Documents: <<"leaf", text>>, <<"list", documents>> or <<"map", items>>,  *)
(* an item being <<key, document>>.  A key is its name, the words that      *)
(* normalising leaves, and what is in it besides.                           *)

Words == Seq(Strings)
Rest == {"plain", "NUL", "replaced", "surrogate"}
Key == [name : Words, rest : Rest]

Deeper(docs) ==
    ({"leaf"} \X Strings) \union ({"list"} \X Seq(docs)) \union ({"map"} \X Seq(Key \X docs))

Nested == INSTANCE LevelRecursion WITH Base <- {}, Up <- Deeper

\* The documents that take at most n nested calls to walk.
Docs(n) == Nested!Level[n]

\* A walk of documents is a function that is defined level by level, from the
\* walk of none: the functions of the code are recursive.
NoWalk == [value \in {} |-> value]

\* The texts of a document and of its keys, each with the names above it.
TextsBelow(texts, item) ==
    {<<{}, item[1].rest>>}
    \union {<<text[1] \union {item[1].name}, text[2]>> : text \in texts[item[2]]}

TextsUp(texts) == [value \in Deeper(DOMAIN texts) |->
    CASE value[1] = "map" ->
           UNION {TextsBelow(texts, value[2][i]) : i \in DOMAIN value[2]}
      [] value[1] = "list" -> UNION {texts[value[2][i]] : i \in DOMAIN value[2]}
      [] value[1] = "leaf" -> {<<{}, value[2]>>}]

Reading == INSTANCE LevelRecursion WITH Base <- NoWalk, Up <- TextsUp

Texts(value) == Reading!Level[MaxDepth][value]

\* What json.loads reads and jsonb refuses, of texts and of keys.
Refused == {"NaN", "surrogate"}

\* Without the strings of the code there is no row; a description is two deep.
\* parse_qs and QueryDict give texts, and replace what is not UTF-8; headers and
\* paths are decoded whole.  "none" stands for no value, and is no word.
ASSUME StringsAssumption ==
    {"***", "replaced", "about", "content", "type", "size"} \subseteq Strings
ASSUME DepthAssumption == MaxDepth \in Nat /\ MaxDepth > 1
ASSUME FormsAssumption == \A form \in Forms :
    form \in Docs(MaxDepth) /\ \A text \in Texts(form) : text[2] \notin Refused
ASSUME UrlsAssumption == \A url \in Urls :
    /\ url \in [parsable : BOOLEAN, path : Seq(Strings \ (Refused \union {"none"})),
                rest : Seq(Strings \ (Refused \union {"none"}))]
ASSUME QueriesAssumption == \A query \in Queries : query \in Seq([key : Words, value : Strings])
ASSUME FieldsAssumption == \A fields \in Fields : fields \in Docs(MaxDepth)

-----------------------------------------------------------------------------
(* DataMasker *)

\* One name stands for each list of DataMasker.
SensitiveKeys == {<<"key">>, <<"session", "id">>}
SensitiveParts == {<<"password">>, <<"access", "key">>}
SensitiveSuffixes == {<<"token">>, <<"api", "key">>}

HasPart(name, part) ==
    \E i \in 0 .. Len(name) - Len(part) : SubSeq(name, i + 1, i + Len(part)) = part

IsSensitive(name) ==
    \/ name \in SensitiveKeys
    \/ \E suffix \in SensitiveSuffixes : IsSuffix(suffix, name)
    \/ \E part \in SensitiveParts : HasPart(name, part)

Replacement == <<"leaf", "***">>

Redact(value) ==
    IF value[1] = "list" THEN <<"list", [i \in DOMAIN value[2] |-> Replacement]>> ELSE Replacement

MaskItem(mask, item) ==
    <<item[1], IF IsSensitive(item[1].name) THEN Redact(item[2]) ELSE mask[item[2]]>>

\* Mutant of MaskUp: lists are left as they are.
MaskUpNoLists(mask) == [value \in Deeper(DOMAIN mask) |->
    IF value[1] = "map" THEN <<"map", [i \in DOMAIN value[2] |-> MaskItem(mask, value[2][i])]>>
    ELSE value]

MaskUp(mask) == [value \in Deeper(DOMAIN mask) |->
    CASE value[1] = "map" -> <<"map", [i \in DOMAIN value[2] |-> MaskItem(mask, value[2][i])]>>
      [] value[1] = "list" -> <<"list", [i \in DOMAIN value[2] |-> mask[value[2][i]]]>>
      [] value[1] = "leaf" -> value]

Masking == INSTANCE LevelRecursion WITH Base <- NoWalk, Up <- MaskUp

Mask(value) == Masking!Level[MaxDepth][value]

-----------------------------------------------------------------------------
(* Bodies *)

\* json.dumps(allow_nan=False) and the encoding, of keys as of texts: jsonb
\* takes neither NaN nor a lone surrogate.
JsonbTakes(value) == \A text \in Texts(value) : text[2] \notin Refused

About == <<"leaf", "about">>
PlainKey(name) == [name |-> name, rest |-> "plain"]
Described ==
    <<"map", <<<<PlainKey(<<"content", "type">>), About>>, <<PlainKey(<<"size">>), About>>>>>>
NoBody == <<"map", <<>>>>

\* A body that is read: its media type, its size, whether it is UTF-8, and what
\* parse_qs or json.loads makes of it, Described when they refuse, also for its
\* depth.
GetBody(body) ==
    CASE body.size = "empty" -> NoBody
      [] \/ body.size = "large"
         \/ body.type \in {"multipart", "html"}
         \/ ~body.utf8 -> Described
      [] OTHER -> IF body.type = "form" \/ (body.value \in Docs(MaxDepth) /\ JsonbTakes(body.value))
                  THEN Mask(body.value) ELSE Described

-----------------------------------------------------------------------------
(* _without_nul, of all that a row holds *)

CleanText(text) == IF text = "NUL" THEN "replaced" ELSE text

\* Mutant of CleanItem: keys are left as they are.
CleanItemValue(clean, item) == <<item[1], clean[item[2]]>>

\* Of two keys that become one the later counts; here both are kept.
CleanItem(clean, item) == <<[item[1] EXCEPT !.rest = CleanText(@)], clean[item[2]]>>

WithoutNulUp(clean) == [value \in Deeper(DOMAIN clean) |->
    CASE value[1] = "map" -> <<"map", [i \in DOMAIN value[2] |-> CleanItem(clean, value[2][i])]>>
      [] value[1] = "list" -> <<"list", [i \in DOMAIN value[2] |-> clean[value[2][i]]]>>
      [] value[1] = "leaf" -> <<"leaf", CleanText(value[2])>>]

Cleaning == INSTANCE LevelRecursion WITH Base <- NoWalk, Up <- WithoutNulUp

WithoutNul(value) == Cleaning!Level[MaxDepth][value]
CleanUrl(words) == [i \in DOMAIN words |-> CleanText(words[i])]

StoredBody(body) == WithoutNul(GetBody(body))

\* The parameters, and the headers but for those that hold a URL.
StoredFields(fields) == WithoutNul(Mask(fields))

-----------------------------------------------------------------------------
(* Paths, and the Referer and Location headers.  A path is the sequence of  *)
(* what its slashes separate: a slash at its end leaves "" there.           *)

\* The pages of users/urls.py whose route holds a token.
LinkPages == {"verify", "password-reset", "invite"}

\* resolve(): the route <page>/<uidb64>/<token>/ of one of them.
ResolvesToToken(path) ==
    Len(path) = 4 /\ path[1] \in LinkPages /\ path[2] # "" /\ path[3] # "" /\ path[4] = ""

\* Mutant of FindUrlToken: the path as it stands only.
FindUrlTokenExact(path) == {found[3] : found \in {p \in {path} : ResolvesToToken(p)}}

\* The token, if any: a link without its slash still redirects to the page.
FindUrlToken(path) == {found[3] : found \in {p \in {path, Append(path, "")} : ResolvesToToken(p)}}

\* str.replace: wherever the token is in the URL.  (Bound: as a word of its own.)
MaskUrlToken(url, path) ==
    [i \in DOMAIN url |-> IF url[i] \in FindUrlToken(path) THEN "***" ELSE url[i]]

\* A header's URL that urlsplit refuses is masked whole.
MaskUrlHeader(url) == IF url.parsable THEN MaskUrlToken(url.path \o url.rest, url.path) ELSE <<"***">>

StoredUrl(url) == [path   |-> CleanUrl(MaskUrlToken(url.path, url.path)),
                   header |-> CleanUrl(MaskUrlHeader(url))]

-----------------------------------------------------------------------------
(* Log lines: the path and the query of the request they are about, and the
   fields bound to them. *)

\* A pair has its key as unquote_plus reads it; one without "=" has no value.
MaskPair(pair) ==
    IF pair.value # "none" /\ IsSensitive(pair.key) THEN [pair EXCEPT !.value = "***"] ELSE pair
MaskPairToken(pair, path) ==
    IF pair.value \in FindUrlToken(path) THEN [pair EXCEPT !.value = "***"] ELSE pair
MaskQuery(query, path) == [i \in DOMAIN query |-> MaskPair(MaskPairToken(query[i], path))]

\* mask_url_tokens, from the path of Django's record or of the "METHOD
\* /path?query" text, over that text and the event's; then mask_sensitive.
LoggedLine(line) ==
    [event  |-> MaskUrlToken(line.url.path \o line.url.rest, line.url.path),
     path   |-> MaskUrlToken(line.url.path, line.url.path),
     query  |-> MaskQuery(line.query, line.url.path),
     fields |-> Mask(line.fields)]

-----------------------------------------------------------------------------
Bodies ==
    [size : {"empty", "fits", "large"}, utf8 : BOOLEAN, type : {"form"}, value : Forms]
    \union [size : {"empty", "fits", "large"}, utf8 : BOOLEAN,
            type : {"json", "html", "multipart"}, value : Documents]
Lines == [url : Urls, query : Queries, fields : Fields]

NotBuilt == [part |-> "none"]

BuildBody ==
    \E body \in Bodies : built' = [part |-> "body", of |-> body, stored |-> StoredBody(body)]
BuildFields ==
    \E fields \in Forms : built' = [part |-> "fields", of |-> fields, stored |-> StoredFields(fields)]
BuildUrls ==
    \E url \in Urls : built' = [part |-> "url", of |-> url, stored |-> StoredUrl(url)]
WriteLine ==
    \E line \in Lines : built' = [part |-> "line", of |-> line, stored |-> LoggedLine(line)]

RowsInit == built = NotBuilt
RowsNext == BuildBody \/ BuildFields \/ BuildUrls \/ WriteLine
RowsSpec == RowsInit /\ [][RowsNext]_built

-----------------------------------------------------------------------------
Visible(value) == {text \in Texts(value) : \A name \in text[1] : ~IsSensitive(name)}

\* Below a secret key there is nothing but the replacement.
NoSecretIn(value) == \A text \in Texts(value) \ Visible(value) : text[2] = "***"

\* A text or a key of the description, or one that was sent, but for its NULs.
OnlySent(sent, stored) ==
    \A text \in Visible(stored) :
        \/ text \in Texts(Described)
        \/ text \in Visible(sent)
        \/ text[2] = "replaced" /\ <<text[1], "NUL">> \in Visible(sent)

\* The token of a mailed link, whose reader may have dropped the last slash.
LinkTokens(path) ==
    {token \in Strings \ {""} : \E page \in LinkPages, uid \in Strings \ {""} :
        path = <<page, uid, token>> \/ path = <<page, uid, token, "">>}

\* "Secret keys ... become ***" (README.md:365), and of log lines the same: no
\* text or key below a secret key is stored, however deep in maps and lists, no
\* value of a secret parameter or header, and no text that was not sent.
SecretsMasked ==
    /\ built.part = "body" => NoSecretIn(built.stored) /\ OnlySent(built.of.value, built.stored)
    /\ built.part = "fields" => NoSecretIn(built.stored) /\ OnlySent(built.of, built.stored)
    /\ built.part = "line" =>
         /\ NoSecretIn(built.stored.fields)
         /\ \A i \in DOMAIN built.of.query :
              LET sent == built.of.query[i]
                  kept == built.stored.query[i]
              IN  IF IsSensitive(sent.key) THEN kept.value \in {"none", "***"}
                  ELSE \/ kept = sent
                       \/ /\ sent.value \in LinkTokens(built.of.url.path)
                          /\ kept = [sent EXCEPT !.value = "***"]

Storable(text) == text \notin Refused \union {"NUL"}

\* "Text that isn't JSON Postgres can store ... as {content_type, size}"
\* (README.md:367): whatever is sent, neither a text nor a key of the row's body,
\* parameters and headers, nor its URLs hold what jsonb and text refuse, for a
\* refused INSERT is not retried and the request would leave no trace.
RowsStorable ==
    /\ built.part \in {"body", "fields"} => \A text \in Texts(built.stored) : Storable(text[2])
    /\ built.part = "url" =>
         /\ \A i \in DOMAIN built.stored.path : Storable(built.stored.path[i])
         /\ \A i \in DOMAIN built.stored.header : Storable(built.stored.header[i])

\* What is neither the replacement of a token nor that of a NUL, but the token.
IsToken(word, path) == word \in LinkTokens(path) \ {"***", "replaced"}
Hidden(words, path) == \A i \in DOMAIN words : ~IsToken(words[i], path)

\* "URL tokens (also inside the Referer and Location headers) become ***"
\* (README.md:365): the token of a link, opened with its slash or without, is
\* nowhere in the row's path, in a header that holds the link, or in the event,
\* the path and the query of a log line about it.
TokensMasked ==
    /\ built.part = "url" =>
         Hidden(built.stored.path, built.of.path) /\ Hidden(built.stored.header, built.of.path)
    /\ built.part = "line" =>
         LET path == built.of.url.path
         IN  /\ Hidden(built.stored.event, path) /\ Hidden(built.stored.path, path)
             /\ \A i \in DOMAIN built.stored.query : ~IsToken(built.stored.query[i].value, path)
=============================================================================
