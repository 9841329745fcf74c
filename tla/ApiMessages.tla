----------------------------- MODULE ApiMessages -----------------------------
(***************************************************************************)
(* Messages that come through the HTTP API of the platform and not from a  *)
(* network server (mqtt/api.go): who sent them, and the entities made of a *)
(* payload that no profile understands.                                    *)
(*                                                                         *)
(* A payload is [ok, bytes, json]: good base64 or not, its bytes, and the  *)
(* JSON object they spell, <<>> if they do not.  The fields of that object *)
(* map a name to [scalar, value]; Spelling gives the characters of a name. *)
(***************************************************************************)
EXTENDS LnsAdapters

CONSTANTS Spelling

Upper == "A" :> "a" @@ "B" :> "b"
Alphanumeric == {"a", "b", "1"}

Strings(o) == {"serialNumber", "payload"} \subseteq DOMAIN o
isAPIMessage(payload) ==
    \/ Follow(payload, <<"metadata", "api_source">>) = <<"api">>
    \/ Strings(payload)
    \/ Strings(Wrapped(payload))

\* The wrapped message has the fields if there is one; none stands for an error.
extractAPIPayload(payload) ==
    LET source == IF "decoded_raw_data" \in DOMAIN payload THEN Wrapped(payload) ELSE payload
        serial == Follow(source, <<"serialNumber">>)
        content == Follow(source, <<"payload">>)
    IN  IF serial = <<>> \/ content = <<>> THEN <<>>
        ELSE <<[SerialNumber |-> serial[1], Payload |-> content[1]]>>

Trim(s, chars) ==
    LET kept == {n \in DOMAIN s : s[n] \notin chars}
    IN  IF kept = {} THEN <<>>
        ELSE SubSeq(s, CHOOSE n \in kept : \A k \in kept : n <= k,
                       CHOOSE n \in kept : \A k \in kept : k <= n)

\* Lower case, a dash for an underscore, one underscore for a run of others.
normalizeAPIEntityKey(spelled) ==
    LET lower(c) == IF c \in DOMAIN Upper THEN Upper[c] ELSE c
        dash(c) == IF c = "-" THEN "_" ELSE c
        plain(c) == c \in Alphanumeric \cup {"_"}
        trimmed == Trim(spelled, {" "})
        chars == [n \in DOMAIN trimmed |-> dash(lower(trimmed[n]))]
        joined == FoldLeftDomain(LAMBDA out, n :
                      IF plain(chars[n]) THEN Append(out, chars[n])
                      ELSE IF n > 1 /\ ~plain(chars[n - 1]) THEN out
                      ELSE Append(out, "_"), <<>>, chars)
        bare == Trim(joined, {"_"})
    IN  IF bare = <<>> THEN <<"value">> ELSE bare

APIEntity(key, state) == [key |-> key, state |-> state]
RawPayloadEntity(state) == <<APIEntity(<<"raw_payload">>, state)>>

\* A mutant: an object without a scalar gives nothing.
buildAPIScalarEntities(fields) ==
    LET scalars == SetToSeq({name \in DOMAIN fields : fields[name].scalar})
    IN  [n \in DOMAIN scalars |-> APIEntity(normalizeAPIEntityKey(Spelling[scalars[n]]),
                                           fields[scalars[n]].value)]
\* The fields are taken in the order of their names, which is left out here.
buildAPIJSONEntities(fields) ==
    LET scalars == SetToSeq({name \in DOMAIN fields : fields[name].scalar})
    IN  IF scalars = <<>> THEN RawPayloadEntity("json")
        ELSE [n \in DOMAIN scalars |->
                 APIEntity(normalizeAPIEntityKey(Spelling[scalars[n]]),
                           fields[scalars[n]].value)]

buildAPIEntities(content) ==
    IF content.json # <<>> THEN buildAPIJSONEntities(content.json[1])
    ELSE RawPayloadEntity("base64")
=============================================================================
