------------------------------ MODULE IotCodec ------------------------------
(***************************************************************************)
(* The topic strings of raiot-protocol's IotCodec (iot_codec.rs): the     *)
(* device's encoding of telemetry headers and request ids into topic      *)
(* names, and the decoding of the hub's twin responses and desired-       *)
(* property updates from theirs.  A topic is a TLC string; a character    *)
(* is a one-character string taken with SubSeq, and its byte value is its *)
(* position in Printable (ASCII 32..126).  Message bodies are abstracted  *)
(* to what serde_json makes of them.                                      *)
(***************************************************************************)
EXTENDS Naturals, Sequences, SequencesExt

CONSTANTS
    Client,         \* the ClientIdentity: [device |-> id, module |-> id or ""]
    Headers,        \* the Option<HashMap> headers a D2CMsg may carry
    HubStatuses,    \* status codes the hub puts in a twin response topic
    Versions        \* the Option<u64> $version of a twin response

(* Rust's Option<T>: None is << >>, Some(x) is << x >>.                    *)
None == << >>

(* ASCII 32..126 in order; code 96, the backquote, which a TLA+ string    *)
(* cannot hold, stands as a tab.                                           *)
Printable ==
    " !\"#$%&'()*+,-./0123456789:;<=>?@ABCDEFGHIJKLMNOPQRSTUVWXYZ[\\]^_\tabcdefghijklmnopqrstuvwxyz{|}~"

HexDigits == "0123456789ABCDEF"

CharAt(s, i) == SubSeq(s, i, i)

Code(c) == 31 + (CHOOSE i \in 1..Len(Printable) : CharAt(Printable, i) = c)

CharOf(n) == CharAt(Printable, n - 31)

Concat(strs) == IF strs = <<>> THEN "" ELSE FlattenSeq(strs)

(* Rust's u64::to_string.                                                  *)
RECURSIVE Decimal(_)
Decimal(n) ==
    IF n < 10 THEN CharAt("0123456789", n + 1)
    ELSE Decimal(n \div 10) \o CharAt("0123456789", (n % 10) + 1)

(* s with every occurrence of the character sep as a boundary: str::split. *)
RECURSIVE Split(_, _)
Split(s, sep) ==
    IF \A i \in 1..Len(s) : CharAt(s, i) # sep THEN << s >>
    ELSE LET i == CHOOSE j \in 1..Len(s) :
                    CharAt(s, j) = sep /\ \A k \in 1..j-1 : CharAt(s, k) # sep
         IN << SubSeq(s, 1, i - 1) >> \o Split(SubSeq(s, i + 1, Len(s)), sep)

(* Everything after the first sep, or None when s has no sep.              *)
After(s, sep) ==
    LET parts == Split(s, sep)
    IN IF Len(parts) = 1 THEN None
       ELSE << Concat([i \in 1..Len(parts) - 1 |->
                         IF i = 1 THEN parts[2] ELSE sep \o parts[i + 1]]) >>

(***************************************************************************)
(* percent_encoding's NON_ALPHANUMERIC set: every byte but ASCII letters  *)
(* and digits becomes %XY with upper-case hex.                             *)
(***************************************************************************)
IsAlnum(c) == Code(c) \in (48..57) \cup (65..90) \cup (97..122)

HexByte(n) == CharAt(HexDigits, (n \div 16) + 1) \o CharAt(HexDigits, (n % 16) + 1)

PercentEncodeKeepsSeparators(s) ==
    Concat([i \in 1..Len(s) |->
              IF IsAlnum(CharAt(s, i)) \/ CharAt(s, i) \in {"&", "="} THEN CharAt(s, i)
              ELSE "%" \o HexByte(Code(CharAt(s, i)))])

PercentEncode(s) ==
    Concat([i \in 1..Len(s) |->
              IF IsAlnum(CharAt(s, i)) THEN CharAt(s, i)
              ELSE "%" \o HexByte(Code(CharAt(s, i)))])

(* The property bag of encode_telemetry_message: the headers in the       *)
(* HashMap's iteration order, each key and value percent-encoded, joined  *)
(* as key=value with '&'.                                                  *)
EncodeHeaders(headers, order) ==
    Concat([i \in 1..Len(order) |->
              (IF i = 1 THEN "" ELSE "&")
              \o PercentEncode(order[i]) \o "=" \o PercentEncode(headers[order[i]])])

(* TopicName::new of the mqtt crate: no wildcard characters '+' or '#'.    *)
TopicNameValid(t) == \A i \in 1..Len(t) : CharAt(t, i) \notin {"+", "#"}

(* encode_telemetry_message's topic; "panic" for the expect on a topic     *)
(* TopicName::new refuses.  headers is the Option<HashMap> as a sequence   *)
(* of at most one map.                                                     *)
TelemetryTopic(client, headers, order) ==
    LET channel == IF client.module = ""
                   THEN "devices/" \o client.device \o "/messages/events/"
                   ELSE "devices/" \o client.device \o "/modules/" \o client.module
                          \o "/messages/events/"
        topic == IF headers = <<>> THEN channel
                 ELSE channel \o EncodeHeaders(headers[1], order)
    IN IF TopicNameValid(topic) THEN topic ELSE "panic"

(* encode_read_twin's topic. *)
ReadTwinTopic(rid) == "$iothub/twin/GET/?$rid=" \o rid

(* encode_direct_method_response's topic, "panic" for the expect on a     *)
(* topic TopicName::new refuses.  status is the handler's status code.    *)
DmiResponseTopic(status, rid) ==
    LET topic == "$iothub/methods/res/" \o Decimal(status) \o "/?$rid=" \o rid
    IN IF TopicNameValid(topic) THEN topic ELSE "panic"

-----------------------------------------------------------------------------
(***************************************************************************)
(* The parsing the decoder relies on, from the url crate and Rust's core: *)
(* form_urlencoded::parse, Url::query_pairs of "mqtt://" + topic, and     *)
(* str::parse of an unsigned integer.                                      *)
(***************************************************************************)
IsHex(c) == \E i \in 1..16 : c \in {CharAt(HexDigits, i), CharAt("0123456789abcdef", i)}

HexValue(c) == CHOOSE v \in 0..15 :
                 c \in {CharAt(HexDigits, v + 1), CharAt("0123456789abcdef", v + 1)}

(* percent_decode_str: %XY is a byte, and a '%' not followed by two hex   *)
(* digits stays as it is.  With plus, form decoding also reads '+' as a    *)
(* space.                                                                  *)
RECURSIVE Unescape(_, _)
Unescape(s, plus) ==
    IF s = "" THEN ""
    ELSE IF CharAt(s, 1) = "%" /\ Len(s) >= 3 /\ IsHex(CharAt(s, 2)) /\ IsHex(CharAt(s, 3))
    THEN CharOf(16 * HexValue(CharAt(s, 2)) + HexValue(CharAt(s, 3)))
           \o Unescape(SubSeq(s, 4, Len(s)), plus)
    ELSE (IF plus /\ CharAt(s, 1) = "+" THEN " " ELSE CharAt(s, 1))
           \o Unescape(SubSeq(s, 2, Len(s)), plus)

PercentDecode(s) == Unescape(s, FALSE)

FormDecode(s) == Unescape(s, TRUE)

(* The name-value pairs of a query string, in order; empty pieces are      *)
(* skipped and a piece without '=' has the empty value.                    *)
FormParse(q) ==
    LET pieces == SelectSeq(Split(q, "&"), LAMBDA p : p # "")
        pair(p) == LET v == After(p, "=")
                   IN << FormDecode(Split(p, "=")[1]), IF v = None THEN "" ELSE FormDecode(v[1]) >>
    IN [i \in 1..Len(pieces) |-> pair(pieces[i])]

QueryPairs(topic) ==
    LET q == After(topic, "?") IN IF q = None THEN << >> ELSE FormParse(q[1])

(* HashMap collected from the pairs: the last value of a name wins.        *)
Lookup(pairs, name) ==
    IF \A i \in DOMAIN pairs : pairs[i][1] # name THEN None
    ELSE << pairs[CHOOSE i \in DOMAIN pairs :
                    pairs[i][1] = name /\ \A j \in i+1..Len(pairs) : pairs[j][1] # name][2] >>

PairsToMap(pairs) == [k \in {pairs[i][1] : i \in DOMAIN pairs} |-> Lookup(pairs, k)[1]]

(* The path of "mqtt://" + topic: the topic up to its query; its first    *)
(* segment is the URL's host.                                              *)
UrlPath(topic) == Split(topic, "?")[1]

(* The largest u16, and the largest u64 as far as TLC's 32-bit integers    *)
(* reach; no version of the model comes near it.                           *)
U16Max == 65535

U64Max == 2147483647

(* str::parse::<u16> and ::<u64>: an optional '+', then one digit or more, *)
(* no larger than max; None otherwise.                                     *)
ParseUnsigned(s, max) ==
    LET digits == IF Len(s) > 0 /\ CharAt(s, 1) = "+" THEN SubSeq(s, 2, Len(s)) ELSE s
        digit(i) == CHOOSE d \in 0..9 : CharAt(digits, i) = CharAt("0123456789", d + 1)
        value[i \in 0..Len(digits)] == IF i = 0 THEN 0 ELSE 10 * value[i - 1] + digit(i)
    IN IF /\ Len(digits) > 0
          /\ \A i \in 1..Len(digits) : \E d \in 0..9 : CharAt(digits, i) = CharAt("0123456789", d + 1)
          /\ value[Len(digits)] <= max
       THEN << value[Len(digits)] >> ELSE None

-----------------------------------------------------------------------------
(***************************************************************************)
(* Decoding a PUBLISH from the hub.  A payload is what serde_json makes   *)
(* of it as an Option<T>: null is None, a JSON object or string is Some   *)
(* when T accepts it, and anything else (no JSON, an empty payload) fails. *)
(* A result is a record tagged by type: the decoder's errors are          *)
(* [type |-> "err"], and a panic of the decoder is [type |-> "panic"].    *)
(***************************************************************************)
Payloads == {"object", "string", "null", "invalid"}

(* The JSON kinds serde_json::Value, Map<String, Value> and String accept. *)
JsonValue == {"object", "string"}
JsonMap == {"object"}
JsonString == {"string"}

Err(e) == [type |-> "err", err |-> e]

Panic == [type |-> "panic"]

DeserializeBody(payload, accepts) ==
    CASE payload = "null"      -> [ok |-> TRUE, body |-> None]
      [] payload \in accepts   -> [ok |-> TRUE, body |-> << payload >>]
      [] OTHER                 -> [ok |-> FALSE]

GetStatusCode(code) ==
    CASE code = 429            -> [tag |-> "TooManyRequests", code |-> 0]
      [] code = 200            -> [tag |-> "OK", code |-> 0]
      [] code = 204            -> [tag |-> "NoContent", code |-> 0]
      [] code \in 500..599     -> [tag |-> "ServerError", code |-> code]
      [] OTHER                 -> [tag |-> "UnknownStatusCode", code |-> code]

ExtractVersion(pairs) ==
    LET v == Lookup(pairs, "$version")
    IN CASE v = None                           -> [ok |-> TRUE, version |-> None]
         [] ParseUnsigned(v[1], U64Max) # None -> [ok |-> TRUE, version |-> ParseUnsigned(v[1], U64Max)]
         [] OTHER                              -> [ok |-> FALSE]

TwinStatusFieldShort(topic) == SubSeq(topic, 18, 19)

(* topic[17..20]: the three bytes after "$iothub/twin/res/"; a shorter      *)
(* topic panics the slice.                                                  *)
TwinStatusField(topic) == SubSeq(topic, 18, 20)

DecodeTwinResponse(topic, payload) ==
    LET pairs == QueryPairs(topic)
        rid == Lookup(pairs, "$rid")
        rest == SelectSeq(pairs, LAMBDA p : p[1] # "$rid")
        code == ParseUnsigned(TwinStatusField(topic), U16Max)
        body == IF code = << 200 >> THEN DeserializeBody(payload, JsonValue) ELSE [ok |-> TRUE, body |-> << >>]
        version == ExtractVersion(rest)
    IN CASE rid = None        -> Err("MissingRid")
         [] Len(topic) < 20   -> Panic
         [] code = None       -> Err("MissingStatusCode")
         [] ~body.ok          -> Err("InvalidMessageBody")
         [] ~version.ok       -> Err("InvalidVersionIdentifier")
         [] OTHER             -> [type |-> "twin_res", rid |-> rid[1], status |-> GetStatusCode(code[1]),
                                  body |-> body.body, version |-> version.version]

DecodeDesiredPropertiesUpdate(topic, payload) ==
    LET v == Lookup(QueryPairs(topic), "$version")
        body == DeserializeBody(payload, JsonMap)
    IN CASE v = None                          -> Err("MissingVersion")
         [] ParseUnsigned(v[1], U64Max) = None -> Err("InvalidVersionIdentifier")
         [] ~body.ok \/ body.body = << >>     -> Err("InvalidMessageBody")
         [] OTHER -> [type |-> "desired", version |-> ParseUnsigned(v[1], U64Max)[1],
                      body |-> body.body[1]]

(* Mutant: the method name is taken as it stands in the topic. *)
MethodNameRaw(segment) == segment

(* decode_direct_method_invocation's method name: the path segment,      *)
(* percent-decoded.                                                        *)
MethodName(segment) == PercentDecode(segment)

(* decode_direct_method_invocation: $rid from the query pairs, the body,   *)
(* then the URL's path segments methods/POST/<name>.  pid is the packet id *)
(* of the PUBLISH's QoS (qos_to_packet_id).                                *)
DecodeDirectMethodInvocation(topic, payload, pid) ==
    LET rid == Lookup(QueryPairs(topic), "$rid")
        body == DeserializeBody(payload, JsonValue)
        segs == Split(UrlPath(topic), "/")
    IN CASE rid = None    -> Err("MissingRid")
         [] ~body.ok      -> Err("InvalidMessageBody")
         [] Len(segs) < 3 -> Err("InvalidTopic")
         [] Len(segs) < 4 -> Err("MissingMethodName")
         [] OTHER -> [type |-> "dmi", rid |-> rid[1], method |-> MethodName(segs[4]),
                      body |-> body.body, pid |-> pid]

(* Mutant: the property bag is read from the segment after the device id's *)
(* next one, "devicebound".                                                 *)
C2DPropsSegmentEarly(segs) ==
    IF Len(segs) >= 4 THEN << PairsToMap(FormParse(segs[4])) >> ELSE None

(* decode_c2d_message's properties: segments.skip(2).next() after the      *)
(* first two segments, form-decoded into a HashMap; None when the topic    *)
(* has no fifth segment.                                                   *)
C2DPropsSegment(segs) ==
    IF Len(segs) >= 5 THEN << PairsToMap(FormParse(segs[5])) >> ELSE None

(* decode_c2d_message: the body (an Option<String>) first, then the device *)
(* id from the second segment and the properties.                          *)
DecodeC2DMessage(topic, payload, pid) ==
    LET body == DeserializeBody(payload, JsonString)
        segs == Split(topic, "/")
    IN CASE ~body.ok      -> Err("InvalidMessageBody")
         [] Len(segs) < 2 -> Err("MissingDeviceId")
         [] OTHER -> [type |-> "c2d", device |-> segs[2], props |-> C2DPropsSegment(segs),
                      body |-> body.body, pid |-> pid]

(* decode_publish_packet: the first topic prefix that matches decides.     *)
DecodePublish(topic, payload, pid) ==
    CASE IsPrefix("$iothub/twin/res/", topic) -> DecodeTwinResponse(topic, payload)
      [] IsPrefix("$iothub/twin/PATCH/properties/desired/", topic) ->
             DecodeDesiredPropertiesUpdate(topic, payload)
      [] IsPrefix("$iothub/methods/POST/", topic) ->
             DecodeDirectMethodInvocation(topic, payload, pid)
      [] IsPrefix("devices/", topic) -> DecodeC2DMessage(topic, payload, pid)
      [] OTHER -> [type |-> "unknown"]

-----------------------------------------------------------------------------
(***************************************************************************)
(* The hub's side, from spec.md section 4.C: the twin response topic it   *)
(* publishes and how it reads the device's topics.                         *)
(***************************************************************************)
HubTwinResTopic(code, rid, version) ==
    "$iothub/twin/res/" \o Decimal(code) \o "/?$rid=" \o rid
    \o (IF version = None THEN "" ELSE "&$version=" \o Decimal(version[1]))

StatusNumber(status) ==
    CASE status.tag = "OK"              -> 200
      [] status.tag = "NoContent"       -> 204
      [] status.tag = "TooManyRequests" -> 429
      [] OTHER                          -> status.code

(* A C2D message on the device's subscription, with its property bag      *)
(* form-encoded; and a direct method invocation, its name percent-encoded. *)
HubC2DTopic(device, props) ==
    "devices/" \o device \o "/messages/devicebound/"
    \o EncodeHeaders(props, CHOOSE o \in SetToSeqs(DOMAIN props) : TRUE)

HubDmiTopic(method, rid) ==
    "$iothub/methods/POST/" \o PercentEncode(method) \o "/?$rid=" \o rid

(* What the hub reads from a direct method response topic. *)
HubDmiResponse(topic) ==
    [rid |-> Lookup(QueryPairs(topic), "$rid")[1],
     status |-> ParseUnsigned(Split(topic, "/")[4], U16Max)[1]]

(* The header pairs of an Option<HashMap>. *)
HeaderPairs(headers) ==
    IF headers = << >> THEN {} ELSE { << k, headers[1][k] >> : k \in DOMAIN headers[1] }

(* The property bag the hub reads from a telemetry topic: its last path     *)
(* segment, form-decoded.                                                    *)
HubHeaders(topic) == Range(FormParse(Last(Split(topic, "/"))))

=============================================================================
