----------------------------- MODULE MessageHash -----------------------------
(***************************************************************************)
(* The canonical hash of a message, which is what nodes sign: the bytes    *)
(* that each of the four implementations feeds to SHA-256.  The C++ node   *)
(* has a hand-written function per core type and a reflective one for the  *)
(* rest; the Node.js, Python and Rust clients walk the schema generated    *)
(* from the proto files (scripts/generate_messages.py).                    *)
(*                                                                         *)
(* A 32-bit word is two bytes here and a 64-bit word four, a byte less     *)
(* than Byte; Raise in a feed is the exception that ends the hash.  SHA-256 *)
(* is left out: two hashes are equal when their feeds are.                 *)
(***************************************************************************)
EXTENDS MessageSchema, Integers, SequencesExt

CONSTANTS Byte,         \* 256 in the code
          SafeInteger   \* the largest integer of a JavaScript number

ASSUME ByteAssumption == Byte \in Nat /\ Byte * Byte > 200

Raise == << -1 >>

feedUint32(value) == <<(value \div Byte) % Byte, value % Byte>>
feedUint64(value) == feedUint32(value \div (Byte * Byte)) \o feedUint32(value)
feedBool(value)   == <<IF value THEN 1 ELSE 0>>
\* Mutant: the length is left out.
feedUncounted(value) == value
feedBytes(value)  == feedUint32(Len(value)) \o value
tag(number)       == IF number = 0 THEN <<>> ELSE feedUint32(number)

\* The type URLs of Any, as the bytes of their text.
TypeUrl == [StreamClose |-> <<7, 1>>, Unlinked |-> <<7, 2>>]

-----------------------------------------------------------------------------
(* The hand-written functions of mq_signing.cpp, as the fields each one     *)
(* feeds in its order.  `optional' is an if (message.has_...()).            *)
HashedBasics ==
  [NodeId    |-> <<Always(1, "value", "bytes")>>,
   Uuid      |-> <<Always(1, "value", "bytes")>>,
   DateTime  |-> <<Always(1, "milliseconds_since_epoch", "uint64")>>,
   PublicKey |-> <<Always(1, "algorithm", "enum"), Always(2, "public_key", "bytes")>>,
   Endorsement |->
      <<Optional(1, "subject", "NodeId"), Optional(2, "endorsement_service", "NodeId"),
        Optional(3, "endorsement_type", "Uuid"), Always(4, "endorsement_value", "bytes"),
        Optional(5, "valid_until", "DateTime"), Always(99, "signature", "bytes")>>,
   ChallengeRequest |-> <<Optional(1, "nonce", "Uuid")>>,
   Identity    |-> <<Optional(1, "nonce", "Uuid"), Optional(2, "public_key", "PublicKey"),
                     Optional(3, "boot_id", "Uuid")>>,
   RouteEntry  |-> <<Optional(1, "node_id", "NodeId"), Always(2, "hops_away", "uint32"),
                     Optional(3, "last_seen", "DateTime")>>,
   RouteUpdate |-> <<Repeated(2, "entries", "RouteEntry")>>,
   Error       |-> <<Always(1, "error_code", "enum"), Always(2, "message", "string")>>,
   PingRequest |-> <<Optional(1, "nonce", "Uuid"), Always(2, "sequence", "uint32"),
                     Optional(3, "time_sent", "DateTime")>>]

\* The schemas of an advertisement are fed only when there are any, without
\* tags and without their hash and version.
HashedResources ==
  [Address            |-> <<Always(1, "ipv4", "uint32"), Always(2, "ipv6", "bytes")>>,
   ResourceTCPConnect |-> <<Optional(1, "node_id", "NodeId"), Repeated(2, "source_addresses", "Address")>>,
   ResourceRecord     |-> <<Optional(1, "tcp_connect", "ResourceTCPConnect")>>,
   AdvertisedSchema   |-> <<Always(0, "proto_file_name", "string"),
                            Always(0, "proto_file_descriptor_set", "bytes"),
                            Repeated(0, "accepted_type_urls", "string")>>,
   ResourceAdvertisement |-> <<Repeated(1, "records", "ResourceRecord"),
                               Field(2, "schemas", "AdvertisedSchema", "if any")>>,
   ResourceQuery      |-> <<Always(1, "query", "string"), Always(2, "max_records", "uint32")>>,
   ResourceQueryReply |-> <<Repeated(1, "services", "DiscoveredService")>>]

\* A requirement tree is fed in its serialized form.
HashedRequirement ==
  [EndorsementNeeded |-> <<Optional(1, "message_nonce", "Uuid"), Optional(2, "tree", "Serialized")>>]

\* hashRSPMessage.  The flag of a trace is fed without its own tag.
HashedEnvelope ==
  [TraceFlag  |-> <<Always(0, "value", "bool")>>,
   RSPMessage |->
     <<Optional(1, "destination", "NodeId"), Optional(2, "source", "NodeId"),
       Optional(3, "challenge_request", "ChallengeRequest"), Optional(4, "identity", "Identity"),
       Optional(5, "route", "RouteUpdate"), Optional(6, "error", "Error"),
       Optional(7, "ping_request", "PingRequest"),
       Optional(16, "resource_advertisement", "ResourceAdvertisement"),
       Optional(17, "resource_query", "ResourceQuery"), Optional(22, "nonce", "Uuid"),
       Optional(23, "endorsement_needed", "EndorsementNeeded"), Optional(24, "trace", "TraceFlag"),
       Optional(27, "resource_query_reply", "ResourceQueryReply"), Optional(32, "log_record", "LogRecord"),
       Optional(36, "aes_key_negotiation_error", "AesKeyNegotiationError"),
       Repeated(100, "endorsements", "Endorsement"), Repeated(101, "identities", "Identity"),
       Repeated(102, "encrypted_fields", "EncryptedField"), Optional(200, "service_message", "Any")>>]

HandWritten == HashedBasics @@ HashedResources @@ HashedRequirement @@ HashedEnvelope

-----------------------------------------------------------------------------
RECURSIVE FeedMessage(_, _, _)

FeedScalar(type, value) ==
    CASE type \in {"bytes", "string"} -> feedBytes(value)
      [] type \in {"uint32", "enum"}  -> feedUint32(value)
      [] type = "uint64"              -> feedUint64(value)
      [] type = "bool"                -> feedBool(value)

\* What the bytes of a serialized message are to the hash: another sequence
\* for each message.
Serialized(type, message) == FeedMessage("reflective", type, message)

\* hashMessageReflective takes an Any for the message that it is.
ReflectiveValue(type, value) ==
    CASE type \in Scalars -> FeedScalar(type, value)
      [] type = "Any" -> tag(1) \o feedBytes(TypeUrl[value.type]) \o
                         tag(2) \o feedBytes(Serialized(value.type, value.message))
      [] OTHER        -> FeedMessage("reflective", type, value)

\* hashServiceMessage: of a type that is not linked in, the URL alone.
hashServiceMessage(any) ==
    feedBytes(TypeUrl[any.type]) \o
        (IF any.type \in DOMAIN Schema THEN FeedMessage("reflective", any.type, any.message) ELSE <<>>)

\* The types that have no function of their own are hashed reflectively.
HandWrittenValue(type, value) ==
    CASE type \in Scalars     -> FeedScalar(type, value)
      [] type = "Any"         -> hashServiceMessage(value)
      [] type = "Serialized"  -> feedBytes(Serialized("ERDAbstractSyntaxTree", value))
      [] OTHER -> FeedMessage(IF type \in DOMAIN HandWritten THEN "c++" ELSE "reflective", type, value)

\* normalizeScalar (Node.js): an integer that a number cannot hold is refused.
normalizeScalar(type, value) ==
    IF type = "uint64" /\ value > SafeInteger THEN Raise ELSE FeedScalar(type, value)

\* hashAny (Node.js): a type that the schema does not have is refused.
hashAny(any) ==
    feedBytes(TypeUrl[any.type]) \o
        (IF any.type \in DOMAIN Schema THEN FeedMessage("nodejs", any.type, any.message) ELSE Raise)

hashFieldValue(type, value) ==
    CASE type \in Scalars -> normalizeScalar(type, value)
      [] type = "Any"     -> hashAny(value)
      [] OTHER            -> FeedMessage("nodejs", type, value)

\* The generated schema has no type Any: looking it up raises.  Python takes
\* int() of an enum, and there is none of an enum that is absent.
hash_field_value_py(type, value, has) ==
    CASE type = "enum"    -> IF has THEN FeedScalar(type, value) ELSE Raise
      [] type = "Any"     -> Raise
      [] type \in Scalars \ {"enum"} -> FeedScalar(type, value)
      [] OTHER            -> FeedMessage("python", type, value)

hash_field_value_rs(type, value) ==
    CASE type = "Any"     -> Raise
      [] type \in Scalars -> FeedScalar(type, value)
      [] OTHER            -> FeedMessage("rust", type, value)

FeedValue(how, type, value, has) ==
    CASE how = "c++"        -> HandWrittenValue(type, value)
      [] how = "reflective" -> ReflectiveValue(type, value)
      [] how = "nodejs"     -> hashFieldValue(type, value)
      [] how = "python"     -> hash_field_value_py(type, value, has)
      [] how = "rust"       -> hash_field_value_rs(type, value)

Default(f) ==
    CASE f.rule \in {"repeated", "if any"} \/ f.type \in {"bytes", "string"} -> <<>>
      [] f.rule = "always" /\ f.type = "bool" -> FALSE
      [] OTHER -> 0

\* The loop over the fields, which is the same everywhere: the tag, then the
\* number of elements of a list and each of them, or the value; nothing for
\* what is absent and may be.
FeedField(how, f, message) ==
    LET has   == f.name \in DOMAIN message
        value == IF has THEN message[f.name] ELSE Default(f)
        list  == feedUint32(Len(value)) \o
                     FlattenSeq([i \in DOMAIN value |-> FeedValue(how, f.type, value[i], TRUE)])
    IN  IF ~has /\ f.rule \in {"optional", "if any"} THEN <<>>
        ELSE tag(f.number) \o (IF f.rule \in {"repeated", "if any"} THEN list
                               ELSE FeedValue(how, f.type, value, has))

\* Mutant: the fields as they are found, those of the oneof first.
Oneof == {"challenge_request", "identity", "route", "error", "ping_request", "resource_advertisement",
          "resource_query", "endorsement_needed", "resource_query_reply", "log_record",
          "aes_key_negotiation_error"}
ParsedAsFound(type) ==
    SelectSeq(Schema[type], LAMBDA f : f.name \in Oneof) \o
    SelectSeq(Schema[type], LAMBDA f : f.name \notin Oneof \union (IF type = "RSPMessage" THEN {"signature"} ELSE {}))

\* The schema that the clients walk, without the signature: the generator sorts
\* the fields by number.
parse_messages(type) == SelectSeq(Schema[type], LAMBDA f : type # "RSPMessage" \/ f.name # "signature")

FeedMessage(how, type, message) ==
    LET fields == IF how = "c++" THEN HandWritten[type] ELSE parse_messages(type)
    IN  FlattenSeq([i \in DOMAIN fields |-> FeedField(how, fields[i], message)])

HashOrRaise(how, message) ==
    LET feed == FeedMessage(how, "RSPMessage", message)
    IN  IF -1 \in ToSet(feed) THEN Raise ELSE feed

\* computeMessageHash of the node, hashMessage of the Node.js client, and
\* hash_rsp_message of the other two.
computeMessageHash(message)  == FeedMessage("c++", "RSPMessage", message)
hashMessage(message)         == HashOrRaise("nodejs", message)
hash_rsp_message_py(message) == HashOrRaise("python", message)
hash_rsp_message_rs(message) == HashOrRaise("rust", message)

HashOf(language, message) ==
    CASE language = "c++"    -> computeMessageHash(message)
      [] language = "nodejs" -> hashMessage(message)
      [] language = "python" -> hash_rsp_message_py(message)
      [] language = "rust"   -> hash_rsp_message_rs(message)
=============================================================================
