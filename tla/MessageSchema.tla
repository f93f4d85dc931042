---------------------------- MODULE MessageSchema ----------------------------
(***************************************************************************)
(* The message types of messages.proto that the hashes and the field paths *)
(* of requirement trees walk over.  A message is a function from the names *)
(* of the fields it has to their values; bytes and characters are natural  *)
(* numbers.  Types that add only another number and another name (the ping *)
(* reply, most of the log and key negotiation messages, the service        *)
(* messages but StreamClose) are left out.                                 *)
(***************************************************************************)
EXTENDS TLC

\* A field: its number (0: hashed without a tag), name, type, and whether it
\* is always there, may be absent, or is a list.
Field(number, name, type, rule) ==
    [number |-> number, name |-> name, type |-> type, rule |-> rule]
Always(number, name, type)   == Field(number, name, type, "always")
Optional(number, name, type) == Field(number, name, type, "optional")
Repeated(number, name, type) == Field(number, name, type, "repeated")

Scalars == {"bytes", "string", "uint32", "uint64", "bool", "enum"}

BasicTypes ==
  [Uuid         |-> <<Always(1, "value", "bytes")>>,
   StreamID     |-> <<Always(1, "value", "bytes")>>,
   NodeId       |-> <<Always(1, "value", "bytes")>>,
   DateTime     |-> <<Always(1, "milliseconds_since_epoch", "uint64")>>,
   OptionalBool |-> <<Always(1, "value", "bool")>>,
   StreamClose  |-> <<Optional(1, "stream_id", "StreamID")>>,
   SignatureBlock |-> <<Optional(1, "signer", "NodeId"), Always(2, "algorithm", "enum"),
                        Always(3, "signature", "bytes")>>,
   PublicKey    |-> <<Always(1, "algorithm", "enum"), Always(2, "public_key", "bytes")>>,
   Endorsement  |-> <<Optional(1, "subject", "NodeId"), Optional(2, "endorsement_service", "NodeId"),
                      Optional(3, "endorsement_type", "Uuid"), Always(4, "endorsement_value", "bytes"),
                      Optional(5, "valid_until", "DateTime"), Always(99, "signature", "bytes")>>,
   Identity     |-> <<Optional(1, "nonce", "Uuid"), Optional(2, "public_key", "PublicKey"),
                      Optional(3, "boot_id", "Uuid")>>,
   ChallengeRequest |-> <<Optional(1, "nonce", "Uuid")>>]

ResourceTypes ==
  [RouteEntry  |-> <<Optional(1, "node_id", "NodeId"), Always(2, "hops_away", "uint32"),
                     Optional(3, "last_seen", "DateTime")>>,
   RouteUpdate |-> <<Repeated(2, "entries", "RouteEntry")>>,
   Address     |-> <<Always(1, "ipv4", "uint32"), Always(2, "ipv6", "bytes")>>,
   ResourceTCPConnect    |-> <<Optional(1, "node_id", "NodeId"),
                               Repeated(2, "source_addresses", "Address")>>,
   ResourceRecord        |-> <<Optional(1, "tcp_connect", "ResourceTCPConnect")>>,
   ServiceSchema         |-> <<Always(1, "proto_file_name", "string"),
                               Always(2, "proto_file_descriptor_set", "bytes"),
                               Repeated(3, "accepted_type_urls", "string"),
                               Always(4, "schema_hash", "bytes"), Always(5, "schema_version", "uint32")>>,
   ResourceAdvertisement |-> <<Repeated(1, "records", "ResourceRecord"),
                               Repeated(2, "schemas", "ServiceSchema")>>,
   ResourceQuery         |-> <<Always(1, "query", "string"), Always(2, "max_records", "uint32")>>,
   DiscoveredService     |-> <<Optional(1, "node_id", "NodeId"), Optional(2, "schema", "ServiceSchema")>>,
   ResourceQueryReply    |-> <<Repeated(1, "services", "DiscoveredService")>>,
   Error                 |-> <<Always(1, "error_code", "enum"), Always(2, "message", "string")>>,
   AesKeyNegotiationError |-> <<Always(1, "error_code", "enum"), Optional(2, "key_id", "Uuid"),
                                Always(3, "message", "string")>>,
   PingRequest           |-> <<Optional(1, "nonce", "Uuid"), Always(2, "sequence", "uint32"),
                               Optional(3, "time_sent", "DateTime")>>,
   LogRecord             |-> <<Optional(2, "producer_node_id", "NodeId"), Optional(4, "payload", "Any")>>]

EnvelopeTypes ==
  [ERDASTTrue            |-> <<>>,
   ERDAbstractSyntaxTree |-> <<Optional(9, "true_value", "ERDASTTrue"),
                               Optional(10, "false_value", "ERDASTTrue")>>,
   ERDASTFieldPath       |-> <<Repeated(1, "segments", "string")>>,
   EncryptedField        |-> <<Optional(1, "path", "ERDASTFieldPath"), Always(2, "iv", "bytes"),
                               Always(3, "ciphertext", "bytes"), Always(4, "tag", "bytes"),
                               Always(5, "algorithm", "enum")>>,
   EndorsementNeeded     |-> <<Optional(1, "message_nonce", "Uuid"),
                               Optional(2, "tree", "ERDAbstractSyntaxTree")>>,
   RSPMessage |->
     <<Optional(1, "destination", "NodeId"), Optional(2, "source", "NodeId"),
       Optional(3, "challenge_request", "ChallengeRequest"), Optional(4, "identity", "Identity"),
       Optional(5, "route", "RouteUpdate"), Optional(6, "error", "Error"),
       Optional(7, "ping_request", "PingRequest"),
       Optional(16, "resource_advertisement", "ResourceAdvertisement"),
       Optional(17, "resource_query", "ResourceQuery"), Optional(22, "nonce", "Uuid"),
       Optional(23, "endorsement_needed", "EndorsementNeeded"), Optional(24, "trace", "OptionalBool"),
       Optional(27, "resource_query_reply", "ResourceQueryReply"), Optional(32, "log_record", "LogRecord"),
       Optional(36, "aes_key_negotiation_error", "AesKeyNegotiationError"),
       Optional(99, "signature", "SignatureBlock"), Repeated(100, "endorsements", "Endorsement"),
       Repeated(101, "identities", "Identity"), Repeated(102, "encrypted_fields", "EncryptedField"),
       Optional(200, "service_message", "Any")>>]

Schema == BasicTypes @@ ResourceTypes @@ EnvelopeTypes
=============================================================================
