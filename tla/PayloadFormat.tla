---------------------------- MODULE PayloadFormat ----------------------------
(***************************************************************************)
(* What a message looks like on the wire and how a consumer reads it back: *)
(* the three formats of src/message.rs, the publisher's serialization      *)
(* (src/publisher) and the decoding at the top of the two consumer loops.  *)
(*                                                                         *)
(* A JSON value is a scalar, which knows its kind and the value it holds,  *)
(* or an object, a record of JSON values.  serde ignores unknown fields    *)
(* and fails on a missing one or one of the wrong kind.                    *)
(***************************************************************************)
EXTENDS Naturals

CONSTANTS
    Schema,   \* for each payload type its fields, and the kind of each
    None

Type == DOMAIN Schema

Scalar(k, v) == [kind |-> k, value |-> v]
Object(f) == [kind |-> "object", fields |-> f]

\* Value number id of payload type t, serialized.
Payload(t, id) == Object([f \in DOMAIN Schema[t] |-> Scalar(Schema[t][f], id)])

HasFields(j, schema) ==
    /\ j.kind = "object"
    /\ \A f \in DOMAIN schema : f \in DOMAIN j.fields /\ j.fields[f].kind = schema[f]

\* serde_json::from_value::<T>, None when it fails.
Deserialize(t, j) ==
    IF HasFields(j, Schema[t])
    THEN Object([f \in DOMAIN Schema[t] |-> j.fields[f]])
    ELSE None

-----------------------------------------------------------------------------
(* MassTransitEnvelope. *)

\* The optional fields; only "message" is required, of any kind.
MassTransitSchema ==
    [messageId |-> "string", correlationId |-> "string", sourceAddress |-> "string",
     destinationAddress |-> "string", sentTime |-> "time", messageType |-> "array",
     headers |-> "object"]

\* with_message_type, with_source_address and with_destination_address.
MassTransitEnvelope(j) ==
    Object([messageId |-> Scalar("string", "uuid"), sentTime |-> Scalar("time", "now"),
            sourceAddress |-> Scalar("string", "source"),
            destinationAddress |-> Scalar("string", "destination"),
            messageType |-> Scalar("array", "urn"),
            headers |-> Object([MT_Host_MessageType |-> Scalar("array", "urn")]),
            message |-> j])

\* MassTransitEnvelope::from_slice succeeds.
IsMassTransit(j) ==
    /\ j.kind = "object"
    /\ "message" \in DOMAIN j.fields
    /\ \A f \in DOMAIN MassTransitSchema \cap DOMAIN j.fields :
          j.fields[f].kind = MassTransitSchema[f]

-----------------------------------------------------------------------------
(* MessageEnvelope. *)

\* new and with_source, followed by with_max_retries.
MessageEnvelope(j, max_retries) ==
    Object([payload |-> j,
            metadata |-> Object([retry_attempt |-> Scalar("number", 0),
                                 max_retries |-> Scalar("number", max_retries)])])

IsEnvelopeOf(t, j) ==
    /\ HasFields(j, [payload |-> "object", metadata |-> "object"])
    /\ HasFields(j.fields.payload, Schema[t])
    /\ HasFields(j.fields.metadata, [retry_attempt |-> "number", max_retries |-> "number"])

-----------------------------------------------------------------------------
(* What a call of the publisher's API puts on the wire. *)

Envelope == {"publish_envelope", "publish_with_envelope"}
MassTransit == {"publish_masstransit", "publish_masstransit_envelope"}
Api == {"publish"} \cup Envelope \cup MassTransit

\* Mutant: the MassTransit calls wrap once more when the option asks for it.
SerializeTwice(r, id) ==
    LET message == IF r.api \in Envelope
                   THEN MessageEnvelope(Payload(r.type, id), r.max_retries)
                   ELSE IF r.api \in MassTransit
                        THEN MassTransitEnvelope(Payload(r.type, id))
                        ELSE Payload(r.type, id)
    IN IF r.masstransit THEN MassTransitEnvelope(message) ELSE message

\* serialize_message, for the calls that take the format from the options, and
\* the MassTransit calls, which do not look at that option.
Serialize(r, id) ==
    LET message == IF r.api \in Envelope
                   THEN MessageEnvelope(Payload(r.type, id), r.max_retries)
                   ELSE Payload(r.type, id)
    IN IF r.masstransit \/ r.api \in MassTransit THEN MassTransitEnvelope(message) ELSE message

-----------------------------------------------------------------------------
(* What a handler for payload type t gets, None when the delivery is nacked. *)

\* Mutant: the payload is read directly first.
ConsumeDirectOnly(t, j) == Deserialize(t, j)

\* consume: a payload that parses as a MassTransit envelope is taken for one.
Consume(t, j) == Deserialize(t, IF IsMassTransit(j) THEN j.fields.message ELSE j)

\* consume_envelopes: the payload and the envelope's own limit.
ConsumeEnvelope(t, j) ==
    IF IsEnvelopeOf(t, j)
    THEN [payload |-> Deserialize(t, j.fields.payload),
          max_retries |-> j.fields.metadata.fields.max_retries.value]
    ELSE None

\* Plain payloads of this type read as MassTransit envelopes.
Ambiguous(t) == IsMassTransit(Payload(t, 0))
=============================================================================
