------------------------------ MODULE MCHelpers ------------------------------
(* An entry whose preview takes four bytes in UTF-8 and one whose id begins like its id. *)
EXTENDS Helpers

Entry(id, preview, bytes) == [id |-> id, preview |-> preview, bytes |-> bytes]
MCHistory == << Entry(<<49>>, <<240, 159, 152, 128>>, <<7, 8, 9>>), Entry(<<49, 50>>, <<97>>, <<6>>) >>
\* One label is the beginning of the other.
MCLabels == << <<233>>, <<233, 97>> >>
MCImage == <<1, 2, 3>>

\* Every border of a range in the table of UTF-8, and every kind of text in UTF-16.
Bytes == {65, 128, 143, 144, 160, 194, 224, 237, 240, 244, 255}
Units == {65, 233, 8364, 55296, 56319, 56320, 57343, 65535}
SequencesOf(S, n) == UNION {[1 .. k -> S] : k \in 0 .. n}

\* A text whose surrogates are all paired.
Paired(text) ==
    \A i \in DOMAIN text :
        /\ IsHighSurrogate(text[i]) => i < Len(text) /\ IsLowSurrogate(text[i + 1])
        /\ IsLowSurrogate(text[i]) => i > 1 /\ IsHighSurrogate(text[i - 1])

\* Decoding follows the table, and what is encoded decodes to itself.
ASSUME DecodesByTheTable == \A bytes \in SequencesOf(Bytes, 4) : DecodeUtf8(bytes) = ReferenceDecoding(bytes)
ASSUME EncodingIsUndone == \A text \in SequencesOf(Units, 3) : Paired(text) <=> DecodeUtf8(EncodeUtf8(text)) = text
=============================================================================
