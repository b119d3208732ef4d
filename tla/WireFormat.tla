----------------------------- MODULE WireFormat -----------------------------
(***************************************************************************)
(* protocol.py: the body of a push.  A header and one descriptor per part    *)
(* come first, each of one size here (names are of one length), then the     *)
(* bytes of the parts.  A blob is what its header and its descriptors read   *)
(* as, and the bytes that were received:                                    *)
(*   [magic, desc : Seq([name, offset, size]), payload, bytes].             *)
(* Positions count from 0, as in the code.  A ProtocolError is Malformed.   *)
(***************************************************************************)
EXTENDS Naturals, Sequences, FiniteSets, FiniteSetsExt, SequencesExt

CONSTANTS HEADER_SIZE, DESC_SIZE, Malformed

ASSUME WireFormatAssumption == HEADER_SIZE \in Nat \ {0} /\ DESC_SIZE \in Nat \ {0}

IMG_SUFFIX  == ":img"
META_SUFFIX == ":meta"

PartName(sensor, suffix) == <<sensor, suffix>>

-----------------------------------------------------------------------------
(* The producer.                                                           *)

DescriptorRegionSize(names) == DESC_SIZE * Len(names)

\* How many bytes the first i parts take.
Cumulative(sizes) ==
    LET c[i \in 0..Len(sizes)] == IF i = 0 THEN 0 ELSE c[i-1] + sizes[i] IN c

\* build_framing of parts of known size at offsets that may leave gaps: the
\* descriptors, where each part is to be written, and the length of it all.
BuildFraming(names, sizes, offsets) ==
    LET start == HEADER_SIZE + DescriptorRegionSize(names)
        payload == Max({offsets[i] + sizes[i] : i \in DOMAIN names})
    IN  [desc |-> [i \in DOMAIN names |->
                      [name |-> names[i], offset |-> offsets[i], size |-> sizes[i]]],
         payload |-> payload,
         absolute |-> [i \in DOMAIN names |-> start + offsets[i]],
         total |-> start + payload]

Framing(n) == [i \in 1..n |-> [kind |-> "framing", job |-> 0]]

\* pack_blob: the parts in order, without gaps.
PackBlob(names, parts) ==
    LET sizes == [i \in DOMAIN names |-> Len(parts[i])]
        desc == [i \in DOMAIN names |->
                    [name |-> names[i], offset |-> Cumulative(sizes)[i-1], size |-> sizes[i]]]
    IN  [magic |-> TRUE, desc |-> desc, payload |-> Cumulative(sizes)[Len(sizes)],
         bytes |-> Framing(HEADER_SIZE + DescriptorRegionSize(names)) \o FlattenSeq(parts)]

-----------------------------------------------------------------------------
(* The receiver.                                                           *)

\* parse_header, of whatever has been received.
ParseHeader(b) == Len(b.bytes) >= HEADER_SIZE /\ b.magic

\* Broken: the descriptors are held against the payload the header declares,
\* the payload against nothing.
ParseLayoutUnbounded(b) ==
    LET dataStart == HEADER_SIZE + DescriptorRegionSize(b.desc)
    IN  IF \/ ~ParseHeader(b)
           \/ dataStart > Len(b.bytes)
           \/ \E i \in DOMAIN b.desc : b.desc[i].offset + b.desc[i].size > b.payload
        THEN Malformed
        ELSE [i \in DOMAIN b.desc |-> [b.desc[i] EXCEPT !.offset = dataStart + @]]

\* parse_layout: a truncated descriptor, a payload longer than what came, and a
\* part that ends behind the payload are refused.  Gaps, overlaps and bytes
\* behind the payload are not.
ParseLayout(b) ==
    LET dataStart == HEADER_SIZE + DescriptorRegionSize(b.desc)
    IN  IF \/ ~ParseHeader(b)
           \/ \E i \in DOMAIN b.desc : HEADER_SIZE + DESC_SIZE * i > Len(b.bytes)
           \/ dataStart + b.payload > Len(b.bytes)
           \/ \E i \in DOMAIN b.desc : b.desc[i].offset + b.desc[i].size > b.payload
        THEN Malformed
        ELSE [i \in DOMAIN b.desc |-> [b.desc[i] EXCEPT !.offset = dataStart + @]]

\* split_parts: sensor -> its two parts; of two parts of a name the last counts.
SplitParts(layout) ==
    LET sensors == {layout[i].name[1] : i \in DOMAIN layout}
        Named(s, suffix) == {i \in DOMAIN layout : layout[i].name = PartName(s, suffix)}
    IN  IF \E s \in sensors : Named(s, IMG_SUFFIX) = {} \/ Named(s, META_SUFFIX) = {}
        THEN Malformed
        ELSE [s \in sensors |-> [img  |-> layout[Max(Named(s, IMG_SUFFIX))],
                                 meta |-> layout[Max(Named(s, META_SUFFIX))]]]
=============================================================================
