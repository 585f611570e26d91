--------------------------- MODULE TinyFrameProofs ---------------------------
(***************************************************************************)
(* Proofs about TinyFrame: the frames of a stream are delivered as         *)
(* FrameChannel says, for all keys, data, lengths and damage.              *)
(***************************************************************************)
EXTENDS TinyFrame, SequenceTheorems, TLAPS

USE PairsAssumption, RequestsAssumption, SizeAssumption, HeadersAssumption,
    NoKeyAssumption, JunkAssumption, MaxFramesAssumption, FailedAssumption

(* The header byte. *)

LEMMA HeaderType ==
  ASSUME NEW type \in Nat, NEW flags \in 0..255, Packable(type, flags)
  PROVE  HeaderOf(type, flags) \in HeaderBytes
BY DEF Packable, HeaderOf, HeaderBytes

\* What is packed into a header byte comes out of it again: pack_header_byte
\* and parse_wire_frame agree on the bits of each field.
THEOREM HeaderRoundTrip ==
  ASSUME NEW type \in Nat, NEW flags \in 0..255, Packable(type, flags)
  PROVE  /\ TypeOf(HeaderOf(type, flags)) = type
         /\ CompressOf(HeaderOf(type, flags)) = CompressOf(flags)
         /\ IsEncrypted(HeaderOf(type, flags)) = IsEncrypted(flags)
<1>1. flags \in 0..7
  BY DEF Packable
<1>2. TypeOf(HeaderOf(type, flags)) = type
  BY <1>1 DEF TypeOf, HeaderOf
<1>3. CompressOf(HeaderOf(type, flags)) = CompressOf(flags)
  BY <1>1 DEF CompressOf, HeaderOf
<1>4. (8 * type + flags) \div 4 = 2 * type + (flags \div 4)
  BY <1>1
<1>5. IsEncrypted(HeaderOf(type, flags)) = IsEncrypted(flags)
  BY <1>1, <1>4 DEF IsEncrypted, HeaderOf
<1> QED  BY <1>2, <1>3, <1>5

LEMMA HeaderFields ==
  ASSUME NEW h \in HeaderBytes
  PROVE  TypeOf(h) \in 0..MaxType /\ IsEncrypted(h) \in BOOLEAN /\ CompressOf(h) \in 0..3
BY DEF HeaderBytes, TypeOf, IsEncrypted, CompressOf

\* A length that fits is not changed by the width of the length field.
LEMMA LengthFits ==
  ASSUME NEW n \in Nat, NEW m \in Nat, n <= m
  PROVE  n % (m + 1) = n
BY SMT

LEMMA SizeType ==
  ASSUME NEW r \in Requests, Packable(r.type, r.flags)
  PROVE  SizeOf(r) \in Nat
<1>1. CompressOf(r.flags) \in CompressIds
  BY DEF Packable
<1>2. Size[CompressOf(r.flags)][r.data] \in Nat
  BY <1>1
<1> QED  BY <1>2 DEF SizeOf

-----------------------------------------------------------------------------
(* What a reader makes of a packet.                                        *)

LEMMA FrameType ==
  ASSUME NEW h \in HeaderBytes, CompressOf(h) \in CompressIds,
         NEW tx \in TxIds, NEW d \in Data \cup {Junk}
  PROVE  FrameOf(h, tx, d) \in Frames
BY HeaderFields DEF FrameOf, Frames

\* The frame f is what payload q was made from.
MeantBy(q, f) ==
  /\ f = FrameOf(q.header, q.tx, q.data)
  /\ q.compress = CompressOf(q.header)
  /\ q.key \in (IF IsEncrypted(q.header) THEN Keys ELSE {Unset})

\* No byte of packet p was changed.
AsWritten(p) == /\ p.header = p.payload.header
                /\ p.tx = p.payload.tx
                /\ p.len = p.size
                /\ ~p.payload.spoilt

LEMMA PacketFields ==
  ASSUME NEW p \in Packets
  PROVE  /\ p.header \in HeaderBytes
         /\ p.tx \in TxIds
         /\ p.len \in Nat
         /\ p.size \in Nat
         /\ p.payload \in Payloads
         /\ p.payload.key \in Keys \cup {Unset}
         /\ p.payload.header \in HeaderBytes
         /\ p.payload.tx \in TxIds
         /\ p.payload.compress \in CompressIds
         /\ p.payload.data \in Data
         /\ p.payload.spoilt \in BOOLEAN
         /\ p.whole \in BOOLEAN
BY DEF Packets, Payloads

LEMMA ParsedCases ==
  ASSUME NEW p \in Packets, NEW k, NEW out \in Parsed(p, k), out # Failed
  PROVE  /\ IsEncrypted(p.header) => Legible(p, k)
         /\ \E d \in Inflated(CompressOf(p.header), p.payload, Legible(p, k)) :
               d # Failed /\ out = FrameOf(p.header, p.tx, d)
BY DEF Parsed

LEMMA InflatedType ==
  ASSUME NEW p \in Packets, NEW k,
         NEW d \in Inflated(CompressOf(p.header), p.payload, Legible(p, k)), d # Failed
  PROVE  d \in Data \cup {Junk} /\ CompressOf(p.header) \in CompressIds
BY PacketFields DEF Inflated

LEMMA ParsedType ==
  ASSUME NEW p \in Packets, NEW k, NEW out \in Parsed(p, k)
  PROVE  out \in Frames \cup {Failed}
<1>1. CASE out = Failed
  BY <1>1
<1>2. CASE out # Failed
  <2>1. PICK d \in Inflated(CompressOf(p.header), p.payload, Legible(p, k)) :
               d # Failed /\ out = FrameOf(p.header, p.tx, d)
    BY <1>2, ParsedCases
  <2>2. d \in Data \cup {Junk} /\ CompressOf(p.header) \in CompressIds
    BY <2>1, InflatedType
  <2> QED  BY <2>1, <2>2, FrameType, PacketFields
<1> QED  BY <1>1, <1>2

\* An untouched packet gives its frame, or an error if its key is another.
LEMMA ParsedIntact ==
  ASSUME NEW p \in Packets, NEW f \in Frames, NEW k,
         AsWritten(p), MeantBy(p.payload, f), NEW out \in Parsed(p, k)
  PROVE  IF IsEncrypted(p.header) /\ p.payload.key # k THEN out = Failed ELSE out = f
<1>1. CASE IsEncrypted(p.header) /\ p.payload.key # k
  BY <1>1 DEF Parsed, Legible
<1>2. CASE ~(IsEncrypted(p.header) /\ p.payload.key # k)
  <2>1. Legible(p, k)
    BY <1>2, PacketFields DEF Legible, AsWritten, MeantBy
  <2>2. Inflated(CompressOf(p.header), p.payload, Legible(p, k)) = {p.payload.data}
    BY <2>1 DEF Inflated, AsWritten, MeantBy
  <2>3. p.payload.data # Failed
    BY PacketFields
  <2>4. out = FrameOf(p.header, p.tx, p.payload.data)
    BY <2>1, <2>2, <2>3 DEF Parsed
  <2> QED  BY <1>2, <2>4 DEF AsWritten, MeantBy
<1> QED  BY <1>1, <1>2

\* Whatever was done to a packet, an encrypted frame that comes of it is the
\* one that was written: the tag covers header, transaction id and payload.
LEMMA ParsedSealed ==
  ASSUME NEW p \in Packets, NEW f \in Frames, NEW k,
         MeantBy(p.payload, f),
         NEW out \in Parsed(p, k), out # Failed, out.encrypted
  PROVE  out = f
<1>1. PICK d \in Inflated(CompressOf(p.header), p.payload, Legible(p, k)) :
             d # Failed /\ out = FrameOf(p.header, p.tx, d)
  BY ParsedCases
<1>2. IsEncrypted(p.header)
  BY <1>1 DEF FrameOf
<1>3. Legible(p, k)
  BY <1>2, ParsedCases
<1>4. p.header = p.payload.header /\ p.tx = p.payload.tx
  BY <1>2, <1>3 DEF Legible, AadOf
<1>5. d = p.payload.data
  BY <1>3, <1>4 DEF Inflated, MeantBy
<1> QED  BY <1>1, <1>4, <1>5 DEF MeantBy

-----------------------------------------------------------------------------
(* The inductive invariant.                                                *)

\* Frame by frame, the stream carries what was to be sent.
Matched == /\ Len(sent) = Len(wire)
           /\ \A i \in 1..Len(wire) : MeantBy(wire[i].payload, sent[i])

\* While nothing was changed, the reader keeps to the borders of the frames
\* and has one result for each frame it has passed.
Aligned == /\ reader.at <= Len(wire)
           /\ intact => /\ \A i \in 1..Len(wire) : AsWritten(wire[i])
                        /\ ~reader.lost
                        /\ reader.live => Len(got) = reader.at
                        /\ Len(got) <= Len(wire)

Inv == /\ TypeOK
       /\ Matched
       /\ Aligned
       /\ OnlyExplainedErrors
       /\ RustSealsWithOneKey

LEMMA SentFields ==
  ASSUME TypeOK, Matched, NEW i \in 1..Len(wire)
  PROVE  /\ wire[i] \in Packets
         /\ sent[i] \in Frames
         /\ MeantBy(wire[i].payload, sent[i])
         /\ sent[i].encrypted = IsEncrypted(wire[i].payload.header)
<1>1. wire[i] \in Packets /\ sent[i] \in Frames
  BY DEF TypeOK, Matched
<1>2. MeantBy(wire[i].payload, sent[i])
  BY DEF Matched
<1> QED  BY <1>1, <1>2 DEF MeantBy, FrameOf

\* What is asked of an encrypted frame follows from Matched.
LEMMA MatchedSealed ==
  ASSUME TypeOK, Matched
  PROVE  NothingInTheClear
<1>1. SUFFICES ASSUME NEW i \in 1..Len(sent), sent[i].encrypted
               PROVE  wire[i].payload.key \in Keys
  BY DEF NothingInTheClear
<1> QED  BY <1>1, SentFields DEF Matched, MeantBy

LEMMA InitInv ==
  ASSUME Init
  PROVE  Inv
BY DEF Init, Inv, TypeOK, Writers, Readers, Matched, Aligned, OnlyExplainedErrors, RustSealsWithOneKey

-----------------------------------------------------------------------------
(* Every step keeps the invariant: an action for each lemma.               *)

\* Steps that leave the stream and its history as they are.
LEMMA QuietStep ==
  ASSUME Inv, TypeOK', UNCHANGED <<wire, sent, got, reader, intact, api>>,
         api["writer"] = "rust" /\ key["writer"] # Unset => key'["writer"] = key["writer"]
  PROVE  Inv'
<1>1. Matched' /\ Aligned' /\ OnlyExplainedErrors'
  BY DEF Inv, Matched, Aligned, OnlyExplainedErrors
<1>2. RustSealsWithOneKey'
  <2>1. SUFFICES ASSUME api["writer"] = "rust", NEW i \in 1..Len(sent), sent[i].encrypted
                 PROVE  wire[i].payload.key = key'["writer"]
    BY DEF RustSealsWithOneKey
  <2>2. wire[i].payload.key \in Keys
    BY <2>1, MatchedSealed DEF Inv, NothingInTheClear
  <2>3. wire[i].payload.key = key["writer"]
    BY <2>1 DEF Inv, RustSealsWithOneKey
  <2> QED  BY <2>1, <2>2, <2>3
<1> QED  BY <1>1, <1>2 DEF Inv

LEMMA SetKeyInv ==
  ASSUME Inv, NEW e \in Ends, NEW k \in Keys \cup {Nil}, SetKey(e, k)
  PROVE  Inv'
<1>1. TypeOK'
  BY DEF Inv, TypeOK, SetKey
<1>2. api["writer"] = "rust" /\ key["writer"] # Unset => key'["writer"] = key["writer"]
  BY DEF Inv, TypeOK, SetKey, MaySet, Ends
<1> QED  BY <1>1, <1>2, QuietStep DEF SetKey

LEMMA PanicInv ==
  ASSUME Inv, Panic
  PROVE  Inv'
<1>1. TypeOK'
  BY DEF Inv, TypeOK, Panic
<1> QED  BY <1>1, QuietStep DEF Panic

LEMMA BeginWriteInv ==
  ASSUME Inv, NEW r \in Requests, BeginWrite(r)
  PROVE  Inv'
<1>1. CASE Panic
  BY <1>1, PanicInv
<1>2. CASE ~Panic
  <2>1. /\ writer' = [pc |-> "build", req |-> r, key |-> key["writer"]]
        /\ UNCHANGED <<api, key, wire, open, reader, sent, got, intact>>
    BY <1>2 DEF BeginWrite
  <2>2. key["writer"] \in Keys \cup {Unset, Nil}
    BY DEF Inv, TypeOK, Ends
  <2>3. TypeOK'
    BY <2>1, <2>2 DEF Inv, TypeOK, Writers
  <2> QED  BY <2>1, <2>3, QuietStep
<1> QED  BY <1>1, <1>2

LEMMA RefuseWriteInv ==
  ASSUME Inv, RefuseWrite
  PROVE  Inv'
<1>1. TypeOK'
  BY DEF Inv, TypeOK, RefuseWrite
<1> QED  BY <1>1, QuietStep DEF RefuseWrite

LEMMA PanicWriteInv ==
  ASSUME Inv, PanicWrite
  PROVE  Inv'
BY PanicInv DEF PanicWrite

\* What is sent for an acceptable request.
LEMMA PacketMeans ==
  ASSUME NEW r \in Requests, NEW k \in Keys \cup {Unset, Nil},
         Packable(r.type, r.flags), Fits(r), IsEncrypted(r.flags) => k \in Keys
  PROVE  LET p == PacketOf(r, k)
             f == FrameOf(HeaderOf(r.type, r.flags), r.tx, r.data)
         IN  /\ p \in Packets
             /\ f \in Frames
             /\ MeantBy(p.payload, f)
             /\ AsWritten(p)
<1> DEFINE h == HeaderOf(r.type, r.flags)
           p == PacketOf(r, k)
<1>1. r.type \in Nat /\ r.flags \in 0..255 /\ r.tx \in TxIds /\ r.data \in Data
  OBVIOUS
<1>2. /\ h \in HeaderBytes
      /\ CompressOf(h) = CompressOf(r.flags)
      /\ IsEncrypted(h) = IsEncrypted(r.flags)
  BY <1>1, HeaderType, HeaderRoundTrip
<1>3. CompressOf(h) \in CompressIds
  BY <1>2 DEF Packable
<1>4. SizeOf(r) \in Nat /\ SizeOf(r) <= MaxLen
  BY SizeType DEF Fits
<1>5. SizeOf(r) % (MaxLen + 1) = SizeOf(r)
  BY <1>4, LengthFits
<1> HIDE DEF h
<1>6. p.payload = Payload(IF IsEncrypted(h) THEN k ELSE Unset, h, r.tx, CompressOf(h), r.data)
  BY DEF PacketOf, h
<1>7. p.payload \in Payloads
  BY <1>1, <1>2, <1>3, <1>6 DEF Payload, Payloads
<1>8. p \in Packets
  BY <1>1, <1>2, <1>4, <1>5, <1>7 DEF PacketOf, Packets, h
<1>9. FrameOf(h, r.tx, r.data) \in Frames
  BY <1>1, <1>2, <1>3, FrameType
<1>10. MeantBy(p.payload, FrameOf(h, r.tx, r.data))
  BY <1>2, <1>6 DEF MeantBy, Payload
<1>11. AsWritten(p)
  BY <1>5, <1>6 DEF AsWritten, PacketOf, Payload, h
<1> QED  BY <1>8, <1>9, <1>10, <1>11 DEF h

LEMMA WriteFrameInv ==
  ASSUME Inv, WriteFrame
  PROVE  Inv'
<1> DEFINE r == writer.req
           p == PacketOf(r, SealingKey)
           f == FrameOf(HeaderOf(r.type, r.flags), r.tx, r.data)
<1>1. writer \in Writers
  BY DEF Inv, TypeOK, WriteFrame
<1>2. r \in Requests /\ writer.key \in Keys \cup {Unset, Nil}
  BY <1>1 DEF Writers
<1>3. SealingKey \in Keys \cup {Unset, Nil}
  BY <1>2 DEF Inv, TypeOK, SealingKey, Ends
<1>4. Packable(r.type, r.flags) /\ Fits(r) /\ (IsEncrypted(r.flags) => SealingKey \in Keys)
  BY <1>3 DEF WriteFrame, KeyMissing, Missing
<1>5. p \in Packets /\ f \in Frames /\ MeantBy(p.payload, f) /\ AsWritten(p)
  BY <1>2, <1>3, <1>4, PacketMeans
<1>6. /\ wire' = Append(wire, p)
      /\ sent' = Append(sent, f)
      /\ writer' = Idle
      /\ UNCHANGED <<api, key, open, reader, got, intact>>
  BY DEF WriteFrame
<1>7. p.payload.key = (IF f.encrypted THEN SealingKey ELSE Unset)
  BY DEF PacketOf, Payload, FrameOf
<1> HIDE DEF r, p, f
<1>8. /\ wire \in Seq(Packets) /\ sent \in Seq(Frames) /\ Len(sent) = Len(wire)
      /\ Len(wire') = Len(wire) + 1 /\ Len(sent') = Len(wire')
      /\ \A i \in 1..Len(wire) : wire'[i] = wire[i] /\ sent'[i] = sent[i]
      /\ wire'[Len(wire')] = p /\ sent'[Len(wire')] = f
  BY <1>5, <1>6 DEF Inv, TypeOK, Matched
<1>9. TypeOK'
  BY <1>5, <1>6 DEF Inv, TypeOK
<1>10. Matched'
  BY <1>5, <1>8 DEF Inv, Matched
<1>11. Aligned'
  BY <1>5, <1>6, <1>8 DEF Inv, Aligned, TypeOK, Readers
<1>12. OnlyExplainedErrors'
  <2>1. intact => Len(got) <= Len(wire) /\ Len(got) \in Nat
    BY DEF Inv, Aligned, TypeOK
  <2> QED  BY <1>6, <1>8, <2>1 DEF Inv, OnlyExplainedErrors
<1>13. RustSealsWithOneKey'
  BY <1>6, <1>7, <1>8 DEF Inv, RustSealsWithOneKey, SealingKey
<1> QED  BY <1>9, <1>10, <1>11, <1>12, <1>13 DEF Inv

\* A frame of which not all has arrived.
LEMMA CutPacket ==
  ASSUME NEW p \in Packets
  PROVE  LET q == [p EXCEPT !.whole = FALSE]
         IN  /\ q \in Packets
             /\ q.whole = FALSE
             /\ q.header = p.header
             /\ q.tx = p.tx
             /\ q.len = p.len
             /\ q.size = p.size
             /\ q.payload = p.payload
BY DEF Packets

LEMMA CloseStreamInv ==
  ASSUME Inv, NEW kept \in 0..Len(wire), CloseStream(kept)
  PROVE  Inv'
<1>1. wire \in Seq(Packets)
  BY DEF Inv, TypeOK
<1>2. /\ Len(wire') = Len(wire)
      /\ \A i \in 1..Len(wire) : wire'[i] = IF i <= kept THEN wire[i]
                                                         ELSE [wire[i] EXCEPT !.whole = FALSE]
  BY <1>1 DEF CloseStream
<1>3. \A i \in 1..Len(wire) : /\ wire'[i] \in Packets
                              /\ wire'[i].whole => wire[i].whole
                              /\ wire'[i].header = wire[i].header
                              /\ wire'[i].tx = wire[i].tx
                              /\ wire'[i].len = wire[i].len
                              /\ wire'[i].size = wire[i].size
                              /\ wire'[i].payload = wire[i].payload
  <2>1. SUFFICES ASSUME NEW i \in 1..Len(wire)
                 PROVE  /\ wire'[i] \in Packets
                        /\ wire'[i].whole => wire[i].whole
                        /\ wire'[i].header = wire[i].header
                        /\ wire'[i].tx = wire[i].tx
                        /\ wire'[i].len = wire[i].len
                        /\ wire'[i].size = wire[i].size
                        /\ wire'[i].payload = wire[i].payload
    OBVIOUS
  <2>2. wire[i] \in Packets
    BY <1>1
  <2>3. CASE i <= kept
    BY <1>2, <2>2, <2>3
  <2>4. CASE ~(i <= kept)
    BY <1>2, <2>2, <2>4, CutPacket
  <2> QED  BY <2>3, <2>4
<1>4. writer' = Idle /\ open' = FALSE /\ UNCHANGED <<api, key, reader, sent, got, intact>>
  BY DEF CloseStream
<1>5. TypeOK'
  <2>1. wire' \in Seq(Packets)
    BY <1>1, <1>2, <1>3 DEF CloseStream
  <2> QED  BY <1>4, <2>1 DEF Inv, TypeOK
<1>6. Matched' /\ Aligned'
  BY <1>2, <1>3, <1>4 DEF Inv, Matched, Aligned, AsWritten
<1>7. OnlyExplainedErrors'
  <2>1. intact => Len(got) <= Len(wire) /\ Len(got) \in Nat /\ Len(wire) \in Nat
    BY <1>1 DEF Inv, Aligned, TypeOK
  <2>2. SUFFICES ASSUME intact, NEW i \in 1..Len(got), got[i].out = Failed
                 PROVE  \/ ~wire'[i].whole
                        \/ sent[i].encrypted /\ wire'[i].payload.key # got[i].key
    BY <1>4 DEF OnlyExplainedErrors
  <2>3. i \in 1..Len(wire)
    BY <2>1, <2>2
  <2>4. ~wire[i].whole \/ (sent[i].encrypted /\ wire[i].payload.key # got[i].key)
    BY <2>2 DEF Inv, OnlyExplainedErrors
  <2>5. (wire'[i].whole => wire[i].whole) /\ wire'[i].payload = wire[i].payload
    BY <1>3, <2>3
  <2> QED  BY <2>4, <2>5
<1>8. RustSealsWithOneKey'
  <2>1. SUFFICES ASSUME api["writer"] = "rust", NEW i \in 1..Len(sent), sent[i].encrypted
                 PROVE  wire'[i].payload.key = key["writer"]
    BY <1>4 DEF RustSealsWithOneKey
  <2>2. i \in 1..Len(wire)
    BY DEF Inv, Matched
  <2>3. wire'[i].payload = wire[i].payload
    BY <1>3, <2>2
  <2> QED  BY <2>1, <2>3 DEF Inv, RustSealsWithOneKey
<1> QED  BY <1>5, <1>6, <1>7, <1>8 DEF Inv

LEMMA DamagedType ==
  ASSUME NEW p \in Packets, NEW q \in Damaged(p)
  PROVE  /\ q \in Packets
         /\ q.payload = [p.payload EXCEPT !.spoilt = q.payload.spoilt]
<1>1. p.payload \in Payloads
  BY DEF Packets
<1>2. CASE \E header \in Headers : q = [p EXCEPT !.header = header]
  BY <1>1, <1>2 DEF Packets, Payloads
<1>3. CASE \E tx \in TxIds : q = [p EXCEPT !.tx = tx]
  BY <1>1, <1>3 DEF Packets, Payloads
<1>4. CASE \E len \in 0..MaxLen : q = [p EXCEPT !.len = len]
  BY <1>1, <1>4 DEF Packets, Payloads
<1>5. CASE q = [p EXCEPT !.payload.spoilt = TRUE]
  <2>1. q.payload = [p.payload EXCEPT !.spoilt = TRUE]
    BY <1>5 DEF Packets
  <2>2. q.payload \in Payloads /\ q.payload.spoilt = TRUE
    BY <1>1, <2>1 DEF Payloads
  <2>3. q = [p EXCEPT !.payload = [p.payload EXCEPT !.spoilt = TRUE]]
    BY <1>5
  <2>4. q \in Packets
    BY <2>1, <2>2, <2>3 DEF Packets
  <2>5. q.payload = [p.payload EXCEPT !.spoilt = q.payload.spoilt]
    BY <2>1, <2>2
  <2> QED  BY <2>4, <2>5
<1> QED  BY <1>2, <1>3, <1>4, <1>5 DEF Damaged

LEMMA DamageFrameInv ==
  ASSUME Inv, NEW j \in 1..Len(wire), DamageFrame(j)
  PROVE  Inv'
<1>1. PICK p \in Damaged(wire[j]) : wire' = [wire EXCEPT ![j] = p]
  BY DEF DamageFrame
<1>2. wire \in Seq(Packets) /\ wire[j] \in Packets
  BY DEF Inv, TypeOK
<1>3. p \in Packets /\ p.payload = [wire[j].payload EXCEPT !.spoilt = p.payload.spoilt]
  BY <1>2, DamagedType
<1>4. /\ wire' \in Seq(Packets)
      /\ Len(wire') = Len(wire)
      /\ \A i \in 1..Len(wire) : wire'[i] = IF i = j THEN p ELSE wire[i]
  BY <1>1, <1>2, <1>3
<1>5. \A i \in 1..Len(wire) : /\ wire'[i].payload.key = wire[i].payload.key
                              /\ wire'[i].payload.header = wire[i].payload.header
                              /\ wire'[i].payload.tx = wire[i].payload.tx
                              /\ wire'[i].payload.compress = wire[i].payload.compress
                              /\ wire'[i].payload.data = wire[i].payload.data
  <2>1. wire[j].payload \in Payloads
    BY <1>2 DEF Packets
  <2>2. /\ p.payload.key = wire[j].payload.key
        /\ p.payload.header = wire[j].payload.header
        /\ p.payload.tx = wire[j].payload.tx
        /\ p.payload.compress = wire[j].payload.compress
        /\ p.payload.data = wire[j].payload.data
    BY <1>3, <2>1 DEF Payloads
  <2> QED  BY <1>4, <2>2
<1>6. intact' = FALSE /\ UNCHANGED <<api, key, writer, open, reader, sent, got>>
  BY DEF DamageFrame
<1>7. TypeOK'
  BY <1>4, <1>6 DEF Inv, TypeOK
<1>8. Matched'
  BY <1>4, <1>5, <1>6 DEF Inv, Matched, MeantBy
<1>9. Aligned' /\ OnlyExplainedErrors'
  BY <1>4, <1>6 DEF Inv, Aligned, OnlyExplainedErrors
<1>10. RustSealsWithOneKey'
  BY <1>4, <1>5, <1>6 DEF Inv, RustSealsWithOneKey, Matched
<1> QED  BY <1>7, <1>8, <1>9, <1>10 DEF Inv

\* A read adds one result, and leaves everything but the reader alone.
LEMMA ResultType ==
  ASSUME TypeOK, NEW out \in Frames \cup {Failed}, Result(out)
  PROVE  /\ got' \in Seq([out : Frames \cup {Failed}, key : Keys \cup {Unset, Nil}])
         /\ Len(got') = Len(got) + 1
         /\ \A i \in 1..Len(got) : got'[i] = got[i]
         /\ got'[Len(got) + 1] = [out |-> out, key |-> key["reader"]]
<1>1. [out |-> out, key |-> key["reader"]] \in [out : Frames \cup {Failed}, key : Keys \cup {Unset, Nil}]
  BY DEF TypeOK, Ends
<1> QED  BY <1>1 DEF Result, TypeOK

\* The result that ReadFrame takes for an untouched packet.
LEMMA ReadIntact ==
  ASSUME Inv, intact, reader.at < Len(wire),
         NEW out \in (IF IsEncrypted(NextPacket.header) /\ Missing(key["reader"])
                        THEN {Failed} ELSE Parsed(NextPacket, key["reader"]))
  PROVE  \/ out = sent[reader.at + 1]
         \/ /\ out = Failed
            /\ sent[reader.at + 1].encrypted
            /\ NextPacket.payload.key # key["reader"]
<1> DEFINE n == reader.at + 1
<1>1. n \in 1..Len(wire) /\ NextPacket = wire[n]
  BY DEF Inv, TypeOK, Readers, NextPacket
<1>2. /\ wire[n] \in Packets
      /\ sent[n] \in Frames
      /\ MeantBy(wire[n].payload, sent[n])
      /\ sent[n].encrypted = IsEncrypted(wire[n].payload.header)
  BY <1>1, SentFields DEF Inv
<1>3. AsWritten(wire[n])
  BY <1>1 DEF Inv, Aligned
<1>4. CASE IsEncrypted(NextPacket.header) /\ Missing(key["reader"])
  BY <1>1, <1>2, <1>3, <1>4 DEF AsWritten, MeantBy, Missing
<1>5. CASE ~(IsEncrypted(NextPacket.header) /\ Missing(key["reader"]))
  <2>1. out \in Parsed(wire[n], key["reader"])
    BY <1>1, <1>5
  <2>2. IF IsEncrypted(wire[n].header) /\ wire[n].payload.key # key["reader"]
          THEN out = Failed ELSE out = sent[n]
    BY <1>2, <1>3, <2>1, ParsedIntact
  <2> QED  BY <1>1, <1>2, <1>3, <2>2 DEF AsWritten
<1> QED  BY <1>4, <1>5

\* Every result that ReadFrame or ReadEnd adds keeps OnlyExplainedErrors, when
\* a failure of it is explained.
LEMMA ExplainedStep ==
  ASSUME Inv, NEW out \in Frames \cup {Failed}, Result(out),
         UNCHANGED <<wire, sent, intact>>,
         intact /\ out = Failed =>
           \/ ~wire[Len(got) + 1].whole
           \/ sent[Len(got) + 1].encrypted /\ wire[Len(got) + 1].payload.key # key["reader"]
  PROVE  OnlyExplainedErrors'
<1>1. /\ Len(got') = Len(got) + 1
      /\ \A i \in 1..Len(got) : got'[i] = got[i]
      /\ got'[Len(got) + 1] = [out |-> out, key |-> key["reader"]]
      /\ Len(got) \in Nat
  BY ResultType DEF Inv, TypeOK
<1>2. SUFFICES ASSUME intact, NEW i \in 1..Len(got'), got'[i].out = Failed
               PROVE  \/ ~wire[i].whole
                      \/ sent[i].encrypted /\ wire[i].payload.key # got'[i].key
  BY DEF OnlyExplainedErrors
<1>3. CASE i \in 1..Len(got)
  BY <1>1, <1>2, <1>3 DEF Inv, OnlyExplainedErrors
<1>4. CASE i = Len(got) + 1
  BY <1>1, <1>2, <1>4
<1> QED  BY <1>1, <1>3, <1>4

LEMMA ReadFrameInv ==
  ASSUME Inv, ReadFrame
  PROVE  Inv'
<1> DEFINE p == NextPacket
           keyless == IsEncrypted(p.header) /\ Missing(key["reader"])
<1>1. PICK out \in (IF keyless THEN {Failed} ELSE Parsed(p, key["reader"])) : Result(out)
  BY DEF ReadFrame
<1>2. /\ reader.at < Len(wire) /\ reader.live /\ ~reader.lost
      /\ p.len # p.size => reader'.lost
      /\ p.len = p.size => ~reader'.lost
      /\ reader'.at = reader.at + 1
      /\ reader' \in Readers
      /\ UNCHANGED <<api, key, writer, wire, open, sent, intact>>
  BY DEF ReadFrame, Arrived, Inv, TypeOK, Readers, Panics
<1>3. p \in Packets /\ reader.at + 1 \in 1..Len(wire) /\ p = wire[reader.at + 1]
  BY <1>2 DEF Inv, TypeOK, Readers, NextPacket
<1>4. out \in Frames \cup {Failed}
  BY <1>1, <1>3, ParsedType
<1>5. /\ got' \in Seq([out : Frames \cup {Failed}, key : Keys \cup {Unset, Nil}])
      /\ Len(got') = Len(got) + 1
  BY <1>1, <1>4, ResultType DEF Inv
<1>6. TypeOK'
  BY <1>2, <1>5 DEF Inv, TypeOK
<1>7. Matched' /\ RustSealsWithOneKey'
  BY <1>2 DEF Inv, Matched, RustSealsWithOneKey
<1>8. Aligned'
  <2>1. intact => p.len = p.size
    BY <1>3 DEF Inv, Aligned, AsWritten
  <2>2. reader.at \in Nat /\ Len(wire) \in Nat
    BY DEF Inv, TypeOK, Readers
  <2>3. reader'.at <= Len(wire')
    BY <1>2, <2>2
  <2>4. intact => Len(got') = reader'.at
    BY <1>2, <1>5 DEF Inv, Aligned
  <2> QED  BY <1>2, <2>1, <2>3, <2>4 DEF Inv, Aligned
<1>9. OnlyExplainedErrors'
  <2>1. intact => Len(got) = reader.at
    BY <1>2 DEF Inv, Aligned
  <2>2. intact /\ out = Failed =>
          /\ sent[Len(got) + 1].encrypted
          /\ wire[Len(got) + 1].payload.key # key["reader"]
    <3>1. SUFFICES ASSUME intact, out = Failed
                   PROVE  /\ sent[reader.at + 1].encrypted
                          /\ wire[reader.at + 1].payload.key # key["reader"]
      BY <2>1
    <3>2. sent[reader.at + 1] # Failed
      BY <1>3, SentFields DEF Inv
    <3> QED  BY <1>1, <1>2, <1>3, <3>1, <3>2, ReadIntact
  <2> QED  BY <1>1, <1>2, <1>4, <2>2, ExplainedStep
<1> QED  BY <1>6, <1>7, <1>8, <1>9 DEF Inv

LEMMA ReadEndInv ==
  ASSUME Inv, ReadEnd
  PROVE  Inv'
<1>1. /\ reader' = [reader EXCEPT !.live = FALSE]
      /\ UNCHANGED <<api, key, writer, wire, open, sent, intact>>
      /\ reader.live
  BY DEF ReadEnd
<1>2. reader' \in Readers /\ reader'.at = reader.at /\ reader'.lost = reader.lost /\ ~reader'.live
  BY <1>1 DEF Inv, TypeOK, Readers
<1>3. Matched' /\ RustSealsWithOneKey'
  BY <1>1 DEF Inv, Matched, RustSealsWithOneKey
<1>4. CASE UNCHANGED got
  BY <1>1, <1>2, <1>3, <1>4 DEF Inv, TypeOK, Aligned, OnlyExplainedErrors
<1>5. CASE /\ Result(Failed)
           /\ \/ reader.lost
              \/ /\ reader.at < Len(wire)
                 /\ ~NextPacket.whole \/ NextPacket.len > NextPacket.size
  <2>1. intact => /\ reader.at < Len(wire)
                  /\ Len(got) = reader.at
                  /\ ~wire[reader.at + 1].whole
    <3>1. SUFFICES ASSUME intact
                   PROVE  /\ reader.at < Len(wire)
                          /\ ~wire[reader.at + 1].whole
      BY <1>1 DEF Inv, Aligned
    <3>2. ~reader.lost
      BY <3>1 DEF Inv, Aligned
    <3>3. reader.at < Len(wire) /\ (~NextPacket.whole \/ NextPacket.len > NextPacket.size)
      BY <1>5, <3>2
    <3>4. reader.at + 1 \in 1..Len(wire) /\ NextPacket = wire[reader.at + 1]
      BY <3>3 DEF Inv, TypeOK, Readers, NextPacket
    <3>5. NextPacket.len = NextPacket.size /\ NextPacket.len \in Nat
      BY <3>1, <3>4, SentFields, PacketFields DEF Inv, Aligned, AsWritten
    <3> QED  BY <3>3, <3>4, <3>5
  <2>2. /\ got' \in Seq([out : Frames \cup {Failed}, key : Keys \cup {Unset, Nil}])
        /\ Len(got') = Len(got) + 1
    BY <1>5, ResultType DEF Inv
  <2>3. TypeOK'
    BY <1>1, <1>2, <2>2 DEF Inv, TypeOK
  <2>4. Aligned'
    <3>1. reader.at \in Nat /\ Len(wire) \in Nat /\ Len(got) \in Nat
      BY DEF Inv, TypeOK, Readers
    <3> QED  BY <1>1, <1>2, <2>1, <2>2, <3>1 DEF Inv, Aligned
  <2>5. OnlyExplainedErrors'
    BY <1>1, <1>5, <2>1, ExplainedStep
  <2> QED  BY <1>3, <2>3, <2>4, <2>5 DEF Inv
<1> QED  BY <1>4, <1>5 DEF ReadEnd

LEMMA GuessType ==
  Guesses \subseteq Frames \cup {Failed}
<1>1. SUFFICES ASSUME NEW header \in Headers, CompressOf(header) \in CompressIds, NEW tx \in TxIds
               PROVE  FrameOf(header, tx, Junk) \in Frames
  BY DEF Guesses
<1> QED  BY <1>1, FrameType

LEMMA ReadLostInv ==
  ASSUME Inv, ReadLost
  PROVE  Inv'
<1>1. PICK out \in Guesses : Result(out)
  BY DEF ReadLost
<1>2. ~intact /\ UNCHANGED <<api, key, writer, wire, open, reader, sent, intact>>
  BY DEF ReadLost, Inv, Aligned
<1>3. got' \in Seq([out : Frames \cup {Failed}, key : Keys \cup {Unset, Nil}])
  BY <1>1, GuessType, ResultType DEF Inv
<1>4. TypeOK'
  BY <1>2, <1>3 DEF Inv, TypeOK
<1> QED  BY <1>2, <1>4 DEF Inv, Matched, Aligned, OnlyExplainedErrors, RustSealsWithOneKey

LEMMA RealignInv ==
  ASSUME Inv, NEW at \in 0..Len(wire), Realign(at)
  PROVE  Inv'
<1>1. ~intact /\ UNCHANGED <<api, key, writer, wire, open, sent, got, intact>>
  BY DEF Realign, Inv, Aligned
<1>2. reader' \in Readers /\ reader'.at = at
  <2>1. reader \in Readers /\ at \in Nat
    BY DEF Inv, TypeOK
  <2>2. reader' = [reader EXCEPT !.at = at, !.lost = FALSE]
    BY DEF Realign
  <2> QED  BY <2>1, <2>2 DEF Readers
<1>3. TypeOK'
  BY <1>1, <1>2 DEF Inv, TypeOK
<1> QED  BY <1>1, <1>2, <1>3 DEF Inv, Matched, Aligned, OnlyExplainedErrors, RustSealsWithOneKey

LEMMA StutterInv ==
  ASSUME Inv, UNCHANGED vars
  PROVE  Inv'
BY DEF Inv, vars, TypeOK, Matched, Aligned, OnlyExplainedErrors, RustSealsWithOneKey

LEMMA StepInv ==
  ASSUME Inv, [Next]_vars
  PROVE  Inv'
<1>1. CASE \E e \in Ends, k \in Keys \cup {Nil} : SetKey(e, k)
  BY <1>1, SetKeyInv
<1>2. CASE \E r \in Requests : BeginWrite(r)
  BY <1>2, BeginWriteInv
<1>3. CASE Write
  BY <1>3, RefuseWriteInv, PanicWriteInv, WriteFrameInv DEF Write
<1>4. CASE \E kept \in 0..Len(wire) : CloseStream(kept)
  BY <1>4, CloseStreamInv
<1>5. CASE \E i \in 1..Len(wire) : DamageFrame(i)
  BY <1>5, DamageFrameInv
<1>6. CASE Read
  BY <1>6, ReadFrameInv, ReadEndInv DEF Read
<1>7. CASE ReadLost
  BY <1>7, ReadLostInv
<1>8. CASE \E at \in 0..Len(wire) : Realign(at)
  BY <1>8, RealignInv
<1>9. CASE UNCHANGED vars
  BY <1>9, StutterInv
<1> QED  BY <1>1, <1>2, <1>3, <1>4, <1>5, <1>6, <1>7, <1>8, <1>9 DEF Next

LEMMA Invariance == Spec => []Inv
BY InitInv, StepInv, PTL DEF Spec

\* The variables keep their types.
THEOREM Typing == Spec => []TypeOK
<1>1. Inv => TypeOK
  BY DEF Inv
<1> QED  BY <1>1, Invariance, PTL

\* A read of untouched bytes fails only for a cut frame or another key.
THEOREM ErrorsAreExplained == Spec => []OnlyExplainedErrors
<1>1. Inv => OnlyExplainedErrors
  BY DEF Inv
<1> QED  BY <1>1, Invariance, PTL

\* No frame that was to be encrypted is in the clear.
THEOREM Secrecy == Spec => []NothingInTheClear
<1>1. Inv => NothingInTheClear
  BY MatchedSealed DEF Inv
<1> QED  BY <1>1, Invariance, PTL

\* A Rust process seals all its frames with the key in its cell.
THEOREM OneKey == Spec => []RustSealsWithOneKey
<1>1. Inv => RustSealsWithOneKey
  BY DEF Inv
<1> QED  BY <1>1, Invariance, PTL

-----------------------------------------------------------------------------
(* A stream implements FrameChannel.                                       *)

LEMMA OutsLen ==
  ASSUME TypeOK
  PROVE  /\ Len(got) \in Nat
         /\ Outs(got) \in Seq(Frames \cup {Failed})
         /\ Len(Outs(got)) = Len(got)
         /\ \A i \in 1..Len(got) : Outs(got)[i] = got[i].out
<1>1. Len(got) \in Nat
  BY DEF TypeOK
<1>2. \A i \in 1..Len(got) : got[i].out \in Frames \cup {Failed}
  <2> DEFINE S == [out : Frames \cup {Failed}, key : Keys \cup {Unset, Nil}]
  <2>1. got \in Seq(S)
    BY DEF TypeOK
  <2>2. \A r \in S : r.out \in Frames \cup {Failed}
    OBVIOUS
  <2> HIDE DEF S
  <2>3. \A i \in 1..Len(got) : got[i] \in S
    BY <2>1
  <2> QED  BY <2>2, <2>3
<1>3. Outs(got) = [i \in 1..Len(got) |-> got[i].out]
  BY DEF Outs
<1>4. Outs(got) \in Seq(Frames \cup {Failed})
  BY <1>1, <1>2, <1>3
<1> QED  BY <1>1, <1>3, <1>4

LEMMA OutsAppend ==
  ASSUME TypeOK, NEW out \in Frames \cup {Failed}, Result(out)
  PROVE  Outs(got)' = Append(Outs(got), out)
<1>1. /\ Len(got') = Len(got) + 1
      /\ \A i \in 1..Len(got) : got'[i] = got[i]
      /\ got'[Len(got) + 1].out = out
      /\ Len(got) \in Nat
  <2>1. Len(got) \in Nat
    BY OutsLen
  <2>2. got'[Len(got) + 1] = [out |-> out, key |-> key["reader"]]
    BY ResultType
  <2> QED  BY <2>1, <2>2, ResultType
<1> DEFINE new == Outs(got')
           old == Append(Outs(got), out)
<1>2. new = [i \in 1..(Len(got) + 1) |-> got'[i].out]
  BY <1>1 DEF Outs
<1>3. old \in Seq(Frames \cup {Failed}) /\ Len(old) = Len(got) + 1
  BY OutsLen
<1>4. \A i \in 1..(Len(got) + 1) : old[i] = IF i <= Len(got) THEN Outs(got)[i] ELSE out
  <2> DEFINE S == Frames \cup {Failed}
             before == Outs(got)
  <2>1. before \in Seq(S) /\ Len(before) = Len(got) /\ out \in S /\ Len(got) \in Nat
    BY OutsLen
  <2> HIDE DEF S, before
  <2>2. \A i \in 1..(Len(before) + 1) :
          Append(before, out)[i] = IF i <= Len(before) THEN before[i] ELSE out
    BY <2>1
  <2>3. old = Append(before, out) /\ before = Outs(got)
    BY DEF before
  <2> HIDE DEF old
  <2> QED  BY <2>1, <2>2, <2>3
<1>5. \A i \in 1..(Len(got) + 1) : got'[i].out = IF i <= Len(got) THEN Outs(got)[i] ELSE out
  BY <1>1, OutsLen
<1>6. \A i \in 1..(Len(got) + 1) : got'[i].out = old[i]
  BY <1>4, <1>5
<1>7. old = [i \in 1..(Len(got) + 1) |-> old[i]]
  <2> HIDE DEF old
  <2>1. old \in [1..Len(old) -> Frames \cup {Failed}]
    BY <1>3, LenProperties
  <2> QED  BY <1>3, <2>1
<1>8. new = old
  <2> HIDE DEF old, new
  <2> QED  BY <1>2, <1>6, <1>7
<1>9. Outs(got)' = new
  BY DEF Outs
<1> QED  BY <1>8, <1>9

LEMMA InitImplements ==
  ASSUME Init
  PROVE  Channel!Init
BY DEF Init, Channel!Init, Outs

LEMMA WriteImplements ==
  ASSUME Inv, WriteFrame
  PROVE  \E f \in Frames : Channel!Send(f)
<1> DEFINE r == writer.req
           f == FrameOf(HeaderOf(r.type, r.flags), r.tx, r.data)
<1>1. sent' = Append(sent, f) /\ UNCHANGED <<got, intact>>
  BY DEF WriteFrame
<1>2. r \in Requests /\ Packable(r.type, r.flags)
  BY DEF Inv, TypeOK, WriteFrame, Writers
<1>3. f \in Frames
  <2>1. r.type \in Nat /\ r.flags \in 0..255 /\ r.tx \in TxIds /\ r.data \in Data
    BY <1>2
  <2> QED  BY <1>2, <2>1, HeaderType, HeaderRoundTrip, FrameType DEF Packable
<1> HIDE DEF r, f
<1> QED  BY <1>1, <1>3 DEF Channel!Send, Outs

LEMMA DamageImplements ==
  ASSUME Inv, NEW i \in 1..Len(wire), DamageFrame(i)
  PROVE  Channel!Damage
BY DEF DamageFrame, Channel!Damage, Outs

\* A result is an error that FrameChannel allows, the next frame, or one that
\* damage explains.
LEMMA ResultImplements ==
  ASSUME Inv, UNCHANGED <<sent, intact>>, NEW out \in Frames \cup {Failed}, Result(out),
         intact => /\ Len(got) < Len(sent)
                   /\ out \in {Failed, sent[Len(got) + 1]},
         ~intact /\ out # Failed /\ out.encrypted => \E i \in 1..Len(sent) : out = sent[i]
  PROVE  Channel!Next
<1>1. Outs(got)' = Append(Outs(got), out) /\ Len(Outs(got)) = Len(got)
  BY OutsAppend, OutsLen DEF Inv
<1>2. CASE out = Failed
  BY <1>1, <1>2 DEF Channel!Next, Channel!Fail
<1>3. CASE intact /\ out # Failed
  BY <1>1, <1>3 DEF Channel!Next, Channel!Deliver
<1>4. CASE ~intact /\ out # Failed
  <2>1. Channel!DeliverDamaged(out)
    BY <1>1, <1>4 DEF Channel!DeliverDamaged
  <2> QED  BY <1>4, <2>1 DEF Channel!Next
<1> QED  BY <1>2, <1>3, <1>4

LEMMA ReadFrameImplements ==
  ASSUME Inv, ReadFrame
  PROVE  Channel!Next
<1> DEFINE n == reader.at + 1
           keyless == IsEncrypted(NextPacket.header) /\ Missing(key["reader"])
<1>1. PICK out \in (IF keyless THEN {Failed} ELSE Parsed(NextPacket, key["reader"])) : Result(out)
  BY DEF ReadFrame
<1>2. reader.at < Len(wire) /\ reader.live /\ UNCHANGED <<sent, intact>>
  BY DEF ReadFrame, Arrived
<1>3. n \in 1..Len(wire) /\ NextPacket = wire[n] /\ Len(sent) = Len(wire)
  BY <1>2 DEF Inv, TypeOK, Readers, NextPacket, Matched
<1>4. wire[n] \in Packets /\ sent[n] \in Frames /\ MeantBy(wire[n].payload, sent[n])
  BY <1>3, SentFields DEF Inv
<1>5. out \in Frames \cup {Failed}
  BY <1>1, <1>3, <1>4, ParsedType
<1>6. intact => Len(got) < Len(sent) /\ out \in {Failed, sent[Len(got) + 1]}
  <2>1. intact => Len(got) = reader.at
    BY <1>2 DEF Inv, Aligned
  <2> QED  BY <1>1, <1>2, <1>3, <2>1, ReadIntact
<1>7. out # Failed /\ out.encrypted => out = sent[n]
  BY <1>1, <1>3, <1>4, ParsedSealed
<1> QED  BY <1>1, <1>2, <1>3, <1>5, <1>6, <1>7, ResultImplements

LEMMA ReadEndImplements ==
  ASSUME Inv, ReadEnd, ~UNCHANGED got
  PROVE  Channel!Next
<1>1. Result(Failed) /\ UNCHANGED <<sent, intact>> /\ reader.live
  BY DEF ReadEnd
<1>2. reader.lost \/ reader.at < Len(wire)
  BY DEF ReadEnd
<1>3. intact => Len(got) < Len(sent)
  BY <1>1, <1>2 DEF Inv, Aligned, Matched
<1> QED  BY <1>1, <1>3, ResultImplements

LEMMA ReadLostImplements ==
  ASSUME Inv, ReadLost
  PROVE  Channel!Next
<1>1. PICK out \in Guesses : Result(out)
  BY DEF ReadLost
<1>2. ~intact /\ UNCHANGED <<sent, intact>>
  BY DEF ReadLost, Inv, Aligned
<1>3. out \in Frames \cup {Failed}
  BY GuessType
<1>4. out # Failed => ~out.encrypted
  BY DEF Guesses, FrameOf
<1> QED  BY <1>1, <1>2, <1>3, <1>4, ResultImplements

LEMMA StepImplements ==
  ASSUME Inv, [Next]_vars
  PROVE  [Channel!Next]_(Channel!vars)
<1>1. CASE WriteFrame
  BY <1>1, WriteImplements DEF Channel!Next
<1>2. CASE \E i \in 1..Len(wire) : DamageFrame(i)
  BY <1>2, DamageImplements DEF Channel!Next
<1>3. CASE ReadFrame
  BY <1>3, ReadFrameImplements
<1>4. CASE ReadEnd /\ ~UNCHANGED got
  BY <1>4, ReadEndImplements
<1>5. CASE ReadLost
  BY <1>5, ReadLostImplements
<1>6. CASE UNCHANGED <<sent, got, intact>>
  BY <1>6 DEF Channel!vars, Outs
<1>7. (ReadEnd /\ UNCHANGED got) \/ RefuseWrite \/ PanicWrite => UNCHANGED <<sent, got, intact>>
  BY DEF ReadEnd, RefuseWrite, PanicWrite, Panic
<1>8. /\ \A e \in Ends, k \in Keys \cup {Nil} : SetKey(e, k) => UNCHANGED <<sent, got, intact>>
      /\ \A r \in Requests : BeginWrite(r) => UNCHANGED <<sent, got, intact>>
      /\ \A kept \in 0..Len(wire) : CloseStream(kept) => UNCHANGED <<sent, got, intact>>
      /\ \A at \in 0..Len(wire) : Realign(at) => UNCHANGED <<sent, got, intact>>
      /\ UNCHANGED vars => UNCHANGED <<sent, got, intact>>
  BY DEF SetKey, BeginWrite, Panic, CloseStream, Realign, vars
<1> QED  BY <1>1, <1>2, <1>3, <1>4, <1>5, <1>6, <1>7, <1>8 DEF Next, Write, Read

\* The codec on a stream is the channel it promises to be, for every key,
\* every data, every limit of the length field and any number of frames.
THEOREM Refinement == Spec => ImplementsChannel
<1>1. Init => Channel!Init
  BY InitImplements
<1>2. Inv /\ [Next]_vars => [Channel!Next]_(Channel!vars)
  BY StepImplements
<1> QED  BY <1>1, <1>2, Invariance, PTL DEF Spec, ImplementsChannel, Channel!Spec

-----------------------------------------------------------------------------
(* What follows for a reader, from the promises of the channel alone.      *)

\* While no byte is changed, each result stands for one frame, in the order of
\* writing, and each encrypted result is a frame that was written, whatever
\* happens to the bytes.
Kept(results, frames, whole) ==
  /\ whole => /\ Len(results) <= Len(frames)
              /\ \A i \in 1..Len(results) : results[i] \in {frames[i], Failed}
  /\ \A i \in 1..Len(results) :
       results[i] # Failed /\ results[i].encrypted
         => \E j \in 1..Len(frames) : results[i] = frames[j]

\* One more frame leaves what was kept as it was.
LEMMA KeptBySending ==
  ASSUME NEW S, NEW results \in Seq(S), NEW frames \in Seq(Frames), NEW whole \in BOOLEAN,
         NEW f \in Frames, Kept(results, frames, whole)
  PROVE  Kept(results, Append(frames, f), whole)
<1>1. /\ Len(Append(frames, f)) = Len(frames) + 1
      /\ \A i \in 1..Len(frames) : Append(frames, f)[i] = frames[i]
      /\ Len(frames) \in Nat /\ Len(results) \in Nat
  OBVIOUS
<1>2. whole => \A i \in 1..Len(results) : i \in 1..Len(frames)
  BY <1>1 DEF Kept
<1>3. 1..Len(frames) \subseteq 1..(Len(frames) + 1)
  BY <1>1
<1> HIDE DEF Kept
<1>4. whole => /\ Len(results) <= Len(Append(frames, f))
               /\ \A i \in 1..Len(results) : results[i] \in {Append(frames, f)[i], Failed}
  BY <1>1, <1>2 DEF Kept
<1>5. ASSUME NEW i \in 1..Len(results), results[i] # Failed, results[i].encrypted
      PROVE  \E j \in 1..Len(Append(frames, f)) : results[i] = Append(frames, f)[j]
  <2>1. PICK j \in 1..Len(frames) : results[i] = frames[j]
    BY <1>5 DEF Kept
  <2>2. j \in 1..Len(Append(frames, f)) /\ results[i] = Append(frames, f)[j]
    BY <1>1, <2>1
  <2> QED  BY <2>2
<1> QED  BY <1>4, <1>5 DEF Kept

\* One more result, which the frames account for.
LEMMA KeptByReading ==
  ASSUME NEW S, NEW results \in Seq(S), NEW frames \in Seq(Frames), NEW whole \in BOOLEAN,
         NEW out \in S, Kept(results, frames, whole),
         whole => /\ Len(results) < Len(frames)
                  /\ out \in {frames[Len(results) + 1], Failed},
         out # Failed /\ out.encrypted => \E j \in 1..Len(frames) : out = frames[j]
  PROVE  Kept(Append(results, out), frames, whole)
<1>1. /\ Len(Append(results, out)) = Len(results) + 1
      /\ \A i \in 1..Len(results) : Append(results, out)[i] = results[i]
      /\ Append(results, out)[Len(results) + 1] = out
      /\ Len(frames) \in Nat /\ Len(results) \in Nat
  OBVIOUS
<1>2. \A i \in 1..(Len(results) + 1) : i \in 1..Len(results) \/ i = Len(results) + 1
  BY <1>1
<1>3. whole => /\ Len(results) + 1 <= Len(frames)
               /\ \A i \in 1..(Len(results) + 1) :
                    Append(results, out)[i] \in {frames[i], Failed}
  BY <1>1, <1>2 DEF Kept
<1>4. ASSUME NEW i \in 1..(Len(results) + 1),
             Append(results, out)[i] # Failed, Append(results, out)[i].encrypted
      PROVE  \E j \in 1..Len(frames) : Append(results, out)[i] = frames[j]
  <2>1. CASE i \in 1..Len(results)
    BY <1>1, <1>4, <2>1 DEF Kept
  <2>2. CASE i = Len(results) + 1
    BY <1>1, <1>4, <2>2
  <2> QED  BY <1>2, <2>1, <2>2
<1> QED  BY <1>1, <1>3, <1>4 DEF Kept

LEMMA ChannelKeeps ==
  ASSUME TypeOK, Kept(Outs(got), sent, intact), [Channel!Next]_(Channel!vars)
  PROVE  Kept(Outs(got), sent, intact)'
<1>1. /\ Outs(got) \in Seq(Frames \cup {Failed}) /\ sent \in Seq(Frames)
      /\ intact \in BOOLEAN
  BY OutsLen DEF TypeOK
<1>2. SUFFICES Kept(Outs(got)', sent', intact')
  BY DEF Kept
<1>3. CASE UNCHANGED Channel!vars
  BY <1>3 DEF Channel!vars
<1>4. ASSUME NEW f \in Frames, Channel!Send(f)
      PROVE  Kept(Outs(got)', sent', intact')
  BY <1>1, <1>4, KeptBySending DEF Channel!Send
<1>5. CASE Channel!Damage
  BY <1>5 DEF Channel!Damage, Kept
<1>6. ASSUME NEW out \in Frames \cup {Failed},
             Outs(got)' = Append(Outs(got), out), sent' = sent, intact' = intact,
             intact => /\ Len(Outs(got)) < Len(sent)
                       /\ out \in {sent[Len(Outs(got)) + 1], Failed},
             out # Failed /\ out.encrypted => \E j \in 1..Len(sent) : out = sent[j]
      PROVE  Kept(Outs(got)', sent', intact')
  BY <1>1, <1>6, KeptByReading
<1>7. CASE Channel!Deliver
  <2>1. Len(Outs(got)) + 1 \in 1..Len(sent)
    BY <1>1, <1>7 DEF Channel!Deliver
  <2>2. sent[Len(Outs(got)) + 1] \in Frames
    BY <1>1, <2>1
  <2> QED  BY <1>6, <1>7, <2>1, <2>2 DEF Channel!Deliver
<1>8. CASE Channel!Fail
  BY <1>6, <1>8 DEF Channel!Fail
<1>9. ASSUME NEW f \in Frames, Channel!DeliverDamaged(f)
      PROVE  Kept(Outs(got)', sent', intact')
  BY <1>6, <1>9 DEF Channel!DeliverDamaged
<1> QED  BY <1>3, <1>4, <1>5, <1>7, <1>8, <1>9 DEF Channel!Next

\* A reader that has had an error still knows which frame it missed, as long as
\* the bytes are intact; and an encrypted frame it is given was written, also
\* after the bytes were changed (read_frame, tiny_frame.rs:311).
THEOREM ReadsAreKept == Spec => [](Kept(Outs(got), sent, intact))
<1>1. Channel!Init => Kept(Outs(got), sent, intact)
  BY DEF Channel!Init, Kept
<1>2. TypeOK /\ Kept(Outs(got), sent, intact) /\ [Channel!Next]_(Channel!vars)
        => Kept(Outs(got), sent, intact)'
  BY ChannelKeeps
<1> QED  BY <1>1, <1>2, Typing, Refinement, PTL DEF ImplementsChannel, Channel!Spec

=============================================================================
