------------------------------ MODULE TinyFrame ------------------------------
(***************************************************************************)
(* The frame codec: src/src/tiny_frame.rs and src/tinyframe/frame.go.      *)
(*                                                                         *)
(* A writer packs a header byte, compresses, encrypts and sends; a reader  *)
(* takes header, transaction id, length and as many bytes as the length    *)
(* says, decrypts and decompresses.  The key belongs to the process: in    *)
(* Rust it is set at most once, in Go it may be replaced at any time, and  *)
(* the functions WithKey that the Go SDK uses are given a key of their     *)
(* own.  One stream between two processes is modelled, each of them with   *)
(* one of the three interfaces.  Compression and the cipher are external:  *)
(* they are modelled by what they give back.                               *)
(***************************************************************************)
EXTENDS Naturals, Sequences

CONSTANTS
  Pairs,      \* the interfaces that the two ends of a stream may use
  Keys,       \* cipher keys
  Unset,      \* no key has been configured
  Nil,        \* the key was configured as None or nil
  TxIds,      \* transaction ids
  Data,       \* what callers send
  Junk,       \* data that nobody has sent
  Failed,     \* the result of a read that is an error
  Requests,   \* the arguments that writers are called with
  Size,       \* Size[c][d]: the length of d after compression c
  MaxType,    \* MESSAGE_TYPE_MASK
  MaxLen,     \* the largest value of the length field
  Overhead,   \* NONCE_LEN + TAG_LEN
  Headers,    \* header bytes that damage may leave
  MaxFrames   \* bound: frames written on the stream

Ends == {"writer", "reader"}

\* tiny_frame.rs, the functions of frame.go with the key of the process, and
\* those WithKey.
Interfaces == {"rust", "go", "sdk"}

\* Both languages number no compression, gzip and deflate alike.
CompressIds == 0..2

ASSUME PairsAssumption == Pairs \subseteq [Ends -> Interfaces]
ASSUME RequestsAssumption ==
  Requests \subseteq [type : Nat, flags : 0..255, tx : TxIds, data : Data]
ASSUME SizeAssumption == /\ Size \in [CompressIds -> [Data -> Nat]]
                         /\ MaxType \in Nat
                         /\ MaxLen \in Nat
                         /\ Overhead \in Nat

HeaderBytes == 0..(8 * MaxType + 7)

ASSUME HeadersAssumption == Headers \subseteq HeaderBytes
ASSUME NoKeyAssumption == Unset \notin Keys /\ Nil \notin Keys /\ Unset # Nil
ASSUME JunkAssumption == Junk \notin Data
ASSUME MaxFramesAssumption == MaxFrames \in Nat

VARIABLES
  api,      \* the interface each end uses
  key,      \* the key cell of each end
  writer,   \* the call of write_frame under way
  wire,     \* the frames on the stream, as bytes
  open,     \* the writer's end of the stream
  reader,   \* how far the reader has come
  sent,     \* history: the frames on the stream, as their writer meant them
  got,      \* history: the results of the reads, with the key of each
  intact    \* history: no byte was changed on the way

vars == <<api, key, writer, wire, open, reader, sent, got, intact>>

-----------------------------------------------------------------------------
(* The codec.                                                              *)

\* pack_header_byte, and the fields of a header byte.
HeaderOf(type, flags) == 8 * type + flags

TypeOf(header) == header \div 8

CompressOf(header) == header % 4

IsEncrypted(header) == (header \div 4) % 2 = 1

\* The arguments that pack_header_byte accepts.
Packable(type, flags) == type <= MaxType /\ flags <= 7 /\ CompressOf(flags) \in CompressIds

\* A variant of AadOf that leaves the transaction id out.
AadOfHeader(header, tx) == header

\* The data that the cipher authenticates with the payload.
AadOf(header, tx) == <<header, tx>>

\* A payload: its key (Unset in the clear), what the tag covers, what was
\* compressed and how, and whether its bytes were changed.
Payload(k, header, tx, c, d) ==
  [key      |-> k,
   header   |-> header,
   tx       |-> tx,
   compress |-> c,
   data     |-> d,
   spoilt   |-> FALSE]

Payloads == [key      : Keys \cup {Unset},
             header   : HeaderBytes,
             tx       : TxIds,
             compress : CompressIds,
             data     : Data,
             spoilt   : BOOLEAN]

\* A frame on the stream: `size' bytes of payload, of which the length field
\* speaks; not all of them arrive when the stream is cut.
Packets == [header  : HeaderBytes,
            tx      : TxIds,
            len     : Nat,
            size    : Nat,
            payload : Payloads,
            whole   : BOOLEAN]

\* struct Frame.
Frames == [type      : 0..MaxType,
           compress  : CompressIds,
           encrypted : BOOLEAN,
           tx        : TxIds,
           data      : Data \cup {Junk}]

ASSUME FailedAssumption == Failed \notin Frames /\ Failed \notin Data \cup {Junk}

FrameOf(header, tx, d) == [type      |-> TypeOf(header),
                           compress  |-> CompressOf(header),
                           encrypted |-> IsEncrypted(header),
                           tx        |-> tx,
                           data      |-> d]

\* The length of what is sent for a request.
SizeOf(r) == Size[CompressOf(r.flags)][r.data] + (IF IsEncrypted(r.flags) THEN Overhead ELSE 0)

\* A variant of Fits that measures the data before it is encrypted.
FitsPlain(r) == Size[CompressOf(r.flags)][r.data] <= MaxLen

\* The last check of build_wire_frame, on the bytes after encryption.
Fits(r) == SizeOf(r) <= MaxLen

\* build_wire_frame for an acceptable request under key k.  The length is cut
\* to the width of its field.
PacketOf(r, k) ==
  LET header == HeaderOf(r.type, r.flags) IN
  [header  |-> header,
   tx      |-> r.tx,
   len     |-> SizeOf(r) % (MaxLen + 1),
   size    |-> SizeOf(r),
   payload |-> Payload(IF IsEncrypted(header) THEN k ELSE Unset,
                       header, r.tx, CompressOf(header), r.data),
   whole   |-> TRUE]

\* The payload of p can be opened with key k, or is plain and as it was sent.
Legible(p, k) ==
  /\ p.len = p.size
  /\ ~p.payload.spoilt
  /\ IF IsEncrypted(p.header)
       THEN /\ p.payload.key = k
            /\ AadOf(p.payload.header, p.payload.tx) = AadOf(p.header, p.tx)
       ELSE p.payload.key = Unset

\* decompress_payload: what was compressed in the same way comes back.  Other
\* bytes are an error or something that nobody has sent.
Inflated(c, payload, legible) ==
  IF legible /\ c = payload.compress
    THEN {payload.data}
    ELSE {d \in {Junk, Failed} : /\ c \notin CompressIds => d = Failed
                                 /\ c = 0 => d = Junk}

\* What parse_wire_frame may return for p with key k.
Parsed(p, k) ==
  IF IsEncrypted(p.header) /\ ~Legible(p, k)
    THEN {Failed}
    ELSE {IF d = Failed THEN Failed ELSE FrameOf(p.header, p.tx, d) :
            d \in Inflated(CompressOf(p.header), p.payload, Legible(p, k))}

-----------------------------------------------------------------------------

Idle == [pc |-> "idle"]

\* A call of write_frame, with the key that WriteFrame in Go takes at its start.
Writers == [pc : {"build"}, req : Requests, key : Keys \cup {Unset, Nil}]

Readers == [at : Nat, lost : BOOLEAN, live : BOOLEAN]

Missing(k) == k \in {Unset, Nil}

\* The functions WithKey return an error where the others panic.
Panics(e) == api[e] # "sdk"

Init ==
  /\ api \in Pairs
  /\ key \in [Ends -> Keys \cup {Unset, Nil}]
  /\ \A e \in Ends : IF api[e] = "sdk" THEN key[e] # Unset ELSE key[e] = Unset
  /\ writer = Idle
  /\ wire = <<>>
  /\ open = TRUE
  /\ reader = [at |-> 0, lost |-> FALSE, live |-> TRUE]
  /\ sent = <<>>
  /\ got = <<>>
  /\ intact = TRUE

-----------------------------------------------------------------------------
(* The key of a process.                                                   *)

\* A variant of MaySet: set_encrypt_key replaces the key in Rust too.
MaySetAgain(e) == api[e] # "sdk"

\* OnceCell.set succeeds once; a second call panics and leaves the key alone.
\* SetEncryptKey in Go replaces the key.
MaySet(e) == api[e] = "go" \/ (api[e] = "rust" /\ key[e] = Unset)

SetKey(e, k) ==
  /\ MaySet(e)
  /\ key' = [key EXCEPT ![e] = k]
  /\ UNCHANGED <<api, writer, wire, open, reader, sent, got, intact>>

-----------------------------------------------------------------------------
(* Writing.                                                                *)

\* A panic takes the task or the process with it, and the stream goes.
Panic == /\ open' = FALSE
         /\ writer' = Idle
         /\ UNCHANGED <<api, key, wire, reader, sent, got, intact>>

\* write_frame is called.  WriteFrame in Go looks up the key first of all.
BeginWrite(r) ==
  /\ writer = Idle
  /\ open
  /\ Len(sent) < MaxFrames
  /\ IF api["writer"] = "go" /\ IsEncrypted(r.flags) /\ Missing(key["writer"])
       THEN Panic
       ELSE /\ writer' = [pc |-> "build", req |-> r, key |-> key["writer"]]
            /\ UNCHANGED <<api, key, wire, open, reader, sent, got, intact>>

\* The key that the frame under way is sealed with: Rust looks it up when the
\* data is compressed.
SealingKey == IF api["writer"] = "rust" THEN key["writer"] ELSE writer.key

\* Variants of KeyMissing: the frame goes out in the clear.
NeverMissing(r) == FALSE

\* An encrypted frame is asked for, and there is no key.
KeyMissing(r) == IsEncrypted(r.flags) /\ Missing(SealingKey)

\* The call ends with an error, and nothing is sent.
RefuseWrite ==
  /\ writer # Idle
  /\ LET r == writer.req IN
       \/ ~Packable(r.type, r.flags)
       \/ KeyMissing(r) /\ ~Panics("writer")
       \/ Packable(r.type, r.flags) /\ ~KeyMissing(r) /\ ~Fits(r)
  /\ writer' = Idle
  /\ UNCHANGED <<api, key, wire, open, reader, sent, got, intact>>

\* require_encrypt_key panics.
PanicWrite == /\ writer # Idle
              /\ Packable(writer.req.type, writer.req.flags)
              /\ KeyMissing(writer.req)
              /\ Panics("writer")
              /\ Panic

\* The frame is built and handed to the stream.
WriteFrame ==
  /\ writer # Idle
  /\ open
  /\ LET r == writer.req IN
       /\ Packable(r.type, r.flags)
       /\ ~KeyMissing(r)
       /\ Fits(r)
       /\ wire' = Append(wire, PacketOf(r, SealingKey))
       /\ sent' = Append(sent, FrameOf(HeaderOf(r.type, r.flags), r.tx, r.data))
  /\ writer' = Idle
  /\ UNCHANGED <<api, key, open, reader, got, intact>>

-----------------------------------------------------------------------------
(* The stream.                                                             *)

\* The writer drops the stream, in the middle of write_all or after it, or the
\* connection breaks: what comes after some byte does not arrive.
CloseStream(kept) ==
  /\ open
  /\ kept \in reader.at..Len(wire)
  /\ open' = FALSE
  /\ writer' = Idle
  /\ wire' = [i \in 1..Len(wire) |-> IF i <= kept THEN wire[i]
                                      ELSE [wire[i] EXCEPT !.whole = FALSE]]
  /\ UNCHANGED <<api, key, reader, sent, got, intact>>

\* What may become of the bytes of a frame.
Damaged(p) == {[p EXCEPT !.header = header] : header \in Headers}
                \cup {[p EXCEPT !.tx = tx] : tx \in TxIds}
                \cup {[p EXCEPT !.len = len] : len \in 0..MaxLen}
                \cup {[p EXCEPT !.payload.spoilt = TRUE]}

\* Bytes of a frame that was not read yet are changed; a bound: in one frame.
DamageFrame(i) ==
  /\ intact
  /\ i \in (reader.at + 1)..Len(wire)
  /\ \E p \in Damaged(wire[i]) : wire' = [wire EXCEPT ![i] = p]
  /\ intact' = FALSE
  /\ UNCHANGED <<api, key, writer, open, reader, sent, got>>

-----------------------------------------------------------------------------
(* Reading.                                                                *)

Result(out) == got' = Append(got, [out |-> out, key |-> key["reader"]])

NextPacket == wire[reader.at + 1]

\* All the bytes of which the length field speaks are there.  A length that
\* has become too large takes in the frames that follow.
Arrived == /\ reader.at < Len(wire)
           /\ NextPacket.whole
           /\ NextPacket.len > NextPacket.size => reader.at + 1 < Len(wire)

\* read_frame finds a whole frame; the key is looked up after the last byte.
\* A length that is wrong leaves the reader in the middle of some frame.
ReadFrame ==
  LET p == NextPacket
      k == key["reader"]
      keyless == IsEncrypted(p.header) /\ Missing(k)
  IN
  /\ reader.live
  /\ ~reader.lost
  /\ Arrived
  /\ \E out \in (IF keyless THEN {Failed} ELSE Parsed(p, k)) : Result(out)
  /\ reader' = [at   |-> reader.at + 1,
                lost |-> p.len # p.size,
                live |-> ~(keyless /\ Panics("reader"))]
  /\ UNCHANGED <<api, key, writer, wire, open, sent, intact>>

\* read_exact finds the end of the stream, and so will every later read.  It is
\* a result when bytes of a frame came before it.
ReadEnd ==
  /\ reader.live
  /\ ~open
  /\ \/ UNCHANGED got /\ (reader.lost \/ reader.at = Len(wire))
     \/ /\ Result(Failed)
        /\ \/ reader.lost
           \/ /\ reader.at < Len(wire)
              /\ ~NextPacket.whole \/ NextPacket.len > NextPacket.size
  /\ reader' = [reader EXCEPT !.live = FALSE]
  /\ UNCHANGED <<api, key, writer, wire, open, sent, intact>>

\* What a reader in the middle of some frame may make of the bytes it finds; no
\* tag will fit them.
Guesses ==
  {Failed} \cup {FrameOf(header, tx, Junk) :
                   header \in {h \in Headers : ~IsEncrypted(h) /\ CompressOf(h) \in CompressIds},
                   tx \in TxIds}

ReadLost ==
  /\ reader.live
  /\ reader.lost
  /\ Len(got) < MaxFrames
  /\ \E out \in Guesses : Result(out)
  /\ UNCHANGED <<api, key, writer, wire, open, reader, sent, intact>>

\* By chance it comes to the start of a later frame.
Realign(at) ==
  /\ reader.live
  /\ reader.lost
  /\ at \in reader.at..Len(wire)
  /\ reader' = [reader EXCEPT !.at = at, !.lost = FALSE]
  /\ UNCHANGED <<api, key, writer, wire, open, sent, got, intact>>

-----------------------------------------------------------------------------

Write == RefuseWrite \/ PanicWrite \/ WriteFrame

Read == ReadFrame \/ ReadEnd

Next == \/ \E e \in Ends, k \in Keys \cup {Nil} : SetKey(e, k)
        \/ \E r \in Requests : BeginWrite(r)
        \/ Write
        \/ \E kept \in 0..Len(wire) : CloseStream(kept)
        \/ \E i \in 1..Len(wire) : DamageFrame(i)
        \/ Read
        \/ ReadLost
        \/ \E at \in 0..Len(wire) : Realign(at)

Spec == Init /\ [][Next]_vars

\* A reader that is waiting for a frame takes one that is there.
FairSpec == Spec /\ WF_vars(Read)

-----------------------------------------------------------------------------
(* Properties.                                                             *)

\* Every variable has its type: the state that tiny_frame.rs and frame.go keep.
TypeOK ==
  /\ api \in [Ends -> Interfaces]
  /\ key \in [Ends -> Keys \cup {Unset, Nil}]
  /\ writer \in Writers \cup {Idle}
  /\ wire \in Seq(Packets)
  /\ open \in BOOLEAN
  /\ reader \in Readers
  /\ sent \in Seq(Frames)
  /\ got \in Seq([out : Frames \cup {Failed}, key : Keys \cup {Unset, Nil}])
  /\ intact \in BOOLEAN

\* What the reads returned.
Outs(results) == [i \in 1..Len(results) |-> results[i].out]

\* A stream of frames is a channel as FrameChannel describes it: whatever keys
\* are set when and whichever language is at each end, build_wire_frame and
\* parse_wire_frame keep the frames apart, in order and unchanged, and let no
\* changed frame with the encryption bit through.
Channel == INSTANCE FrameChannel WITH got <- Outs(got)

ImplementsChannel == Channel!Spec

\* While no byte is changed, a read fails only because the frame was cut short
\* or was sealed with a key other than the one the reader had when its last
\* byte came: parse_wire_frame never refuses what build_wire_frame made.
OnlyExplainedErrors ==
  intact => \A i \in 1..Len(got) :
              got[i].out = Failed =>
                \/ ~wire[i].whole
                \/ sent[i].encrypted /\ wire[i].payload.key # got[i].key

\* A frame that was to be encrypted is never on the stream in the clear:
\* require_encrypt_key and the nil check come before the bytes.
NothingInTheClear ==
  \A i \in 1..Len(sent) : sent[i].encrypted => wire[i].payload.key \in Keys

\* All encrypted frames of a Rust process are sealed with one key, the one its
\* cell holds for good: set_encrypt_key cannot come between two of them.
RustSealsWithOneKey ==
  api["writer"] = "rust" =>
    \A i \in 1..Len(sent) : sent[i].encrypted => wire[i].payload.key = key["writer"]

\* Every frame on an intact stream is read, or the reader has stopped at the
\* first one that ended its stream: read_frame keeps to the borders of frames.
FramesArrive ==
  \A n \in 1..MaxFrames :
    (Len(wire) >= n) ~> (reader.at >= n \/ ~reader.live \/ ~intact)

=============================================================================
