------------------------------- MODULE NalStream -------------------------------
(***************************************************************************)
(* The H.264 byte stream of the encoder, read in chunks that know nothing  *)
(* of its NAL units (VideoCapture::read_video_stream of                    *)
(* crates/kodama/src/capture/video.rs), and what capture/h264.rs makes of  *)
(* it: the units NalParser splits it into, and contains_keyframe on each   *)
(* chunk, by which the camera marks its frames.                            *)
(*                                                                         *)
(* A unit is its start code, of 3 or 4 bytes, and a NAL.  Positions count  *)
(* from 1 and 0 is the code's None.                                        *)
(***************************************************************************)
EXTENDS Integers, SequencesExt, FiniteSetsExt

CONSTANTS
  Nals,          \* NALs the encoder writes; see IsNal
  MaxUnits,      \* bound: units of the stream
  MaxChunk,      \* bytes of a read: the size of the reader's buffer
  MaxBuffer      \* MAX_NAL_BUFFER_SIZE

StartCode(length) == IF length = 3 THEN <<0, 0, 1>> ELSE <<0, 0, 0, 1>>

\* Whether a start code is at i: 0x000001, or 0x00000001 when it has all four.
IsStartCode(b, i) ==
  \/ SubSeq(b, i, i + 2) = StartCode(3)
  \/ i + 3 <= Len(b) /\ SubSeq(b, i, i + 3) = StartCode(4)

\* What an encoder can write: H.264 has no start code within a NAL and no zero at
\* its end.
IsNal(nal) ==
  /\ nal # <<>> /\ nal[Len(nal)] # 0
  /\ \A i \in 1 .. Len(nal) - 2 : ~IsStartCode(nal, i)

ASSUME ParserAssumption ==
  /\ \A nal \in Nals : nal \in Seq(0 .. 255) /\ IsNal(nal)
  /\ MaxUnits \in Nat /\ MaxChunk \in Nat /\ MaxBuffer \in Nat

VARIABLES
  units,     \* what the encoder writes, all of it
  read,      \* bytes of it read so far
  chunk,     \* the last chunk: its first byte, and whether it is marked a keyframe
  unparsed,  \* NalParser::buffer
  nals,      \* what feed and flush returned
  reset,     \* whether feed has given a buffer up
  flushed    \* whether the stream has ended

parserVars == <<units, read, chunk, unparsed, nals, reset, flushed>>

Stream(us) == FlattenSeq([i \in DOMAIN us |-> StartCode(us[i].code) \o us[i].nal])

ParserInit ==
  /\ units \in [1 .. MaxUnits -> [code : {3, 4}, nal : Nals]]
  /\ read = 0
  /\ chunk = [from |-> 1, marked |-> FALSE]
  /\ unparsed = <<>> /\ nals = <<>>
  /\ reset = FALSE /\ flushed = FALSE

\* find_start_code: the first start code at or after offset.
FindStartCode(b, offset) ==
  LET at == {i \in offset .. Len(b) - 2 : IsStartCode(b, i)}
  IN IF at = {} THEN 0 ELSE Min(at)

\* Mutant: the first zero of a long start code is left to the NAL before.
ShortStartCodeLen(b, i) == 3

StartCodeLen(b, i) ==
  IF i + 3 <= Len(b) /\ SubSeq(b, i, i + 3) = StartCode(4) THEN 4 ELSE 3

\* NalUnit::parse: nothing comes of no bytes.
Parse(data) == IF data = <<>> THEN <<>> ELSE <<data>>

IsKeyframe(nal) == nal[1] % 32 = 5

\* extract_nals, in a buffer whose first i - 1 bytes are split off already: the
\* units that a next start code ends, and what stays.
ExtractNals(b) ==
  LET from[i \in 1 .. Len(b) + 1] ==
        LET start == FindStartCode(b, i)
            nal_start == start + StartCodeLen(b, start)
            nal_end == FindStartCode(b, nal_start)
        IN IF start = 0 THEN [nals |-> <<>>, buffer |-> SubSeq(b, i, Len(b))]
           ELSE IF nal_end = 0
             THEN [nals |-> <<>>, buffer |-> SubSeq(b, start, Len(b))]
           ELSE [from[nal_end] EXCEPT
                   !.nals = Parse(SubSeq(b, nal_start, nal_end - 1)) \o @]
  IN from[1]

\* Mutant: a header is looked for behind the short start code only.
ContainsShort(b) ==
  \E i \in 1 .. Len(b) - 4 : IsStartCode(b, i) /\ b[i + 3] % 32 = 5

\* contains_keyframe: the last four bytes are not looked at as a start code.
ContainsKeyframe(b) ==
  \E i \in 1 .. Len(b) - 4 :
    /\ IsStartCode(b, i)
    /\ b[i + (IF b[i + 2] = 1 THEN 3 ELSE 4)] % 32 = 5

GivenUp(b) == <<>>

Feed(data) ==
  LET b == unparsed \o data
  IN IF Len(b) > MaxBuffer
     THEN /\ unparsed' = GivenUp(b)
          /\ reset' = TRUE
          /\ UNCHANGED nals
     ELSE /\ unparsed' = ExtractNals(b).buffer
          /\ nals' = nals \o ExtractNals(b).nals
          /\ UNCHANGED reset

\* A read returns some of the bytes there are; the camera marks the chunk, and a
\* parser is fed with it.
ReadChunk(n) ==
  /\ ~flushed /\ read + n <= Len(Stream(units))
  /\ LET data == SubSeq(Stream(units), read + 1, read + n)
     IN /\ read' = read + n
        /\ chunk' = [from |-> read + 1, marked |-> ContainsKeyframe(data)]
        /\ Feed(data)
  /\ UNCHANGED <<units, flushed>>

\* The stream ends, wherever the encoder is: flush returns what is left, without
\* its start code.
Flush ==
  /\ ~flushed
  /\ LET at == FindStartCode(unparsed, 1)
         start == IF at = 0 THEN 1 ELSE at + StartCodeLen(unparsed, at)
     IN nals' = nals \o Parse(SubSeq(unparsed, start, Len(unparsed)))
  /\ unparsed' = <<>>
  /\ flushed' = TRUE
  /\ UNCHANGED <<units, read, chunk, reset>>

ParserNext == (\E n \in 1 .. MaxChunk : ReadChunk(n)) \/ Flush

ParserSpec == ParserInit /\ [][ParserNext]_parserVars

-------------------------------------------------------------------------------
(* Properties.                                                             *)

ParserTypeOK ==
  /\ read \in 0 .. Len(Stream(units))
  /\ chunk.from \in 1 .. read + 1 /\ chunk.marked \in BOOLEAN
  /\ Len(unparsed) <= MaxBuffer
  /\ Len(nals) <= MaxUnits + 1
  /\ reset \in BOOLEAN /\ flushed \in BOOLEAN

\* The bytes before unit i, and where its header is.
Before(i) == Len(Stream(SubSeq(units, 1, i - 1)))

HeaderAt(i) == Before(i) + units[i].code + 1

\* The units whose start code has been read.
Begun == {i \in DOMAIN units : HeaderAt(i) - 1 <= read}

\* The last of them as far as it is read: with zeros that begin a start code.
Unfinished ==
  Parse(SubSeq(Stream(units), HeaderAt(Cardinality(Begun)), read))

\* However the stream falls into chunks, the parser returns its units and no
\* others: each once the start code of the next is there, the last, as far as it
\* is read, when the stream ends (h264.rs:136-188, 223-244).
SplitIsExact ==
  (~reset /\ Begun # {}) =>
    nals = [i \in 1 .. Cardinality(Begun) - 1 |-> units[i].nal]
             \o (IF flushed THEN Unfinished ELSE <<>>)

\* A buffer given up in the middle of a unit costs whole units: feed never
\* returns one that has lost bytes, or two run into one (h264.rs:138-145).
OnlyWholeNals ==
  ~flushed =>
    \E m \in 0 .. Len(units) : \E kept \in [1 .. m -> DOMAIN units] :
      /\ \A i, j \in 1 .. m : i < j => kept[i] < kept[j]
      /\ nals = [i \in 1 .. m |-> units[kept[i]].nal]

\* The parser returns the stream's units whole.
NalsExact == ParserTypeOK /\ SplitIsExact /\ OnlyWholeNals

\* A chunk is marked a keyframe exactly when it has the start code of an IDR
\* unit, its short form at least, and the header, and there is a byte after the
\* header unless the start code is long and all there: an IDR unit whose first
\* bytes fall into two chunks is not marked (h264.rs:252-274, camera.rs:520).
KeyframesMarked ==
  chunk.marked <=>
    \E i \in DOMAIN units : LET header == HeaderAt(i) IN
      /\ IsKeyframe(units[i].nal)
      /\ chunk.from <= header - 3 /\ header <= read
      /\ header = read => units[i].code = 4 /\ chunk.from <= header - 4
===============================================================================
