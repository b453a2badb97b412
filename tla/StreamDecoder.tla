--------------------------- MODULE StreamDecoder ---------------------------
(***************************************************************************)
(* How ciphertexts are found in a request body                             *)
(* (data-plane/src/crypto/stream.rs and parser.rs, driven by               *)
(* extract_ciphertexts_from_payload in server/layers/decrypt.rs).  The     *)
(* body is read piecewise into a buffer; the decoder cuts frames off the   *)
(* front of the buffer and keeps count of the bytes it has cut off, and    *)
(* the range of each ciphertext is later overwritten with the decrypted    *)
(* value.                                                                  *)
(*                                                                         *)
(* A body is a sequence of tokens: a double quote, "ev", ":" and the rest  *)
(* of a ciphertext up to and including its "$".  A token out of place      *)
(* stands for any other text.                                              *)
(***************************************************************************)
EXTENDS Integers, Sequences, SequencesExt, FiniteSetsExt

CONSTANTS
    MaxLen,     \* bound: tokens in a body
    Capacity    \* what the first read holds: 8 KiB

ASSUME SizesAreNat == MaxLen \in Nat /\ Capacity \in Nat \ {0}

VARIABLES
    body,       \* the request's body
    read,       \* how much of it has been read
    src,        \* the buffer of FramedRead
    eof,        \* the reader has met the end
    offset,     \* IncomingStreamDecoder::offset
    mode,       \* "read", "decode" or "done"
    found,      \* the ranges <<start, end>> of the Ciphertext frames
    cuts        \* where reads ended (not program state)

decoderVars == <<body, read, src, eof, offset, mode, found, cuts>>

Token == {"quote", "ev", ":", "rest"}
Injected == "nul"

DecoderTypeOK ==
    /\ body \in Seq(Token) /\ Len(body) <= MaxLen
    /\ read \in 0..Len(body)
    /\ src \in Seq(Token \cup {Injected})
    /\ eof \in BOOLEAN
    /\ offset \in 0..(MaxLen + 1)
    /\ mode \in {"read", "decode", "done"}
    /\ found \in Seq((0..MaxLen) \X (0..MaxLen))
    /\ cuts \subseteq 0..MaxLen

DecoderInit ==
    /\ body \in UNION {[1..n -> Token] : n \in 0..MaxLen}
    /\ read = 0
    /\ src = <<>>
    /\ eof = FALSE
    /\ offset = 0
    /\ mode = "read"
    /\ found = <<>>
    /\ cuts = {}

----------------------------------------------------------------------------
(* The parser. *)

\* Where take_until("ev:") stops in s: 0 if it never does.
Candidate(s) ==
    LET hits == {k \in 1..(Len(s) - 1) : s[k] = "ev" /\ s[k + 1] = ":"}
    IN  IF hits = {} THEN 0 ELSE Min(hits)

\* The tokens of s after the first n.
From(s, n) == SubSeq(s, n + 1, Len(s))

\* parse_ciphertexts of a candidate: what comes after "ev:", and then
\* whether a quote follows, must be there before the answer is known.
ParseCiphertexts(c) ==
    IF Len(c) = 2 THEN "incomplete"
    ELSE IF c[3] # "rest" THEN "none"
    ELSE IF Len(c) = 3 THEN "incomplete"
    ELSE IF c[4] = "quote" THEN "trailing"
    ELSE "bare"

\* Ciphertext::len: the quotes count only if both are there.
CiphertextLen(leading, parsed) == IF leading /\ parsed = "trailing" THEN 5 ELSE 3

----------------------------------------------------------------------------
(* decode_ciphertexts, on a buffer that is not empty. *)

Where == Candidate(src)
QuotePrecedesCipher == Where > 1 /\ src[Where - 1] = "quote"
PlaintextLen == IF QuotePrecedesCipher THEN Where - 2 ELSE Where - 1
ParsedCandidate == ParseCiphertexts(From(src, Where - 1))

\* Variant: the count is not kept for plaintext.
CreateSliceUncounted(n) ==
    /\ src' = From(src, n)
    /\ UNCHANGED <<offset, found>>

\* create_slice: a frame of plaintext.
CreateSlice(n) ==
    /\ src' = From(src, n)
    /\ offset' = offset + n
    /\ UNCHANGED found

EmitCiphertext ==
    LET n == CiphertextLen(QuotePrecedesCipher, ParsedCandidate)
    IN  /\ src' = From(src, n)
        /\ offset' = offset + n
        /\ found' = Append(found, <<offset, offset + n>>)

\* Variant: the candidate that failed is skipped with all that follows it.
NotACiphertextSkipAll == CreateSlice(Len(src))

\* The candidate is no ciphertext: plaintext up to the next candidate, which
\* is counted from the candidate and not from the quote before it.
NotACiphertext ==
    LET next == Candidate(From(src, Where + 1))
    IN  CreateSlice(IF next = 0 THEN Len(src) ELSE next - 1 + 2)

Incomplete == Where # 0 /\ PlaintextLen = 0 /\ ParsedCandidate = "incomplete"

NextFrame ==
    \/ /\ Where = 0
       /\ CreateSlice(Len(src))
    \/ /\ Where # 0 /\ PlaintextLen > 0
       /\ CreateSlice(PlaintextLen)
    \/ /\ Where # 0 /\ PlaintextLen = 0 /\ ParsedCandidate \in {"bare", "trailing"}
       /\ EmitCiphertext
    \/ /\ Where # 0 /\ PlaintextLen = 0 /\ ParsedCandidate = "none"
       /\ NotACiphertext

----------------------------------------------------------------------------
(* FramedRead. *)

\* The first read fills the buffer, a later one what is left of it.
Read ==
    /\ mode = "read" /\ read < Len(body)
    /\ \E n \in 1..(Len(body) - read) :
          /\ read = 0 => n = Min({Capacity, Len(body)})
          /\ read' = read + n
          /\ src' = src \o SubSeq(body, read + 1, read + n)
    /\ cuts' = cuts \cup {read'}
    /\ mode' = "decode"
    /\ UNCHANGED <<body, eof, offset, found>>

ReadEof ==
    /\ mode = "read" /\ read = Len(body)
    /\ eof' = TRUE
    /\ mode' = "decode"
    /\ UNCHANGED <<body, read, src, offset, found, cuts>>

\* decode and decode_eof return a frame.
DecodeFrame ==
    /\ mode = "decode" /\ src # <<>> /\ ~Incomplete
    /\ NextFrame
    /\ UNCHANGED <<body, read, eof, mode, cuts>>

\* decode returns None: more is read.
DecodeNone ==
    /\ mode = "decode" /\ ~eof
    /\ src = <<>> \/ Incomplete
    /\ mode' = "read"
    /\ UNCHANGED <<body, read, src, eof, offset, found, cuts>>

\* decode_eof on a candidate that the body ends in: when one byte is wanted
\* a zero byte is injected, which shows that no quote follows; when more are
\* wanted, as after "ev:", all that is left is plaintext.
DecodeEofIncomplete ==
    /\ mode = "decode" /\ eof /\ src # <<>> /\ Incomplete
    /\ \/ /\ src' = Append(src, Injected)
          /\ UNCHANGED <<offset, found>>
       \/ /\ Len(src) = Where + 1
          /\ CreateSlice(Len(src))
    /\ UNCHANGED <<body, read, eof, mode, cuts>>

DecodeEofNone ==
    /\ mode = "decode" /\ eof /\ src = <<>>
    /\ mode' = "done"
    /\ UNCHANGED <<body, read, src, eof, offset, found, cuts>>

Done == mode = "done" /\ UNCHANGED decoderVars

DecoderNext ==
    \/ Read \/ ReadEof \/ DecodeFrame \/ DecodeNone
    \/ DecodeEofIncomplete \/ DecodeEofNone \/ Done

DecoderSpec == DecoderInit /\ [][DecoderNext]_decoderVars

----------------------------------------------------------------------------
\* The ciphertexts of the body: positions of their "ev".
Ciphertexts ==
    {k \in 1..(Len(body) - 2) : SubSeq(body, k, k + 2) = <<"ev", ":", "rest">>}

(***************************************************************************)
(* Whatever way the body is cut into reads, the buffer is what follows the *)
(* first offset bytes read: no frame loses, repeats or miscounts a byte,   *)
(* though a range may be wider or narrower than its ciphertext.  Only the  *)
(* byte injected at the end is extra. Every variable keeps its type.       *)
(***************************************************************************)
BufferIsInStep ==
    /\ DecoderTypeOK
    /\ LET rest == SubSeq(body, offset + 1, read)
       IN  src = rest \/ (eof /\ src = Append(rest, Injected))

\* Those after a quote that no quote closes.  The decoder's range of one is
\* a byte early: it takes the quote in and leaves the last byte out.
HalfQuoted ==
    {k \in Ciphertexts : /\ k > 1 /\ body[k - 1] = "quote"
                         /\ k + 3 <= Len(body) => body[k + 3] # "quote"}

(***************************************************************************)
(* What is overwritten is a ciphertext, bare or with both its quotes,      *)
(* however the reads were cut.  Nothing is said of a range that begins     *)
(* with the quote before a half-quoted one.                                *)
(***************************************************************************)
RangesAreCiphertexts ==
    \A r \in ToSet(found) :
        r[1] + 2 \notin HalfQuoted =>
            SubSeq(body, r[1] + 1, r[2]) \in
                {<<"ev", ":", "rest">>, <<"quote", "ev", ":", "rest", "quote">>}

(***************************************************************************)
(* A ciphertext is overlooked only if a read ended inside its "ev:", which *)
(* takes a body larger than the buffer; one that the body ends with is     *)
(* found too.                                                              *)
(***************************************************************************)
MissedOnlyAtABoundary ==
    mode = "done" =>
        \A k \in Ciphertexts :
            \/ k \in cuts
            \/ \E r \in ToSet(found) : r[1] < k /\ k <= r[2]
=============================================================================
