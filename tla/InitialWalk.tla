--------------------------- MODULE InitialWalk ---------------------------
(***************************************************************************)
(* decrypt_client_initial and crypto_stream (quic.rs): a QUIC Initial's    *)
(* header, its decrypted frames, and the CRYPTO stream put together from   *)
(* them, which handshake_sni (module HelloWalk) then walks.                *)
(*                                                                         *)
(* The client cuts one stream into CRYPTO frames, sends them in any order, *)
(* overlapping or twice, and may leave some to another packet.  Byte k of  *)
(* the stream is the number k here, so buf tells a byte from its place.    *)
(* Decryption is external: the frames are the ciphertext less its tag.     *)
(***************************************************************************)
EXTENDS Cursor

\* A byte of buf that no frame has brought: zero.
Hole == -1

VarintLen == {1, 2, 4, 8}

-----------------------------------------------------------------------------
(* decrypt_client_initial *)

\* The source id is skipped unseen; it may lead past the end, where no varint is.
InitialIds(dcid_len, scid_len) ==
    /\ phase = "initial" /\ len >= 7
    /\ 6 + dcid_len < len
    /\ Slice(6, 6 + dcid_len)
    /\ Go("token", 7 + dcid_len + scid_len)
    /\ UNCHANGED locals

InitialToken(n, token_len) ==
    /\ phase = "token" /\ pos + n <= len
    /\ Slice(pos, pos + n)
    /\ Go("length", pos + n + token_len)
    /\ UNCHANGED locals

\* The packet number comes next; a sample of 16 bytes, 4 behind it, unmasks it.
InitialLength(n, length) ==
    /\ phase = "length" /\ pos + n + 20 <= len
    /\ Slice(pos + n + 4, pos + n + 20)
    /\ phase' = "protected"
    /\ pos' = pos + n /\ end' = pos + n + length
    /\ UNCHANGED <<len, todo, locals>>

\* The length covers packet number, frames and tag, and ends inside the datagram.
Covered(pn_len) == end - pos >= pn_len + 16 /\ end <= len

DecryptFrames(pn_len) ==
    /\ phase = "protected"
    /\ pn_len \in 1 .. 4 /\ Covered(pn_len)
    /\ Slice(pos + pn_len, end)
    /\ phase' = "frames"
    /\ len' = end - (pos + pn_len) - 16
    /\ pos' = 0 /\ end' = end - (pos + pn_len) - 16
    /\ buf' = [k \in 1 .. end - (pos + pn_len) - 16 |-> Hole]
    /\ max' = 0 /\ brought' = {}
    /\ UNCHANGED <<todo, rec_len, names>>

\* No long header, another version, a part cut short, or it does not decrypt.
NoInitial ==
    /\ \/ phase \in {"initial", "protected"}
       \/ phase = "token" /\ pos + 8 > len
       \/ phase = "length" /\ pos + 28 > len
    /\ Leave

-----------------------------------------------------------------------------
(* crypto_stream: buf[k + 1] is the source's buf[k] *)

PaddingFrame ==
    /\ phase = "frames" /\ pos < len
    /\ Slice(pos, pos + 1)
    /\ Go("frames", pos + 1)
    /\ UNCHANGED locals

\* The variant appends in the order of arrival.
Larger(a, b) == IF a > b THEN a ELSE b
Appended(off, n) ==
    [k \in 1 .. Larger(max + n, Len(buf)) |->
        IF k \in max + 1 .. max + n THEN off + k - max - 1
        ELSE IF k <= Len(buf) THEN buf[k] ELSE Hole]
Copied(off, n) ==
    [k \in 1 .. Larger(off + n, Len(buf)) |->
        IF k \in off + 1 .. off + n THEN k - 1
        ELSE IF k <= Len(buf) THEN buf[k] ELSE Hole]

\* The offset is the sender's, so off + n may be as large as a varint: buf grows to
\* it, zeros included, if there is memory ...
CryptoFrame(m, off, n) ==
    /\ phase = "frames" /\ pos + 1 + m + n <= len
    /\ Slice(pos + 1 + m, pos + 1 + m + n)
    /\ Go("frames", pos + 1 + m + n)
    /\ buf' = Copied(off, n)
    /\ max' = Larger(max, off + n)
    /\ brought' = brought \cup (off .. off + n - 1)
    /\ UNCHANGED <<rec_len, names>>

\* ... and if there is not, nothing catches it: Vec::resize aborts the process, or
\* the kernel kills it while it writes the zeros.
CryptoNoMemory(m, off, n) ==
    /\ phase = "frames" /\ pos + 1 + m + n <= len
    /\ off + n > Len(buf) /\ off + n > Granted
    /\ Slice(pos + 1 + m, pos + 1 + m + n)
    /\ phase' = "aborted"
    /\ UNCHANGED <<len, pos, end, todo, locals>>

\* The frames end, or one of another type comes: the first max bytes of buf are
\* the stream, and handshake_sni's.
StreamEnds ==
    /\ phase = "frames" /\ max > 0
    /\ phase' = "handshake"
    /\ len' = max /\ end' = max /\ pos' = 0
    /\ buf' = SubSeq(buf, 1, max)
    /\ UNCHANGED <<todo, read, rec_len, names, max, brought>>

\* Nothing was carried, or a frame is cut short.
NoStream == phase = "frames" /\ (pos < len \/ max = 0) /\ Leave

InitialNext ==
    \/ \E dcid_len, scid_len \in Byte : InitialIds(dcid_len, scid_len)
    \/ \E n \in VarintLen, v \in Varint : InitialToken(n, v) \/ InitialLength(n, v)
    \/ \E pn_len \in Byte : DecryptFrames(pn_len)
    \/ NoInitial
    \/ PaddingFrame
    \/ \E k, m \in VarintLen, off, n \in Varint :
            CryptoFrame(k + m, off, n) \/ CryptoNoMemory(k + m, off, n)
    \/ StreamEnds \/ NoStream
=============================================================================
