----------------------------- MODULE AddressCodec ------------------------------
(***************************************************************************)
(* The text form of an account address, src/common/address.go.            *)
(*                                                                         *)
(* An address is 14 bytes: height (0-3), index (4-5) and a 64-bit magic    *)
(* (6-13) whose first two bytes are the base.  String writes the checksum  *)
(* and the bytes up to the last non-zero one in base58; with a non-zero    *)
(* base it writes the last six bytes, XORed with the base, as a symbol in  *)
(* front, followed by "_".  ParseAddress reverses this.                    *)
(*                                                                         *)
(* Bytes are numbers; a string is a sequence of characters and base58    *)
(* tokens.  base58 is a library: Encode gives one token holding the bytes,  *)
(* from which Decode gives them back (its alphabet has no "_").  The       *)
(* address is built one byte at a time from a small set per position, and  *)
(* the codec is checked on every complete address.                         *)
(***************************************************************************)
EXTENDS Naturals, Sequences, SequencesExt, Bitwise

CONSTANTS
  ByteVals      \* position -> the byte values tried at that position

AddressSize == 14
Underscore  == 95   \* '_'
Quote       == 34   \* '"'

ASSUME ByteVals \in [1..AddressSize -> SUBSET (0..255)]

VARIABLE addr   \* the bytes chosen so far (addr[1] is byte 0)

\* The result of a parse: the address or an error.
Ok(a)  == [addr |-> a]
Err(e) == [err |-> e]
IsOk(r) == "addr" \in DOMAIN r

-----------------------------------------------------------------------------
(* base58 and byte helpers.                                                *)

\* A character of a string: a byte written as text.
Char(n) == [c |-> n]
Chars(bs) == [i \in 1..Len(bs) |-> Char(bs[i])]
Encode(bs) == [b58 |-> bs]
IsToken(x) == x \in [b58 : Seq(0..255)]

\* Checksum, lines 87-93.
RECURSIVE XorAll(_)
XorAll(s) == IF s = <<>> THEN 0 ELSE Head(s) ^^ XorAll(Tail(s))
Checksum(a) == XorAll(a)

\* Fault variant: the trailing zero bytes are kept.
TrimNothing(s) == s

\* bytes.TrimRight(addr[:], "\x00").
RECURSIVE TrimZeros(_)
TrimZeros(s) == IF s # <<>> /\ Last(s) = 0 THEN TrimZeros(Front(s)) ELSE s

Zeros(n) == [i \in 1..n |-> 0]

\* The six tail bytes XORed pairwise with the two base bytes.
XorBase(t, base) == [i \in 1..Len(t) |-> t[i] ^^ base[2 - (i % 2)]]

\* The prefix of s before its first zero.
PrefixToZero(s) ==
  IF \E i \in 1..Len(s) : s[i] = 0
    THEN SubSeq(s, 1, (CHOOSE i \in 1..Len(s) : s[i] = 0 /\ \A j \in 1..i - 1 : s[j] # 0) - 1)
    ELSE s

-----------------------------------------------------------------------------
(* The code.                                                               *)

\* String, lines 48-77.
String(a) ==
  LET result == TrimZeros(a)
      body   == IF Len(result) < 7 THEN result \o Zeros(6 - Len(result))
                ELSE result \o Zeros(14 - Len(result))
      bs     == <<Checksum(a)>> \o body
      base   == SubSeq(a, 7, 8)
  IN  IF base = <<0, 0>> THEN <<Encode(bs)>>
      ELSE Chars(PrefixToZero(XorBase(SubSeq(a, 9, 14), base)))
             \o <<Char(Underscore), Encode(SubSeq(bs, 1, 9))>>

\* strings.SplitN(str, "_", 2) for a string with at least one "_": the
\* symbol before the first one and the rest after it.
FirstUnderscore(s) ==
  CHOOSE i \in 1..Len(s) :
    s[i] = Char(Underscore) /\ \A j \in 1..i - 1 : s[j] # Char(Underscore)

\* ParseAddress, lines 111-156.
ParseAddress(str) ==
  LET split  == \E i \in 1..Len(str) : str[i] = Char(Underscore)
      symbol == IF split THEN SubSeq(str, 1, FirstUnderscore(str) - 1) ELSE <<>>
      rest   == IF split THEN SubSeq(str, FirstUnderscore(str) + 1, Len(str)) ELSE str
      ok     == Len(rest) = 1 /\ IsToken(rest[1])
      bs     == rest[1].b58
      base   == SubSeq(bs, 8, 9)
      plain  == SubSeq(bs, 2, Len(bs)) \o Zeros(AddressSize - (Len(bs) - 1))
      padded == IF base # <<0, 0>>
                  THEN SubSeq([i \in 1..Len(symbol) |-> symbol[i].c] \o Zeros(6), 1, 6)
                  ELSE Zeros(6)
      a      == IF symbol # <<>>
                  THEN SubSeq(plain, 1, 8) \o XorBase(padded, base)
                  ELSE plain
  IN  IF ~ok THEN Err("base58")
      ELSE IF symbol # <<>> /\ Len(bs) # 9 THEN Err("ErrInvalidAddressFormat")
      ELSE IF symbol = <<>> /\ Len(bs) # 7 THEN Err("ErrInvalidAddressFormat")
      ELSE IF bs[1] # Checksum(a) THEN Err("ErrInvalidAddressCheckSum")
      ELSE Ok(a)

\* MarshalJSON (lines 27-29) and UnmarshalJSON (lines 32-45).
MarshalJSON(a) == <<Char(Quote)>> \o String(a) \o <<Char(Quote)>>
UnmarshalJSON(bs) ==
  IF Len(bs) < 3 \/ bs[1] # Char(Quote) \/ Last(bs) # Char(Quote)
    THEN Err("ErrInvalidAddressFormat")
  ELSE ParseAddress(SubSeq(bs, 2, Len(bs) - 1))

-----------------------------------------------------------------------------
Init == addr = <<>>

\* The next byte of the address.
SetByte(v) ==
  /\ Len(addr) < AddressSize
  /\ v \in ByteVals[Len(addr) + 1]
  /\ addr' = Append(addr, v)

Next == \E v \in 0..255 : SetByte(v)

Spec == Init /\ [][Next]_addr

Complete == Len(addr) = AddressSize

-----------------------------------------------------------------------------
(* Properties.                                                             *)

\* The text form of an address never reads back as another address: the
\* checksum catches every loss in String, so ParseAddress either returns
\* the address or fails.
ParseNeverMisreads ==
  LET r == UnmarshalJSON(MarshalJSON(addr))
  IN  Complete /\ IsOk(r) => r.addr = addr

\* The addresses String is written for: no magic at all, or a non-zero base
\* whose XOR with the last six bytes is a non-empty symbol of bytes other
\* than 0 and "_", followed by zero bytes.
SymbolOf(a) == XorBase(SubSeq(a, 9, 14), SubSeq(a, 7, 8))
CodecDomain(a) ==
  \/ SubSeq(a, 7, 14) = Zeros(8)
  \/ /\ SubSeq(a, 7, 8) # <<0, 0>>
     /\ LET t == SymbolOf(a)
            n == Len(PrefixToZero(t))
        IN  /\ n > 0
            /\ \A i \in 1..n : t[i] # Underscore
            /\ \A i \in n + 1..6 : t[i] = 0

\* On those addresses MarshalJSON and UnmarshalJSON are inverse: the
\* trimming of trailing zeros, the 7- and 15-byte buffers, the symbol split
\* at "_" and the XOR with the base all undo each other.
RoundTripOnDomain ==
  Complete /\ CodecDomain(addr) => UnmarshalJSON(MarshalJSON(addr)) = Ok(addr)

\* Every address survives MarshalJSON followed by UnmarshalJSON, as the
\* JSON of every transaction that carries an address relies on.
JSONRoundTrip ==
  Complete => UnmarshalJSON(MarshalJSON(addr)) = Ok(addr)

=============================================================================
