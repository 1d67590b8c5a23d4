---------------------------- MODULE OffsetCodec ----------------------------
(***************************************************************************)
(* How the start offset of a download crosses the wire.  The client writes *)
(* m_lastReceivedByte as the eight bytes of a qint64, lowest first on the  *)
(* platforms the program is built for (client_tcp_tls_transport.cpp); the  *)
(* server reads the same eight bytes as a number in text, with             *)
(* QByteArray::toLongLong (server_tcp_tls_transport.cpp).                  *)
(***************************************************************************)
EXTENDS Integers, Sequences, FiniteSetsExt

OffsetBytes == 8    \* sizeof(qint64)

(* requestFile: the bytes of a non-negative qint64.                        *)
EncodeOffset(n) ==
  LET rest[i \in 0..OffsetBytes] == IF i = 0 THEN n ELSE rest[i - 1] \div 256
  IN [i \in 1..OffsetBytes |-> rest[i - 1] % 256]

(* QByteArray::toLongLong in base 10: leading white space, an optional     *)
(* sign and digits up to the end or a zero byte; anything else reads as 0. *)
IsSpace(b) == b \in 9..13 \cup {32}
IsDigit(b) == b \in 48..57
Plus == 43
Minus == 45

(* The first position from i on whose byte is not one of the kind.         *)
Behind(bytes, i, IsKind(_)) ==
  Min({j \in i..(Len(bytes) + 1) : j <= Len(bytes) => ~IsKind(bytes[j])})

ToLongLong(bytes) ==
  LET n == Len(bytes)
      first == Behind(bytes, 1, IsSpace)
      signed == first <= n /\ bytes[first] \in {Plus, Minus}
      digits == IF signed THEN first + 1 ELSE first
      next == Behind(bytes, digits, IsDigit)
      value[i \in 0..(next - digits)] ==
        IF i = 0 THEN 0 ELSE value[i - 1] * 10 + bytes[digits + i - 1] - 48
      number == value[next - digits]
      whole == next > n \/ bytes[next] = 0
  IN IF next = digits \/ ~whole THEN 0
     ELSE IF signed /\ bytes[first] = Minus THEN 0 - number
     ELSE number

(* onClientMessage: readOffset of the request.                             *)
ReadOffset(n) == ToLongLong(EncodeOffset(n))
=============================================================================
