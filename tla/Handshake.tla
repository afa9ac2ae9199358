----------------------------- MODULE Handshake -----------------------------
(***************************************************************************)
(* The bytes of a Minecraft handshake: what a player's game sends, which   *)
(* is rendered from the host name it means, the numbers and the address    *)
(* readHandshakeAddress accepts, and the host name peekMinecraftHostname   *)
(* takes from an address (internal/tunnel/mcrouter.go:113-195).            *)
(***************************************************************************)
EXTENDS Integers, Sequences, SequencesExt

CONSTANTS
    Handshakes,     \* what a game may send, see Bytes
    Garbage         \* byte sequences that are not a modern handshake

mcMaxPacketLen  == 2048
mcMaxAddressLen == 255

Byte  == 0..255
Int32 == (-(2^30) - 2^30)..(2^30 + (2^30 - 1))

Dot == 46
Nul == 0
Mapped(s, Op(_)) == [i \in DOMAIN s |-> Op(s[i])]

-----------------------------------------------------------------------------
(* What a game sends: external to the router.                               *)

Upper(b) == IF b \in 97..122 THEN b - 32 ELSE b

\* LEB128 in at most five groups of seven bits; a negative number has five, of
\* which the last carries its top four bits.
Groups(n) == IF n < 0 \/ n >= 2^28 THEN 5
             ELSE CHOOSE k \in 1..4 : n < 2^(7 * k) /\ (k > 1 => n >= 2^(7 * (k - 1)))
Group(n, i) == (n \div 2^(7 * (i - 1))) % (IF i = 5 THEN 16 ELSE 128)
VarInt(n) == [i \in 1..Groups(n) |-> Group(n, i) + (IF i < Groups(n) THEN 128 ELSE 0)]

\* Host names as the database holds them: printable, in small letters, without a
\* final dot.
HostBytes == (33..126) \ (65..90)
HostNames == {s \in Seq(HostBytes) : s = <<>> \/ Last(s) # Dot}

\* A name may be typed in capitals or with the final dot of a full domain name,
\* and Forge appends metadata of its own after a NUL.
Address(h) ==
    (IF h.upper THEN Mapped(h.host, Upper) ELSE h.host)
    \o (IF h.dot THEN <<Dot>> ELSE <<>>)
    \o (IF h.forge THEN <<Nul, 70, Dot>> ELSE <<>>)

\* Port, next state and the first byte of the next packet follow the address.
Remainder == <<99, 221, 2, 16>>

\* The length that is sent for the address: 0 stands for the right one.
AddrLen(h) == IF h.addrLen = 0 THEN Len(Address(h)) ELSE h.addrLen

Bytes(h) ==
    VarInt(h.length) \o VarInt(h.id) \o VarInt(h.version) \o VarInt(AddrLen(h))
    \o Address(h) \o Remainder

\* The length and id of a handshake, the right address length, and one that a
\* name can have.
Proper(h) ==
    /\ h.length \in 1..mcMaxPacketLen /\ h.id = 0
    /\ h.addrLen = 0 /\ Len(Address(h)) <= mcMaxAddressLen

\* A wrong address length promises more than is sent, or is negative.
IsHandshake(h) ==
    /\ h.host \in HostNames
    /\ h.upper \in BOOLEAN /\ h.dot \in BOOLEAN /\ h.forge \in BOOLEAN
    /\ {h.length, h.id, h.version, AddrLen(h)} \subseteq Int32
    /\ h.addrLen = 0 \/ h.addrLen \notin 0..Len(Address(h)) + Len(Remainder)

-----------------------------------------------------------------------------
(* What readHandshakeAddress accepts.                                       *)

\* int32(b & 0x7F) << position: at 28 only four bits are left, the sign among them.
Shifted(b, at) ==
    IF at < 28 THEN (b % 128) * 2^at
    ELSE ((b % 16) - (IF b % 16 >= 8 THEN 16 ELSE 0)) * 2^28

\* The checks readHandshakeAddress makes on a number it has read.
Plausible(f, n) ==
    CASE f = "length"  -> 0 < n /\ n <= mcMaxPacketLen
      [] f = "id"      -> n = 0
      [] f = "version" -> TRUE
      [] OTHER         -> 0 <= n /\ n <= mcMaxAddressLen

\* A VarInt stands between offsets p and q of b: at most five bytes, of which the
\* last is the first without the continuation bit.
VarIntAt(b, p, q) ==
    /\ q \in p + 1 .. p + 5 /\ q <= Len(b)
    /\ b[q] < 128
    /\ \A i \in p + 1 .. q - 1 : b[i] >= 128

\* What the bytes between p and q are worth, of which there are at most five.
Term(b, p, q, i) == IF p + i <= q THEN Shifted(b[p + i], 7 * (i - 1)) ELSE 0
Number(b, p, q) ==
    Term(b, p, q, 1) + Term(b, p, q, 2) + Term(b, p, q, 3) + Term(b, p, q, 4) + Term(b, p, q, 5)

NumberAt(b, f, p, q) == VarIntAt(b, p, q) /\ Plausible(f, Number(b, p, q))

\* The offsets at which the second, third and fourth number of b begin.
IdAt(b, p)      == NumberAt(b, "length", 0, p)
VersionAt(b, p) == \E q \in 0..Len(b) : IdAt(b, q) /\ NumberAt(b, "id", q, p)
AddrLenAt(b, p) == \E q \in 0..Len(b) : VersionAt(b, q) /\ NumberAt(b, "version", q, p)

\* b begins with a handshake whose address stands between offsets p and q.
AddressAt(b, p, q) ==
    \E o \in 0..Len(b) :
        /\ AddrLenAt(b, o) /\ NumberAt(b, "addrLen", o, p)
        /\ q = p + Number(b, o, p) /\ q <= Len(b)

-----------------------------------------------------------------------------
(* The host name in an address.                                             *)

Lower(b) == IF b \in 65..90 THEN b + 32 ELSE b
IsNul(b) == b = Nul
CutAtNul(s) == IF SelectInSeq(s, IsNul) = 0 THEN s ELSE SubSeq(s, 1, SelectInSeq(s, IsNul) - 1)
TrimDot(s) == IF s # <<>> /\ Last(s) = Dot THEN Front(s) ELSE s
Hostname(s) == Mapped(TrimDot(CutAtNul(s)), Lower)

Inputs ==
    {[bytes |-> Bytes(h), host |-> IF Proper(h) THEN h.host ELSE <<>>] : h \in Handshakes}
    \cup {[bytes |-> g, host |-> <<>>] : g \in Garbage}

\* Garbage names no host.
ASSUME HandshakeAssumption ==
    /\ \A h \in Handshakes : IsHandshake(h)
    /\ \A g \in Garbage :
        /\ g \in Seq(Byte)
        /\ \A p, q \in 0..Len(g) : AddressAt(g, p, q) => Hostname(SubSeq(g, p + 1, q)) = <<>>
=============================================================================
