------------------------------ MODULE McRouter ------------------------------
(***************************************************************************)
(* The Minecraft hostname router (internal/tunnel/mcrouter.go): one        *)
(* connection to the shared port, whose handshake is parsed byte by byte   *)
(* from whatever pieces the network delivers, then matched with a tunnel   *)
(* and handed on with everything already read put back in front.           *)
(*                                                                         *)
(* Bytes are numbers.  What a player's game sends is rendered from the     *)
(* host name it means (module Handshake); the parser does not see that     *)
(* record, so its result can be compared with it.                          *)
(***************************************************************************)
EXTENDS Handshake

CONSTANTS
    TunnelRows,     \* the tunnels: public_hostname and protocol
    MaxToggles      \* bound: tunnels enabled or disabled meanwhile

VARIABLES
    input,      \* the bytes this connection will send, and the host name they mean
    read,       \* how many of them were read from the connection: Len(raw)
    pos,        \* how many of those the parser has consumed
    field,      \* the field readHandshakeAddress is at
    value, position,    \* readVarInt's variables
    addr,       \* the address read so far
    outcome,    \* parsing, proxied, dropped, or cut by a failed read
    tunnel,     \* the tunnel the connection went to
    routes,     \* DB: the enabled tunnels
    out,        \* the bytes the tunnel's target has received
    toggles

parser     == <<pos, field, value, position, addr>>
result     == <<outcome, tunnel>>
routerVars == <<input, read, parser, result, routes, out, toggles>>

-----------------------------------------------------------------------------
\* Tunnels share no host name, if they have one: TunnelAdmin, HostnamesUnique.
ASSUME RouterAssumption ==
    /\ MaxToggles \in Nat
    /\ \A t, u \in TunnelRows : t.hostname = u.hostname /\ t.hostname # <<>> => t = u

RouterInit ==
    /\ input \in Inputs
    /\ read = 0 /\ pos = 0 /\ field = "length" /\ value = 0 /\ position = 0 /\ addr = <<>>
    /\ outcome = "parsing" /\ tunnel = {}
    /\ routes \in SUBSET TunnelRows
    /\ out = <<>> /\ toggles = 0

-----------------------------------------------------------------------------
(* peekMinecraftHostname.                                                   *)

\* bufio reads when its buffer is empty, and gets what has arrived by then;
\* the tee keeps a copy in raw.
Fill ==
    /\ outcome = "parsing" /\ pos = read
    /\ \E n \in 1..(Len(input.bytes) - read) : read' = read + n
    /\ UNCHANGED <<input, parser, result, routes, out, toggles>>

\* The player hung up, or mcHandshakeTimeout is over: the connection is closed.
ReadFails ==
    /\ outcome = "parsing" /\ pos = read
    /\ outcome' = "cut"
    /\ UNCHANGED <<input, read, parser, tunnel, routes, out, toggles>>

NextField(f) ==
    CASE f = "length"  -> "id"
      [] f = "id"      -> "version"
      [] f = "version" -> "addrLen"
      [] OTHER         -> "address"

Drop ==
    /\ outcome' = "dropped"
    /\ UNCHANGED <<field, value, position>>

\* mutant: a fifth byte is already too many
ReadVarIntFour ==
    LET b == input.bytes[pos + 1]
        n == value + Shifted(b, position)
    IN
    /\ outcome = "parsing" /\ pos < read /\ field # "address"
    /\ pos' = pos + 1
    /\ IF b >= 128
       THEN IF position + 7 >= 28 THEN Drop
            ELSE value' = n /\ position' = position + 7 /\ UNCHANGED <<field, outcome>>
       ELSE IF ~Plausible(field, n) THEN Drop
            ELSE /\ field' = NextField(field)
                 /\ value' = IF field = "addrLen" THEN n ELSE 0
                 /\ position' = 0
                 /\ UNCHANGED outcome
    /\ UNCHANGED <<input, read, addr, tunnel, routes, out, toggles>>

\* One turn of readVarInt's loop.  The address length stays in value.
ReadVarInt ==
    LET b == input.bytes[pos + 1]
        n == value + Shifted(b, position)
    IN
    /\ outcome = "parsing" /\ pos < read /\ field # "address"
    /\ pos' = pos + 1
    /\ IF b >= 128
       THEN IF position + 7 >= 32 THEN Drop
            ELSE value' = n /\ position' = position + 7 /\ UNCHANGED <<field, outcome>>
       ELSE IF ~Plausible(field, n) THEN Drop
            ELSE /\ field' = NextField(field)
                 /\ value' = IF field = "addrLen" THEN n ELSE 0
                 /\ position' = 0
                 /\ UNCHANGED outcome
    /\ UNCHANGED <<input, read, addr, tunnel, routes, out, toggles>>

\* io.ReadFull of the address.
ReadAddress ==
    /\ outcome = "parsing" /\ pos < read /\ field = "address" /\ Len(addr) < value
    /\ addr' = Append(addr, input.bytes[pos + 1])
    /\ pos' = pos + 1
    /\ UNCHANGED <<input, read, field, value, position, result, routes, out, toggles>>

Matching(name) == {t \in routes : t.hostname = name}

\* The name is normalised and looked up among the enabled tunnels; then
\* proxyConn is given the connection.
Route ==
    LET name == Hostname(addr) IN
    /\ outcome = "parsing" /\ field = "address" /\ Len(addr) = value
    /\ \/ /\ name = <<>> \/ Matching(name) = {}
          /\ outcome' = "dropped" /\ tunnel' = {}
       \/ \E t \in Matching(name) :
              /\ name # <<>>
              /\ outcome' = IF t.protocol = "tcp" THEN "proxied" ELSE "dropped"
              /\ tunnel' = {t}
    /\ UNCHANGED <<input, read, parser, routes, out, toggles>>

\* mutant: only the bytes the parser consumed are put back
ReplayConsumed ==
    /\ outcome = "proxied" /\ out = <<>>
    /\ out' = SubSeq(input.bytes, 1, pos)
    /\ UNCHANGED <<input, read, parser, result, routes, toggles>>

\* The MultiReader's first part: everything read from the connection so far.
Replay ==
    /\ outcome = "proxied" /\ out = <<>>
    /\ out' = SubSeq(input.bytes, 1, read)
    /\ UNCHANGED <<input, read, parser, result, routes, toggles>>

\* Its second part, the connection itself.
Relay ==
    /\ outcome = "proxied" /\ out # <<>> /\ read < Len(input.bytes)
    /\ \E n \in 1..(Len(input.bytes) - read) :
        /\ read' = read + n
        /\ out' = out \o SubSeq(input.bytes, read + 1, read + n)
    /\ UNCHANGED <<input, parser, result, routes, toggles>>

\* Meanwhile the administrator switches a tunnel on or off.
ToggleTunnel ==
    /\ outcome = "parsing" /\ toggles < MaxToggles
    /\ \E t \in TunnelRows : routes' = IF t \in routes THEN routes \ {t} ELSE routes \cup {t}
    /\ toggles' = toggles + 1
    /\ UNCHANGED <<input, read, parser, result, out>>

Handle == Fill \/ ReadFails \/ ReadVarInt \/ ReadAddress \/ Route \/ Replay \/ Relay
RouterNext == Handle \/ ToggleTunnel

RouterSpec == RouterInit /\ [][RouterNext]_routerVars

-----------------------------------------------------------------------------
(* Properties.                                                              *)

\* However the bytes are split, a connection is handed to a tunnel only if a
\* well-formed handshake meant that tunnel's host name and it is a TCP tunnel; and
\* a well-formed handshake that is not cut off is dropped only when no enabled
\* TCP tunnel has its host name: capitals, a final dot, Forge's suffix and any
\* protocol version make no difference (mcrouter.go:74-86, 118-129, 138-195).
RoutedAsMeant ==
    /\ outcome = "proxied" =>
        /\ input.host # <<>>
        /\ \A t \in tunnel : t.hostname = input.host /\ t.protocol = "tcp"
    /\ outcome = "dropped" /\ input.host # <<>> =>
        ~ \E t \in routes : t.hostname = input.host /\ t.protocol = "tcp"

\* The target sees what the player sent, from its first byte on, nothing lost,
\* doubled or moved: read-ahead included (mcrouter.go:89-129).
StreamPreserved ==
    /\ IsPrefix(out, input.bytes)
    /\ out # <<>> => Len(out) = read
=============================================================================
