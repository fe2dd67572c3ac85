--------------------------- MODULE HelloWalk ---------------------------
(***************************************************************************)
(* client_hello_sni and handshake_sni (sni.rs): from a TLS record to the   *)
(* server name, through seven nested slices.  Each level is a fixed part   *)
(* with a length at its end, and as many bytes.                            *)
(***************************************************************************)
EXTENDS Cursor

CONSTANT RandomLen  \* version and random: 34

ASSUME RandomAssumption == RandomLen \in Nat

HelloPhases ==
    {"handshake", "random", "ciphers", "compression", "extensions", "extension",
     "server_name", "host"}

\* How many bytes of the slice a level wants, and where the bytes it counts start:
\* version and random come with the session's length, and the list of names is
\* refused below five.
AtLeast == [handshake |-> 4, random |-> RandomLen + 1, ciphers |-> 2, compression |-> 1,
            extensions |-> 2, extension |-> 4, server_name |-> 5, host |-> 3]
Fixed == [AtLeast EXCEPT !["server_name"] = 2]

\* The variant trusts the length.
HeadOnly(n) == end - pos >= AtLeast[phase]
Fits(n) == end - pos >= AtLeast[phase] /\ pos + Fixed[phase] + n <= end

HelloRecord(n) ==
    /\ phase = "hello" /\ len >= 5
    /\ 5 + n <= len
    /\ Slice(5, 5 + n)
    /\ phase' = "handshake"
    /\ pos' = 5 /\ end' = 5 + n
    /\ UNCHANGED <<len, todo, locals>>

\* No TLS record: the payload is tried as a handshake.
NoRecord ==
    /\ phase = "hello"
    /\ Go("handshake", pos)
    /\ UNCHANGED <<read, locals>>

BadRecord(n) == phase = "hello" /\ len >= 5 /\ 5 + n > len /\ Leave

\* From one slice into the part of it that the length at its head says.
Enter(from, to, n) ==
    /\ phase = from /\ Fits(n)
    /\ Slice(pos + Fixed[from], pos + Fixed[from] + n)
    /\ phase' = to
    /\ pos' = pos + Fixed[from] /\ end' = pos + Fixed[from] + n
    /\ UNCHANGED <<len, todo, locals>>

\* Past that part, to what is behind it in the same slice.
Skip(from, to, n) ==
    /\ phase = from /\ Fits(n)
    /\ Slice(pos + Fixed[from], pos + Fixed[from] + n)
    /\ Go(to, pos + Fixed[from] + n)
    /\ UNCHANGED locals

Hello(n) ==
    \/ Enter("handshake", "random", n)
    \/ Skip("random", "ciphers", n)             \* the session id
    \/ Skip("ciphers", "compression", n)
    \/ Skip("compression", "extensions", n)
    \/ Enter("extensions", "extension", n)
    \/ Skip("extension", "extension", n)
    \/ Enter("extension", "server_name", n)     \* type 0: no other is looked at
    \/ Enter("server_name", "host", n)
    \/ Skip("host", "host", n)                  \* another type, empty, too long

\* A host name of 1 to 253 bytes: process_tzsp has its name, and tries no more.
HostName(n) ==
    /\ phase = "host" /\ Fits(n)
    /\ n \in 1 .. 253
    /\ Slice(pos + 3, pos + 3 + n)
    /\ phase' = "done" /\ pos' = pos + 3 + n /\ todo' = <<>>
    /\ UNCHANGED <<len, end, locals>>

\* A part is cut short; or what is there is no ClientHello, or no UTF-8.
NoHello(n) ==
    /\ phase \in HelloPhases
    /\ Fits(n) => phase \in {"handshake", "host"}
    /\ Leave

HelloNext ==
    \/ \E n \in Word :
        HelloRecord(n) \/ BadRecord(n) \/ Hello(n) \/ HostName(n) \/ NoHello(n)
    \/ NoRecord
=============================================================================
