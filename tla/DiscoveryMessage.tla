--------------------------- MODULE DiscoveryMessage ---------------------------
(***************************************************************************)
(* The text of an announcement.  A text is the nonempty sequence of the    *)
(* fields that its "|" characters separate, a field is a sequence of the   *)
(* remaining characters: a text without "|" has one field.                 *)
(***************************************************************************)
EXTENDS Integers, Sequences, SequencesExt, FiniteSetsExt

CONSTANTS
    Digits,                 \* the digits, from "0" on
    Fields,                 \* the fields that texts are made of
    MaxFields,              \* bound on the fields of a text
    kDiscoveryMarker,
    kVersion,               \* kProtocolVersion
    kMaxPeerNameLength,
    DefaultPeerName,        \* "packetbridge-node"
    MaxPort,                \* 65535
    MaxUnsigned,            \* the largest unsigned long
    NoPeer                  \* std::nullopt

ASSUME DiscoveryMessageAssumption ==
    /\ kMaxPeerNameLength \in Nat /\ MaxFields \in Nat
    /\ \A f \in Fields \cup {DefaultPeerName, Digits} : f \in Seq({f[k] : k \in DOMAIN f})
    /\ Len(DefaultPeerName) \in 1 .. kMaxPeerNameLength
    /\ Len(Digits) > 1
    /\ \A j, k \in DOMAIN Digits : Digits[j] = Digits[k] => j = k
    /\ NoPeer \notin [name : Fields, transfer_port : 1 .. MaxPort]
    /\ MaxUnsigned \in Nat /\ MaxPort \in 1 .. MaxUnsigned - 1 /\ kVersion \in 1 .. MaxUnsigned

VARIABLE text       \* what the user typed as a name, or what a datagram holds

MessageInit == \E f \in Fields : text = <<f>>
Extend(f) == Len(text) < MaxFields /\ text' = Append(text, f)
MessageNext == \E f \in Fields : Extend(f)

MessageSpec == MessageInit /\ [][MessageNext]_text

-----------------------------------------------------------------------------
(* discovery_message.cpp *)

\* std::getline drops what follows the last separator when it is empty.
split_message(message) ==
    IF Last(message) = <<>> THEN Front(message) ELSE message

DigitChars == {Digits[k] : k \in DOMAIN Digits}
DigitValue(ch) == (CHOOSE k \in DOMAIN Digits : Digits[k] = ch) - 1

Number(value) ==
    LET upTo[k \in 0 .. Len(value)] ==
            IF k = 0 THEN 0 ELSE upTo[k - 1] * Len(Digits) + DigitValue(value[k])
    IN  upTo[Len(value)]

\* std::stoul throws when the value is too large.
parse_unsigned(value) ==
    IF value = <<>> \/ \E k \in DOMAIN value : value[k] \notin DigitChars THEN -1
    ELSE IF Number(value) > MaxUnsigned THEN -1 ELSE Number(value)

\* std::to_string
to_string[n \in 0 .. MaxUnsigned] ==
    LET digit == <<Digits[(n % Len(Digits)) + 1]>>
    IN  IF n < Len(Digits) THEN digit ELSE to_string[n \div Len(Digits)] \o digit

is_valid_peer_name(peer_name) == Len(peer_name) \in 1 .. kMaxPeerNameLength

\* Mutant: port 0 is let through.
is_valid_port_OrZero(port) == port \in 0 .. MaxPort

is_valid_port(port) == port \in 1 .. MaxPort

\* peer_name is a text: nothing here keeps a "|" out of it.
build_discovery_message(peer_name, transfer_port) ==
    <<kDiscoveryMarker, to_string[kVersion]>> \o peer_name \o <<to_string[transfer_port]>>

parse_discovery_message(message) ==
    LET parts == split_message(message)
    IN  IF /\ Len(parts) = 4
           /\ parts[1] = kDiscoveryMarker
           /\ parse_unsigned(parts[2]) = kVersion
           /\ is_valid_peer_name(parts[3])
           /\ is_valid_port(parse_unsigned(parts[4]))
        THEN [name |-> parts[3], transfer_port |-> parse_unsigned(parts[4])]
        ELSE NoPeer

-----------------------------------------------------------------------------
(* broadcaster.cpp *)

\* substr(0, n)
Prefix(name, n) == SubSeq(name, 1, Min({n, Len(name)}))

\* Mutant: only the first field of the name is looked at.
safe_peer_name_KeepsBar(requested_name) ==
    IF requested_name[1] = <<>> THEN <<DefaultPeerName>>
    ELSE [k \in DOMAIN requested_name |->
            Prefix(requested_name[k], kMaxPeerNameLength)]

safe_peer_name(requested_name) ==
    IF requested_name = <<<<>>>> \/ Len(requested_name) > 1 THEN <<DefaultPeerName>>
    ELSE <<Prefix(requested_name[1], kMaxPeerNameLength)>>

-----------------------------------------------------------------------------
(* Properties *)

\* Whatever name the user gives the broadcaster, safe_peer_name makes one that
\* listeners accept, and they list the peer under that very name and port.
AnnouncementsParse ==
    LET name == safe_peer_name(text)
    IN  \A port \in 1 .. MaxPort :
            parse_discovery_message(build_discovery_message(name, port))
                = [name |-> name[1], transfer_port |-> port]

LeadingZeros(l) == [k \in 1 .. l |-> Digits[1]]
WithZeros(n) == {f \in Fields : \E l \in 0 .. Len(f) : f = LeadingZeros(l) \o to_string[n]}
TextsOf(p) ==
    {<<kDiscoveryMarker, v, p.name, t>> \o end :
        v \in WithZeros(kVersion), t \in WithZeros(p.transfer_port), end \in {<<>>, <<<<>>>>}}
ValidPeers == [name : {f \in Fields : is_valid_peer_name(f)}, transfer_port : 1 .. MaxPort]

\* A datagram parse_discovery_message accepts is one that a broadcaster with a
\* valid name and port could have built, but for leading zeros in the two
\* numbers and one separator at the end; nothing else gets through, and every
\* one of these does.
OnlyAnnouncementsParse ==
    LET parsed == parse_discovery_message(text)
    IN  IF parsed = NoPeer THEN \A p \in ValidPeers : text \notin TextsOf(p)
        ELSE parsed \in ValidPeers /\ text \in TextsOf(parsed)

=============================================================================
