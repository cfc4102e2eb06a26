------------------------------ MODULE UrlRules ------------------------------
(***************************************************************************)
(* The rules of a destination URL (domain/value_objects/original_url.py):  *)
(* what may enter the table of links, what two submissions are taken for   *)
(* one destination, and what is still read back after the settings or the  *)
(* rules have changed.  A URL is a record of the choices the rules tell    *)
(* apart.  A host is the sequence of its dot-separated parts, an empty     *)
(* last part being the root label; a part is a word, or a number written   *)
(* in one of the three radices of inet_aton.  An octet counts to Byte      *)
(* instead of 256.                                                         *)
(***************************************************************************)
EXTENDS Integers, FiniteSets, SequencesExt

CONSTANTS
    Byte,       \* values of one octet (256 in the code)
    Inside,     \* first octets of the networks that are not public
    Urls,       \* the URLs submitted
    MaxAsks     \* bound on submissions and on changes of the settings

VARIABLES links, said, open, asks

vars == <<links, said, open, asks>>

NotANumber == 0 - 1

Part(prefix, digits) == [word |-> "", prefix |-> prefix, digits |-> digits]
Word(w) == [word |-> w, prefix |-> "", digits |-> <<>>]
Empty == Word("")

\* SPECIAL_USE_SUFFIXES and the names LABEL_PATTERN or IDNA refuses.
SpecialUse == {"localhost", "internal"}
Inadmissible == {"un_der"}
NotInIdna == {"unmappable"}
Punycode == [w \in {"name", "internal", "localhost", "xn", "national", "un_der"} |->
                IF w = "national" THEN "xn" ELSE w]

Schemes == {"http", "https"}
DefaultPorts == [http |-> "80", https |-> "443"]

-----------------------------------------------------------------------------
(* Host interpretation.                                                    *)

_without_root_label(host) ==
    IF Len(host) > 1 /\ Last(host) = Empty /\ host[Len(host) - 1] # Empty
    THEN Front(host) ELSE host

\* A name in a national script, or in full-width characters, takes the form
\* that travels over DNS; an ASCII one is only lowercased.
Expressible(u) ==
    u.wide => \A i \in DOMAIN u.host : u.host[i].word \notin NotInIdna

_to_ascii_host(u) ==
    LET host == _without_root_label(u.host)
    IN  IF ~u.wide THEN host
        ELSE [i \in DOMAIN host |->
                IF host[i].word \in DOMAIN Punycode
                THEN Word(Punycode[host[i].word]) ELSE host[i]]

Radix(part) ==
    CASE part.prefix = "0x" -> 16
      [] part.prefix = "0" -> 8
      [] OTHER -> 10

Number(digits, radix) == FoldLeft(LAMBDA n, d : n * radix + d, 0, digits)

_parse_ipv4_part(part) ==
    IF part.word # "" \/ part = Empty
       \/ \E i \in DOMAIN part.digits : part.digits[i] >= Radix(part)
    THEN NotANumber
    ELSE Number(part.digits, Radix(part))

\* The parts of the host without a trailing empty one.
AddressParts(host) == IF Last(host) = Empty THEN Front(host) ELSE host

_ends_in_number(host) ==
    LET parts == AddressParts(host)
    IN  parts # <<>> /\ _parse_ipv4_part(Last(parts)) # NotANumber

\* Written as an address and one: the last part fills the octets left out.
IsAddress(host) ==
    LET parts == AddressParts(host)
        n == Len(parts)
    IN  /\ n <= 4
        /\ \A i \in 1..n : _parse_ipv4_part(parts[i]) # NotANumber
        /\ \A i \in 1..(n - 1) : _parse_ipv4_part(parts[i]) < Byte
        /\ _parse_ipv4_part(parts[n]) < Byte ^ (5 - n)

_as_ip_address(host) ==
    LET parts == AddressParts(host)
        n == Len(parts)
    IN  FoldLeft(LAMBDA packed, i : packed + _parse_ipv4_part(parts[i]) * Byte ^ (4 - i),
                 _parse_ipv4_part(parts[n]),
                 [i \in 1..(n - 1) |-> i])

\* ipaddress classifies an address by its network.
Internal(packed) == (packed \div Byte ^ 3) \in Inside

\* An IPv6 address, and the IPv4 address it may carry.
_is_internal_address(six) == ~six.global \/ six.carries = "internal"

-----------------------------------------------------------------------------
(* Admission.                                                              *)

Bracketed(u) == u.bracket # "none"

_validate_length(u) == ~u.long

_validate_admissible_characters(u) == ~u.control

_parse(u) == u.splits

_validate_scheme(u) == u.scheme \in Schemes

_validate_authority_present(u) == u.host # <<>> /\ u.port # "unreadable"

_validate_no_credentials(u) == ~u.user

_validate_bracketed_host_is_an_address(u) == Bracketed(u) => u.bracket = "address"

\* What ipaddress.ip_address takes for an IPv4 address: four decimal octets.
StrictAddress(host) ==
    /\ Len(host) = 4
    /\ \A i \in 1..4 :
          /\ host[i].word = "" /\ host[i] # Empty
          /\ host[i].prefix = "" \/ (host[i].prefix = "0" /\ host[i].digits = <<>>)
          /\ _parse_ipv4_part(host[i]) \in 0..(Byte - 1)

_validate_host(u) ==
    LET host == _without_root_label(u.host)
        ascii == _to_ascii_host(u)
    IN  \/ u.bracket = "address"
        \/ ~u.wide /\ StrictAddress(host)
        \/ ~u.wide /\ host = <<Word("localhost")>>
        \/ /\ Expressible(u)
           /\ Len(ascii) > 1
           /\ \A i \in DOMAIN ascii : ascii[i] # Empty /\ ascii[i].word \notin Inadmissible

_validate_netloc(u) == u.port # "0" /\ _validate_host(u)

_validate_public_target(u, allow_internal_targets) ==
    LET host == _to_ascii_host(u)
    IN  \/ allow_internal_targets
        \/ u.bracket = "address" /\ ~_is_internal_address(u.six)
        \/ /\ u.bracket # "address"
           /\ IF _ends_in_number(host)
              THEN IsAddress(host) /\ ~Internal(_as_ip_address(host))
              ELSE Last(host).word \notin SpecialUse

\* A submitted URL passes every rule.
__post_init__(u, allow_internal_targets) ==
    /\ _validate_length(u)
    /\ _validate_admissible_characters(u)
    /\ _parse(u)
    /\ _validate_scheme(u)
    /\ _validate_authority_present(u)
    /\ _validate_no_credentials(u)
    /\ _validate_bracketed_host_is_an_address(u)
    /\ _validate_netloc(u)
    /\ _validate_public_target(u, allow_internal_targets)

\* A stored one has only to split and to name an authority.
from_storage(u, allow_internal_targets) == _parse(u) /\ _validate_authority_present(u)

-----------------------------------------------------------------------------
(* Deduplication: one hash per normalized form.                            *)

\* Slip: the port is cut off whatever it is.
Port_Cut(u) == "none"

Port(u) == IF u.port = DefaultPorts[u.scheme] THEN "none" ELSE u.port

normalize(u) ==
    [scheme  |-> u.scheme,
     user    |-> u.user,
     bracket |-> Bracketed(u),
     host    |-> IF u.bracket = "address" THEN <<>> ELSE _to_ascii_host(u),
     six     |-> u.six,
     port    |-> Port(u),
     path    |-> IF u.path = "" THEN "/" ELSE u.path]

Alike(u, v) == normalize(u) = normalize(v)

Init ==
    /\ links \in {{}} \cup {{u} : u \in {v \in Urls : v.scheme \in Schemes
                                            /\ _parse(v) /\ _validate_authority_present(v)
                                            /\ Expressible(v)}}
    /\ said = <<>>
    /\ open \in BOOLEAN
    /\ asks = 0

\* A URL is submitted: refused, answered with the link of the same hash, or
\* stored.
Shorten(u) ==
    /\ asks < MaxAsks
    /\ asks' = asks + 1
    /\ UNCHANGED open
    /\ IF ~__post_init__(u, open)
       THEN said' = <<>> /\ UNCHANGED links
       ELSE LET same == {l \in links : Alike(l, u)}
            IN  IF same # {}
                THEN \E l \in same :
                        said' = <<[asked |-> u, given |-> l]>> /\ UNCHANGED links
                ELSE /\ said' = <<[asked |-> u, given |-> u]>>
                     /\ links' = links \cup {u}

\* The service is restarted with internal targets allowed, or no longer.
Reconfigure ==
    /\ asks < MaxAsks
    /\ asks' = asks + 1
    /\ open' = ~open
    /\ UNCHANGED <<links, said>>

Next == (\E u \in Urls : Shorten(u)) \/ Reconfigure

Spec == Init /\ [][Next]_vars

-----------------------------------------------------------------------------
(* What a browser makes of a URL, defined apart from the rules above: the  *)
(* octets it would connect to, the name it would resolve, or nothing.      *)

\* The octets a host written as numbers stands for: one each, the last part
\* spread over those that remain.
OctetsOf(parts) ==
    LET n == Len(parts)
        value(i) == Number(parts[i].digits, Radix(parts[i]))
    IN  [j \in 1..4 |-> IF j < n THEN value(j) ELSE (value(n) \div Byte ^ (4 - j)) % Byte]

Spoken(u) ==
    LET bare == IF Len(u.host) > 1 /\ Last(u.host) = Empty THEN Front(u.host) ELSE u.host
    IN  [i \in DOMAIN bare |->
            IF u.wide /\ bare[i].word = "national" THEN Word("xn") ELSE bare[i]]

\* Written in digits of the radices it announces, and in no other.
AllNumbers(host) ==
    \A i \in DOMAIN host :
        /\ host[i].word = ""
        /\ \A j \in DOMAIN host[i].digits : host[i].digits[j] < Radix(host[i])

\* Where a browser sent to u ends up, the fragment apart.
Destination(u) ==
    [scheme |-> u.scheme, user |-> u.user, path |-> IF u.path = "" THEN "/" ELSE u.path,
     port   |-> IF u.port = "none" THEN DefaultPorts[u.scheme] ELSE u.port,
     bracket |-> u.bracket,
     six    |-> u.six,
     at     |-> IF u.bracket = "address" THEN <<>> ELSE Spoken(u)]

\* Connecting to u stays inside the deployment's own networks.
StaysInside(u) ==
    \/ u.bracket = "address" /\ (~u.six.global \/ u.six.carries = "internal")
    \/ /\ u.bracket = "none" /\ Len(Spoken(u)) <= 4 /\ AllNumbers(Spoken(u))
       /\ OctetsOf(Spoken(u))[1] \in Inside
    \/ u.bracket = "none" /\ Last(Spoken(u)).word \in SpecialUse

-----------------------------------------------------------------------------
(* Properties.                                                             *)

TypeOK ==
    /\ links \subseteq Urls
    /\ open \in BOOLEAN
    /\ asks \in 0..MaxAsks
    /\ said = <<>> \/ (said[1].asked \in Urls /\ said[1].given \in links)

\* normalize and the hash of it: whoever is answered with a link, their own
\* or an earlier one with the same hash, is answered with one that leads
\* where they asked, rows from before the present rules included.
LeadsWhereAsked ==
    said # <<>> => Destination(said[1].given) = Destination(said[1].asked)

\* _to_ascii_host: two spellings of one name, with the root label or without,
\* in a national script or in punycode, with the default port or without, do
\* not take two links.
OneLinkPerDestination ==
    \A l, k \in links : Destination(l) = Destination(k) /\ said # <<>>
                            /\ said[1].asked = k => l = k

\* _validate_public_target: a link accepted while internal targets are not
\* admitted does not lead inside, in however few parts and whatever radix
\* its address is written.
LeadsOutside ==
    [][ \A l \in links' \ links : ~open => ~StaysInside(l) ]_vars

\* from_storage: a stored link is read back whatever the settings are now and
\* whatever rules came after it.
ReadsBack == \A l \in links : from_storage(l, open)

=============================================================================
