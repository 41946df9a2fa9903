------------------------------ MODULE IpAddress ------------------------------
(***************************************************************************)
(* The textual forms of ipv4_address, ipv6_address, ip_address and of the  *)
(* endpoints (src/lib/ipv4_address.cpp, ipv6_address.cpp and their kin).   *)
(* A text is a sequence of characters: the digits 0..15 in lower case, 16  *)
(* more for A..F, and the punctuation below.  An address is the sequence   *)
(* of its four bytes or eight parts; its port is NoPort when it is no      *)
(* endpoint.                                                               *)
(***************************************************************************)
EXTENDS Integers, Sequences
LOCAL INSTANCE FiniteSetsExt
LOCAL INSTANCE SequencesExt

CONSTANTS Values,       \* addresses and endpoints to write and read back
          Texts,        \* texts to read, each with what follows it in memory
          MaxInteger    \* the largest integer of 32 bits; TLC's own integers end before it

Colon == 32
Dot == 33
OpenBracket == 34
CloseBracket == 35
LetterX == 36
Nul == 37
Decimals == 0 .. 9
HexCharacters == (0 .. 15) \cup (26 .. 31)

NoPort == -1
NoValue == -1
Nullopt == <<>>
NoAddress == [address |-> Nullopt, port |-> NoPort]

VARIABLES phase,   \* "value", "text" or "parsed"
          value,   \* the address or endpoint that was written, if any
          text,    \* [view: the characters, beyond: the characters in memory after them]
          parsed

vars == <<phase, value, text, parsed>>

(* How many of the characters from pos on, limit at most, are in Chars.    *)
RunLength(s, pos, limit, Chars) ==
  Max({n \in 0 .. Min({limit, Len(s) - pos + 1}) : \A i \in 0 .. n - 1 : s[pos + i] \in Chars})

(* try_parse_hex_digit, for a character that is one.                       *)
TryParseHexDigit(c) == IF c > 15 THEN c - 16 ELSE c

NumberOf(digits, base) == FoldLeft(LAMBDA v, d : v * base + d, 0, digits)

(* The digits of a number, none of them a leading zero.                    *)
DigitsOf(v, base) ==
  LET n == Max({1} \cup {k \in 2 .. 5 : v >= base ^ (k - 1)})
  IN  [i \in 1 .. n |-> (v \div base ^ (n - i)) % base]

Join(numbers, base, separator) ==
  FoldLeft(LAMBDA t, v : (IF t = <<>> THEN t ELSE Append(t, separator)) \o DigitsOf(v, base), <<>>, numbers)

-----------------------------------------------------------------------------
(* ipv4_address::to_string(): four decimal numbers.                        *)
V4ToString(address) == Join(address, 10, Dot)

(* A further digit of a 32-bit integer, refused when it would overflow.    *)
AppendDigit(v, d) ==
  IF \/ v = NoValue
     \/ v > MaxInteger \div 10
     \/ v = MaxInteger \div 10 /\ d > MaxInteger % 10
  THEN NoValue ELSE v * 10 + d

V4FromInteger(n) == [i \in 1 .. 4 |-> (n \div 256 ^ (4 - i)) % 256]

(* One of the last three numbers: a dot and at most three digits.          *)
V4NextPart(s, parse) ==
  LET first == parse.pos + 1
      n == RunLength(s, first, 3, Decimals)
      partValue == NumberOf(SubSeq(s, first, first + n - 1), 10)
  IN  IF \/ ~parse.ok
         \/ first > Len(s)
         \/ s[parse.pos] # Dot
         \/ s[first] \notin Decimals
         \/ s[first] = 0 /\ n > 1
         \/ n = 3 /\ partValue > 255
      THEN [parse EXCEPT !.ok = FALSE]
      ELSE [ok |-> TRUE, pos |-> first + n, parts |-> Append(parse.parts, partValue)]

(* ipv4_address::from_string(): one integer, or four dotted ones.          *)
V4FromString(s) ==
  LET n == RunLength(s, 1, Len(s), Decimals)
      octalOrHex == s[1] = 0 /\ Len(s) > 1 /\ s[2] \in Decimals \cup {LetterX}
      first == FoldLeft(AppendDigit, s[1], SubSeq(s, 2, n))
      parse == FoldLeft(LAMBDA p, i : V4NextPart(s, p),
                        [ok |-> TRUE, pos |-> n + 1, parts |-> <<first>>], <<1, 2, 3>>)
  IN  IF s = <<>> \/ n = 0 \/ octalOrHex \/ first = NoValue THEN Nullopt
      ELSE IF n = Len(s) THEN V4FromInteger(first)
      ELSE IF first > 255 \/ ~parse.ok \/ parse.pos <= Len(s) THEN Nullopt
      ELSE parse.parts

-----------------------------------------------------------------------------
(* The first of the longest runs of zero parts.                            *)
LongestZeroRun(address) ==
  LET Run(i) == RunLength(address, i, 8, {0})
  IN  FoldLeft(LAMBDA best, i : IF Run(i) > best.length THEN [start |-> i, length |-> Run(i)] ELSE best,
               [start |-> 1, length |-> 0], [i \in 1 .. 8 |-> i])

(* ipv6_address::to_string(): a run of two zero parts or more is "::".     *)
V6ToString(address) ==
  LET run == LongestZeroRun(address)
  IN  IF run.length >= 2
      THEN Join(SubSeq(address, 1, run.start - 1), 16, Colon) \o <<Colon, Colon>>
           \o Join(SubSeq(address, run.start + run.length, 8), 16, Colon)
      ELSE Join(address, 16, Colon)

(* The code does not look at the length before it expects a dot: there it  *)
(* may read what follows the text in memory.                               *)
CharacterAt(s, beyond, pos) ==
  LET memory == s \o beyond IN IF pos <= Len(memory) THEN memory[pos] ELSE Nul

(* One of the last three numbers of the dotted end of an IPv6 address.     *)
V6NextDecimal(s, beyond, parse) ==
  LET first == parse.pos + 1
      c == CharacterAt(s, beyond, first)
      n == IF first > Len(s) THEN 1 ELSE RunLength(s, first, 3, Decimals)
      partValue == IF first > Len(s) THEN c ELSE NumberOf(SubSeq(s, first, first + n - 1), 10)
  IN  IF \/ ~parse.ok
         \/ CharacterAt(s, beyond, parse.pos) # Dot
         \/ first = Len(s) + 1
         \/ c \notin Decimals
         \/ partValue > 255
         \/ n > 1 /\ c = 0
      THEN [parse EXCEPT !.ok = FALSE]
      ELSE [ok |-> TRUE, pos |-> first + n, parts |-> Append(parse.parts, partValue)]

(* The digits read so far are the first of four dotted decimals.           *)
V6DottedEnd(s, beyond, parse, digits) ==
  LET first == NumberOf(digits, 10)
      d == FoldLeft(LAMBDA p, i : V6NextDecimal(s, beyond, p),
                    [ok |-> TRUE, pos |-> parse.pos + Len(digits), parts |-> <<first>>], <<1, 2, 3>>)
  IN  IF \/ Len(parse.parts) > 6
         \/ Len(digits) > 3
         \/ Len(digits) > 1 /\ digits[1] = 0
         \/ \E i \in DOMAIN digits : digits[i] > 9
         \/ first > 255
         \/ ~d.ok
      THEN [parse EXCEPT !.ok = FALSE]
      ELSE [parse EXCEPT !.pos = d.pos, !.stop = TRUE,
                         !.parts = @ \o <<d.parts[1] * 256 + d.parts[2], d.parts[3] * 256 + d.parts[4]>>]

(* A slip: the part that is being read is not counted.                     *)
DoubleColonBeforePart(partCount) == partCount

(* Where the zeroes go: after the part that is being read.                 *)
DoubleColonPos(partCount) == partCount + 1

(* One iteration of the loop over the parts: up to four hexadecimal digits *)
(* and what separates them from the next.                                  *)
V6NextPart(s, beyond, parse) ==
  LET n == RunLength(s, parse.pos, 4, HexCharacters)
      digits == [i \in 1 .. n |-> TryParseHexDigit(s[parse.pos + i - 1])]
      next == parse.pos + n
      Failed == [parse EXCEPT !.ok = FALSE]
      Part(pos, doubleColonPos) ==
        [parse EXCEPT !.pos = pos, !.doubleColonPos = doubleColonPos, !.parts = Append(@, NumberOf(digits, 16))]
  IN  CASE ~parse.ok \/ parse.stop \/ parse.pos > Len(s) \/ Len(parse.parts) = 8 -> parse
        [] OTHER ->
      CASE n = 0 \/ next = Len(s) -> Failed
        [] n > 0 /\ next > Len(s) -> Part(next, parse.doubleColonPos)
        [] OTHER ->
      CASE s[next] = Colon /\ s[next + 1] # Colon -> Part(next + 1, parse.doubleColonPos)
        [] s[next] = Colon /\ s[next + 1] = Colon ->
             IF parse.doubleColonPos # NoValue THEN Failed ELSE Part(next + 2, DoubleColonPos(Len(parse.parts)))
        [] s[next] = Dot -> V6DottedEnd(s, beyond, parse, digits)
        [] OTHER -> Failed

(* The parts, with the zeroes that "::" stands for.                        *)
Expanded(parts, preCount) ==
  CASE Len(parts) = 8 /\ preCount = NoValue -> parts
    [] Len(parts) < 8 /\ preCount # NoValue ->
         SubSeq(parts, 1, preCount) \o [i \in 1 .. 8 - Len(parts) |-> 0] \o SubSeq(parts, preCount + 1, Len(parts))
    [] OTHER -> Nullopt

(* ipv6_address::from_string(): all of the text is read as parts.          *)
V6FromString(s, beyond) ==
  LET leading == Len(s) >= 2 /\ s[1] = Colon /\ s[2] = Colon
      parse == FoldLeft(LAMBDA p, i : V6NextPart(s, beyond, p),
                        [ok |-> TRUE, stop |-> FALSE, parts |-> <<>>, pos |-> IF leading THEN 3 ELSE 1,
                         doubleColonPos |-> IF leading THEN 0 ELSE NoValue],
                        [i \in 1 .. 8 |-> i])
  IN  IF s = <<>> \/ Len(s) > 45 \/ ~parse.ok \/ parse.pos <= Len(s) THEN Nullopt
      ELSE Expanded(parse.parts, parse.doubleColonPos)

-----------------------------------------------------------------------------
(* parse_port of the endpoints.                                            *)
ParsePort(s) ==
  IF s = <<>> THEN NoPort
  ELSE FoldLeft(LAMBDA v, c : IF v = NoPort \/ c \notin Decimals \/ v * 10 + c > 65535 THEN NoPort
                              ELSE v * 10 + c, 0, s)

Endpoint(address, port) ==
  IF address = Nullopt \/ port = NoPort THEN NoAddress ELSE [address |-> address, port |-> port]

V4EndpointFromString(s) ==
  LET colons == {i \in DOMAIN s : s[i] = Colon}
      colonPos == Min(colons)
  IN  IF colons = {} THEN NoAddress
      ELSE Endpoint(V4FromString(SubSeq(s, 1, colonPos - 1)), ParsePort(SubSeq(s, colonPos + 1, Len(s))))

V6EndpointFromString(s) ==
  LET closes == {i \in 2 .. Len(s) - 1 : s[i] = CloseBracket /\ s[i + 1] = Colon}
      closeBracketPos == Min(closes)
  IN  IF Len(s) < 6 \/ s[1] # OpenBracket \/ closes = {} THEN NoAddress
      ELSE Endpoint(V6FromString(SubSeq(s, 2, closeBracketPos - 1), SubSeq(s, closeBracketPos, Len(s))),
                    ParsePort(SubSeq(s, closeBracketPos + 2, Len(s))))

EndpointToString(e) ==
  (IF Len(e.address) = 4 THEN V4ToString(e.address)
   ELSE <<OpenBracket>> \o V6ToString(e.address) \o <<CloseBracket>>) \o <<Colon>> \o DigitsOf(e.port, 10)

AddressToString(address) == IF Len(address) = 4 THEN V4ToString(address) ELSE V6ToString(address)

(* ip_address::from_string() tries one family and then the other.          *)
AddressFromString(s, beyond) ==
  LET v4 == V4FromString(s) IN IF v4 # Nullopt THEN v4 ELSE V6FromString(s, beyond)

EndpointFromString(s) ==
  LET v4 == V4EndpointFromString(s) IN IF v4 # NoAddress THEN v4 ELSE V6EndpointFromString(s)

-----------------------------------------------------------------------------
Init ==
  /\ parsed = <<NoAddress, NoAddress>>
  /\ \/ phase = "value" /\ value \in Values /\ text = [view |-> <<>>, beyond |-> <<>>]
     \/ phase = "text" /\ value = NoAddress /\ text \in Texts

Write ==
  /\ phase = "value"
  /\ text' = [view |-> IF value.port = NoPort THEN AddressToString(value.address) ELSE EndpointToString(value),
              beyond |-> <<>>]
  /\ phase' = "text"
  /\ UNCHANGED <<value, parsed>>

(* The text is read as an address and as an endpoint.                      *)
Read ==
  /\ phase = "text"
  /\ parsed' = <<[address |-> AddressFromString(text.view, text.beyond), port |-> NoPort],
                 EndpointFromString(text.view)>>
  /\ phase' = "parsed"
  /\ UNCHANGED <<value, text>>

Next == Write \/ Read

-----------------------------------------------------------------------------
(* What a text denotes, said without a parser.  A list of parts is cut at  *)
(* its separators; every field is one part, and a dotted field is two.     *)
Fields(s, separator) ==
  LET cuts == {0, Len(s) + 1} \cup {i \in DOMAIN s : s[i] = separator}
  IN  {<<i, SubSeq(s, i + 1, Min({j \in cuts : j > i}) - 1)>> : i \in cuts \ {Len(s) + 1}}

InOrder(fields) == [k \in 1 .. Cardinality(fields) |->
  (CHOOSE f \in fields : Cardinality({g \in fields : g[1] < f[1]}) = k - 1)[2]]

IsDecimal(f) == f # <<>> /\ Len(f) <= 3 /\ (Range(f) \subseteq Decimals) /\ (Len(f) = 1 \/ f[1] # 0)
                /\ NumberOf(f, 10) <= 255
IsDotted(s) == LET d == InOrder(Fields(s, Dot)) IN Len(d) = 4 /\ \A k \in 1 .. 4 : IsDecimal(d[k])
DottedValue(s) == LET d == InOrder(Fields(s, Dot)) IN [k \in 1 .. 4 |-> NumberOf(d[k], 10)]
IsHexPart(f) == f # <<>> /\ Len(f) <= 4 /\ Range(f) \subseteq HexCharacters
HexValue(f) == NumberOf([i \in DOMAIN f |-> TryParseHexDigit(f[i])], 16)

(* The lists of parts that s may be; only the end of a text is dotted.     *)
PartLists(s, mayBeDotted) ==
  LET f == InOrder(Fields(s, Colon))
      n == Len(f)
      d == DottedValue(f[n])
  IN  IF s = <<>> THEN {<<>>}
      ELSE IF \A k \in 1 .. n : IsHexPart(f[k]) THEN {[k \in 1 .. n |-> HexValue(f[k])]}
      ELSE IF mayBeDotted /\ IsDotted(f[n]) /\ \A k \in 1 .. n - 1 : IsHexPart(f[k])
      THEN {[k \in 1 .. n - 1 |-> HexValue(f[k])] \o <<d[1] * 256 + d[2], d[3] * 256 + d[4]>>}
      ELSE {}

V6Denoted(s) ==
  {a \in PartLists(s, TRUE) : Len(a) = 8} \cup
  UNION {{l[1] \o [i \in 1 .. 8 - Len(l[1]) - Len(l[2]) |-> 0] \o l[2] :
            l \in {l \in PartLists(SubSeq(s, 1, p - 1), FALSE) \X PartLists(SubSeq(s, p + 2, Len(s)), TRUE) :
                     Len(l[1]) + Len(l[2]) < 8}} :
         p \in {p \in 1 .. Len(s) - 1 : s[p] = Colon /\ s[p + 1] = Colon}}

V4Denoted(s) ==
  LET tens == NumberOf(SubSeq(s, 1, Len(s) - 1), 10)
  IN  IF IsDotted(s) THEN {DottedValue(s)}
      ELSE IF /\ s # <<>> /\ Len(s) <= 10 /\ Range(s) \subseteq Decimals /\ (Len(s) = 1 \/ s[1] # 0)
              /\ tens <= MaxInteger \div 10 /\ s[Len(s)] <= MaxInteger - 10 * tens
      THEN {V4FromInteger(10 * tens + s[Len(s)])} ELSE {}

AddressDenoted(s) == V4Denoted(s) \cup V6Denoted(s)

Bracketed(s) == Len(s) >= 2 /\ s[1] = OpenBracket /\ s[Len(s)] = CloseBracket

EndpointDenoted(s) ==
  UNION {LET host == SubSeq(s, 1, p - 1)
             port == SubSeq(s, p + 1, Len(s))
         IN  IF port = <<>> \/ ~(Range(port) \subseteq Decimals) \/ Len(port) > 6 \/ NumberOf(port, 10) > 65535 THEN {}
             ELSE {[address |-> a, port |-> NumberOf(port, 10)] :
                     a \in V4Denoted(host) \cup (IF Bracketed(host) THEN V6Denoted(Tail(Front(host))) ELSE {})} :
         p \in {p \in DOMAIN s : s[p] = Colon}}

TypeOK ==
  /\ phase \in {"value", "text", "parsed"}
  /\ Len(value.address) \in {0, 4, 8}
  /\ \A i \in 1 .. 2 : Len(parsed[i].address) \in {0, 4, 8} /\ parsed[i].port \in NoPort .. 65535

(* What to_string() writes, from_string() reads as the same address or the *)
(* same endpoint, and never as one of the other kind or family.            *)
RoundTrip ==
  (phase = "parsed" /\ value # NoAddress) =>
    parsed = IF value.port = NoPort THEN <<value, NoAddress>> ELSE <<NoAddress, value>>

(* from_string() reads a text as the one address or endpoint it denotes,   *)
(* and refuses a text that denotes none, whatever follows it in memory if  *)
(* the text holds no dot.                                                  *)
ReadsWhatIsDenoted ==
  (phase = "parsed" /\ (text.beyond = <<>> \/ Dot \notin Range(text.view))) =>
    /\ {a \in {parsed[1].address} : a # Nullopt} = AddressDenoted(text.view)
    /\ {e \in {parsed[2]} : e # NoAddress} = EndpointDenoted(text.view)
=============================================================================
