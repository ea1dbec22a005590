------------------------------- MODULE Addresses -------------------------------
(***************************************************************************)
(* The functions on IPv4 and IPv6 addresses, and tohex (func_net.go).  An  *)
(* address is given as its notation, its number and the prefix written     *)
(* behind it: dotted (a.b.c.d), compatible (::a.b.c.d) or hexadecimal.     *)
(* Numbers have the widths the constants give, 32 and 128 in the code.     *)
(***************************************************************************)
EXTENDS Integers, Sequences, FiniteSets, SequencesExt, FiniteSetsExt

CONSTANTS
  Width4, Width6,         \* bits of an IPv4 and of an IPv6 address
  Base,                   \* of tohex's digits (16)
  LongDigits, IntDigits,  \* digits a long and an int have (16 and 8)
  NoValue, EmptyString    \* the two answers to what is no address

ASSUME WidthAssumption == Width4 \in Nat \ {0} /\ Width6 \in Nat /\ Width6 > Width4
ASSUME DigitAssumption == Base \in Nat \ {0, 1} /\ {LongDigits, IntDigits} \subseteq Nat \ {0}

NoPrefix == -1
Address(notation, n, prefix) == [notation |-> notation, n |-> n, prefix |-> prefix]

Least(a, b) == IF a < b THEN a ELSE b

\* n without the bits behind the prefix: a shift by the width or more leaves none.
Masked(n, prefix, width) ==
  IF prefix >= width THEN n ELSE IF prefix <= 0 THEN 0 ELSE n - (n % 2 ^ (width - prefix))

\* The written prefix, or the whole width; one out of range is no address.
PrefixOr(x, width) == IF x.prefix = NoPrefix THEN width ELSE x.prefix
IsIPv4Text(x) == x.notation = "dotted" /\ PrefixOr(x, Width4) <= Width4

------------------------------------------------------------------------------
(* IPv4.                                                                     *)

ParseIPv4(x) == IF IsIPv4Text(x) THEN Masked(x.n, PrefixOr(x, Width4), Width4) ELSE NoValue

\* The range's prefix is the mask, that of the address is not looked at.
IPv4IsInRange(x, range) ==
  IF ~IsIPv4Text(x) \/ ~IsIPv4Text(range) THEN NoValue
  ELSE LET p == PrefixOr(range, Width4) IN Masked(x.n, p, Width4) = Masked(range.n, p, Width4)

\* Only a bare address is looked for, and a range that is none does not match.
IPv4IsInAnyRange(x, ranges) ==
  IF x.notation # "dotted" \/ x.prefix # NoPrefix THEN NoValue
  ELSE \E i \in DOMAIN ranges : IPv4IsInRange(x, ranges[i]) = TRUE

\* The shortest of the prefixes is the mask; the third may be anything.
CommonPrefix(x, y, prefix, width) == Least(Least(PrefixOr(x, width), PrefixOr(y, width)), prefix)

Compared(a, b) == IF a < b THEN -1 ELSE IF a > b THEN 1 ELSE 0

IPv4Compare(x, y, prefix) ==
  IF ~IsIPv4Text(x) \/ ~IsIPv4Text(y) THEN NoValue
  ELSE LET p == CommonPrefix(x, y, prefix, Width4) IN Compared(Masked(x.n, p, Width4), Masked(y.n, p, Width4))

IPv4IsMatch(x, y, prefix) ==
  IF ~IsIPv4Text(x) \/ ~IsIPv4Text(y) THEN NoValue ELSE IPv4Compare(x, y, prefix) = 0

IPv4NetmaskSuffix(x) == IF IsIPv4Text(x) THEN PrefixOr(x, Width4) ELSE NoValue

\* The masked address and the mask; a mask out of range gives the empty string
\* where a text is asked for, and null where a number is.
FormatIPv4Mask(x, prefix) ==
  LET p == Least(PrefixOr(x, Width4), prefix)
  IN  IF ~IsIPv4Text(x) \/ prefix \notin 0 .. Width4 THEN EmptyString ELSE <<Masked(x.n, p, Width4), p>>
ParseIPv4Mask(x, prefix) ==
  IF FormatIPv4Mask(x, prefix) = EmptyString THEN NoValue ELSE FormatIPv4Mask(x, prefix)[1]

\* The addresses of a range in blocks: each the largest that is aligned where it
\* starts and does not run past the end.
IPv4RangeToCIDRList(start, end) ==
  LET fits(from, bits) == from % 2 ^ bits = 0 /\ from + 2 ^ bits - 1 <= end
      bits(from) == Max({b \in 0 .. Width4 : fits(from, b)})
      blocks[from \in 0 .. 2 ^ Width4] ==
        IF from > end THEN << >> ELSE <<<<from, Width4 - bits(from)>>>> \o blocks[from + 2 ^ bits(from)]
  IN  blocks[start]

------------------------------------------------------------------------------
(* IPv6: an IPv4 address is the one it is mapped to.                         *)

\* The mark before a mapped IPv4 address (ffff) is one bit here.
Mapped(n) == 2 ^ Width4 + n
Offset == Width6 - Width4

\* An embedded prefix counts from the IPv4 part where the text has a dot.
HasDot(x) == x.notation \in {"dotted", "compatible"}
ParseIPv6WithPrefix(x) ==
  LET number == IF HasDot(x) THEN Mapped(x.n) ELSE x.n
      prefix == IF x.prefix = NoPrefix THEN Width6 ELSE IF HasDot(x) THEN Offset + x.prefix ELSE x.prefix
  IN  [ok |-> x.notation # "malformed" /\ prefix <= Width6, n |-> number, prefix |-> prefix]

\* The compatible notation is shown as it is written.
CompatForm(x, n) == IF x.notation = "compatible" THEN n % 2 ^ Width4 ELSE n

\* parse_ipv6 and parse_ipv6_mask (the explicit prefix).
ParseIPv6Mask(x, prefix) ==
  LET a == ParseIPv6WithPrefix(x)
  IN  IF ~a.ok \/ prefix \notin 0 .. Width6 THEN EmptyString
      ELSE CompatForm(x, Masked(a.n, Least(a.prefix, prefix), Width6))

IPv6Compare(x, y, prefix) ==
  LET a == ParseIPv6WithPrefix(x)
      b == ParseIPv6WithPrefix(y)
      p == Least(Least(a.prefix, b.prefix), prefix)
  IN  IF ~a.ok \/ ~b.ok THEN NoValue ELSE Compared(Masked(a.n, p, Width6), Masked(b.n, p, Width6))

IPv6IsMatch(x, y, prefix) == IF IPv6Compare(x, y, prefix) = NoValue THEN NoValue ELSE IPv6Compare(x, y, prefix) = 0

IPv6IsInRange(x, range) ==
  LET a == ParseIPv6WithPrefix(x)
      r == ParseIPv6WithPrefix(range)
  IN  IF ~a.ok \/ ~r.ok THEN NoValue ELSE Masked(a.n, r.prefix, Width6) = Masked(r.n, r.prefix, Width6)

IPv6IsInAnyRange(x, ranges) ==
  IF ~ParseIPv6WithPrefix(x).ok THEN NoValue ELSE \E i \in DOMAIN ranges : IPv6IsInRange(x, ranges[i]) = TRUE

------------------------------------------------------------------------------
(* tohex: two's complement in the width of the argument's type, which only a *)
(* negative number fills.                                                    *)

ToHex(n, isInt, minLength) ==
  LET full == IF isInt THEN IntDigits ELSE LongDigits
      value == n % Base ^ full
      digit(i) == (value \div Base ^ i) % Base
      least == Max({0} \cup {i \in 0 .. full - 1 : digit(i) # 0}) + 1
      width == Max({least, IF n < 0 THEN full ELSE 0, Least(minLength, LongDigits)})
  IN  [k \in 1 .. width |-> IF width - k < full THEN digit(width - k) ELSE 0]

------------------------------------------------------------------------------
CallNet(c) ==
  LET a == c.args
  IN  CASE c.fn = "parse_ipv4" -> ParseIPv4(a[1])
        [] c.fn = "ipv4_is_in_range" -> IPv4IsInRange(a[1], a[2])
        [] c.fn = "ipv4_is_in_any_range" -> IPv4IsInAnyRange(a[1], a[2])
        [] c.fn = "ipv4_compare" -> IPv4Compare(a[1], a[2], a[3])
        [] c.fn = "ipv4_is_match" -> IPv4IsMatch(a[1], a[2], a[3])
        [] c.fn = "ipv4_netmask_suffix" -> IPv4NetmaskSuffix(a[1])
        [] c.fn = "format_ipv4_mask" -> FormatIPv4Mask(a[1], a[2])
        [] c.fn = "parse_ipv4_mask" -> ParseIPv4Mask(a[1], a[2])
        [] c.fn = "ipv4_range_to_cidr_list" -> IPv4RangeToCIDRList(a[1], a[2])
        [] c.fn = "parse_ipv6_mask" -> ParseIPv6Mask(a[1], a[2])
        [] c.fn = "ipv6_compare" -> IPv6Compare(a[1], a[2], a[3])
        [] c.fn = "ipv6_is_match" -> IPv6IsMatch(a[1], a[2], a[3])
        [] c.fn = "ipv6_is_in_range" -> IPv6IsInRange(a[1], a[2])
        [] c.fn = "ipv6_is_in_any_range" -> IPv6IsInAnyRange(a[1], a[2])
        [] c.fn = "tohex" -> ToHex(a[1], a[2], a[3])

------------------------------------------------------------------------------
(* What they promise, bit by bit.                                            *)

Bit(n, i, width) == (n \div 2 ^ (width - i)) % 2   \* the i-th from the left
Agree(m, n, prefix, width) == \A i \in 1 .. width : i <= prefix => Bit(m, i, width) = Bit(n, i, width)
Net(n, prefix, width) == {k \in 0 .. 2 ^ width - 1 : Agree(k, n, prefix, width)}
LessIn(m, n, prefix, width) ==
  \E i \in 1 .. width : i <= prefix /\ Bit(m, i, width) < Bit(n, i, width) /\ Agree(m, n, i - 1, width)

ComparedAsPromised(m, n, prefix, width, answer) ==
  answer = IF LessIn(m, n, prefix, width) THEN -1 ELSE IF LessIn(n, m, prefix, width) THEN 1 ELSE 0

Good(x) == IsIPv4Text(x)
Shortest(x, y, prefix, width) == Min({prefix} \cup ({x.prefix, y.prefix} \ {NoPrefix}) \cup {width})

\* The IPv6 prefix and number of x, the two notations with dots alike.
Six(x) == IF x.notation = "hex" THEN x.n ELSE Mapped(x.n)
SixPrefix(x) == IF x.prefix = NoPrefix THEN Width6 ELSE IF x.notation = "hex" THEN x.prefix ELSE Width6 - (Width4 - x.prefix)
Good6(x) == x.notation # "malformed" /\ (x.prefix <= IF x.notation = "hex" THEN Width6 ELSE Width4)

CIDRAsPromised(start, end, list) ==
  LET net(i) == Net(list[i][1], list[i][2], Width4)
  IN  /\ UNION {net(i) : i \in DOMAIN list} = start .. end
      /\ \A i, j \in DOMAIN list : i < j => net(i) \cap net(j) = {}
      \* no block can be grown within the range
      /\ \A i \in DOMAIN list : list[i][2] > 0 => ~(Net(list[i][1], list[i][2] - 1, Width4) \subseteq start .. end)

ReadBack(digits, isInt) ==
  LET full == IF isInt THEN IntDigits ELSE LongDigits
      value == FoldLeft(LAMBDA v, d : v * Base + d, 0, digits)
  IN  IF 2 * value >= Base ^ full THEN value - Base ^ full ELSE value

NetAsPromised(c, answer) ==
  LET a == c.args
      x == a[1]
  IN  CASE c.fn = "parse_ipv4" -> IF Good(x) THEN answer = Min(Net(x.n, PrefixOr(x, Width4), Width4)) ELSE answer = NoValue
        [] c.fn = "ipv4_is_in_range" ->
             IF Good(x) /\ Good(a[2]) THEN answer = (x.n \in Net(a[2].n, PrefixOr(a[2], Width4), Width4)) ELSE answer = NoValue
        [] c.fn = "ipv4_is_in_any_range" ->
             IF Good(x) /\ x.prefix = NoPrefix
             THEN answer = (x.n \in UNION {Net(r.n, PrefixOr(r, Width4), Width4) : r \in {r \in Range(a[2]) : Good(r)}})
             ELSE answer = NoValue
        [] c.fn = "ipv4_compare" ->
             IF Good(x) /\ Good(a[2])
             THEN ComparedAsPromised(x.n, a[2].n, Shortest(x, a[2], a[3], Width4), Width4, answer) ELSE answer = NoValue
        [] c.fn = "ipv4_is_match" ->
             IF Good(x) /\ Good(a[2])
             THEN answer = Agree(x.n, a[2].n, Shortest(x, a[2], a[3], Width4), Width4) ELSE answer = NoValue
        \* as a range, x has the addresses that agree with it in so many bits
        [] c.fn = "ipv4_netmask_suffix" ->
             IF Good(x)
             THEN /\ answer \in 0 .. Width4
                  /\ {n \in 0 .. 2 ^ Width4 - 1 : IPv4IsInRange(Address("dotted", n, NoPrefix), x)} = Net(x.n, answer, Width4)
             ELSE answer = NoValue
        [] c.fn \in {"format_ipv4_mask", "parse_ipv4_mask"} ->
             IF Good(x) /\ a[2] \in 0 .. Width4
             THEN LET p == Shortest(x, x, a[2], Width4)
                      least == Min(Net(x.n, p, Width4))
                  IN  answer = IF c.fn = "parse_ipv4_mask" THEN least ELSE <<least, p>>
             ELSE answer \in {EmptyString, NoValue}
        [] c.fn = "ipv4_range_to_cidr_list" -> CIDRAsPromised(a[1], a[2], answer)
        [] c.fn = "parse_ipv6_mask" ->
             IF Good6(x) /\ a[2] \in 0 .. Width6
             THEN LET p == Least(SixPrefix(x), a[2])
                      least == Min(Net(Six(x), p, Width6))
                  IN  answer = IF x.notation = "compatible" THEN least % 2 ^ Width4 ELSE least
             ELSE answer = EmptyString
        [] c.fn \in {"ipv6_compare", "ipv6_is_match"} ->
             IF Good6(x) /\ Good6(a[2])
             THEN LET p == Min({SixPrefix(x), SixPrefix(a[2]), a[3]})
                  IN  IF c.fn = "ipv6_is_match" THEN answer = Agree(Six(x), Six(a[2]), p, Width6)
                      ELSE ComparedAsPromised(Six(x), Six(a[2]), p, Width6, answer)
             ELSE answer = NoValue
        [] c.fn \in {"ipv6_is_in_range", "ipv6_is_in_any_range"} ->
             LET ranges == IF c.fn = "ipv6_is_in_range" THEN {a[2]} ELSE Range(a[2])
             IN  IF Good6(x) /\ (c.fn = "ipv6_is_in_range" => Good6(a[2]))
                 THEN answer = (Six(x) \in UNION {Net(Six(r), SixPrefix(r), Width6) : r \in {r \in ranges : Good6(r)}})
                 ELSE answer = NoValue
        [] c.fn = "tohex" ->
             /\ a[1] < 0 \/ a[3] <= (IF a[2] THEN IntDigits ELSE LongDigits) => ReadBack(answer, a[2]) = a[1]
             /\ Len(answer) >= Least(a[3], LongDigits)
             /\ a[1] >= 0 /\ Len(answer) > Max({a[3], 1}) => Head(answer) # 0
================================================================================
