------------------------------- MODULE MCLibrary -------------------------------
(***************************************************************************)
(* Calls with short arrays, with every count and index about their ends,   *)
(* and with bags two keys wide and two deep.                               *)
(***************************************************************************)
EXTENDS Library

Scalars == {Nil, Number(0), Number(1), Text(1), Bool(TRUE)}
Arrays(k) == {Array(a) : a \in UNION {[1 .. n -> Scalars] : n \in 0 .. k}}
NoArrays == {Nil, NullText, Number(1)}
Plain(k) == {Array([i \in 1 .. n |-> Number(i)]) : n \in 0 .. k}
Numbers(k) == {Array(a) : a \in UNION {[1 .. n -> {Number(0), Number(2), Nil}] : n \in 0 .. k}}
Shorts == {Array(a) : a \in UNION {[1 .. n -> {Number(1), Text(1), Nil}] : n \in 0 .. 2}}
About == -4 .. 4

Leaves == {Nil, Number(1), Array(<<Number(0), Text(1)>>)}
Bags(D, R) == {Bag(f) : f \in UNION {[S -> R] : S \in SUBSET D}}
Inner == Leaves \cup Bags({1, 2}, {Nil, Number(1)})
Trees == Bags({1, 2}, Inner) \cup {Nil, NullText, Array(<<Number(1)>>), Array(<<Bag(1 :> Text(1))>>)}
Keys == {Text(1), Text(3)} \cup {Path(p) : p \in {<<KeyStep(1)>>, <<KeyStep(1), KeyStep(2)>>, <<KeyStep(3), KeyStep(1)>>}}
Ways == {<< >>, <<KeyStep(1)>>, <<KeyStep(1), KeyStep(2)>>, <<KeyStep(2), IndexStep(1)>>, <<IndexStep(0)>>}

Ones(S) == {<<x>> : x \in S}
Likewise(fns, S) == [fn \in fns |-> S]
AnArray == Arrays(2) \cup NoArrays
APlain == Plain(3) \cup NoArrays

MCDynamic ==
  Likewise({"array_length", "array_reverse", "array_sum"}, Ones(AnArray))
  @@ "array_concat" :> Shorts \X Shorts \X (Shorts \cup NoArrays)
  @@ "array_index_of" :> (Arrays(3) \X {Number(1), Nil} \X {-2, 0, 1} \X {-2, -1, 2} \X {1, 2})
  @@ "array_slice" :> APlain \X About \X About
  @@ Likewise({"array_shift_left", "array_shift_right"}, APlain \X About \X {Nil, Number(9)})
  @@ Likewise({"array_rotate_left", "array_rotate_right"}, APlain \X (-7 .. 7))
  @@ "array_split" :> APlain \X ({Number(i) : i \in About} \cup {Array(<<Number(i), Number(j)>>) : i, j \in About})
  @@ "array_iff" :> AnArray \X (Plain(2) \cup {Number(5)}) \X (Plain(2) \cup {Nil})
  @@ "zip" :> ((Shorts \X Shorts) \cup (Shorts \X Shorts \X Plain(2)))
  @@ "repeat" :> {Nil, Number(1)} \X (-1 .. 3)
  @@ "__gql_interleave" :> APlain \X Plain(3)
  @@ Likewise({"array_sort_asc", "array_sort_desc"},
              ((Arrays(3) \X Plain(0)) \cup (Shorts \X (Shorts \cup {Nil}) \X Plain(2)) \cup Ones(Arrays(3) \cup NoArrays)) \X BOOLEAN)
  @@ Likewise({"set_union", "set_intersect", "set_difference"}, (AnArray \X Shorts) \cup (Shorts \X Shorts \X Shorts))
  @@ "set_has_element" :> AnArray \X Scalars
  @@ "jaccard_index" :> AnArray \X Shorts
  @@ Likewise({"treepath", "bag_keys"}, Ones(Trees))
  @@ "extract_json" :> Ways \X Trees
  @@ "bag_has_key" :> Trees \X (Keys \cup {Path(<<KeyStep(2), IndexStep(1)>>)})
  @@ "bag_merge" :> Trees \X Bags({1, 3}, {Number(2)})
  @@ "bag_remove_keys" :> Trees \X {Array(<<j, k>>) : j \in Keys \cup {Number(1)}, k \in Keys}
  @@ "bag_set_key" :> Trees \X Keys \X {Nil, Number(7)}
  @@ "bag_zip" :> (Arrays(3) \cup {Nil}) \X (Plain(3) \cup {Number(1)})
  @@ "bag_pack" :> UNION {[1 .. k -> {<<1, Number(1)>>, <<1, Nil>>, <<2, Number(2)>>}] : k \in 0 .. 3}

------------------------------------------------------------------------------
Strings(S, k) == UNION {[1 .. n -> S] : n \in 0 .. k}
AB(k) == Strings({"a", "b"}, k)
WideTexts == Strings({"a", "e acute"}, 2)
Blanks == Strings({"a", "."}, 4)
CommandArgs == Strings({"a", " ", "\"", "\\"}, 2) \cup {<<"\\", "\\", "\"">>, <<"a", "\\", "\\">>}
URLs ==
  LET parts == {<< >>, <<"a">>}
  IN  [Scheme : parts, Host : parts \cup {<<"[", ":", "]">>}, Port : parts,
       Path : {<< >>, <<"/", ":", "@", "/">>}, Username : parts, Password : {<< >>, <<"a", ":">>, <<"@">>},
       Query : {<< >>, <<<<<<"a">>, <<"b", "=">>>>, <<<<"b">>, << >>>>>>}, Fragment : {<< >>, <<"#", "?">>, <<":", "/", "/">>}]
\* A directory right behind a drive without separator is a case of its own.
Paths ==
  {d \in [scheme : {<< >>, <<"a">>}, drive : {<< >>, <<"x", ":">>, <<"x", ":", "\\">>, <<"/">>},
          dirs : {<< >>, <<<<"a">>>>, <<<<"a">>, <<"b", ".", "h">>>>},
          file : {<< >>, <<"b">>, <<"b", ".">>, <<"b", ".", "h">>, <<"a", ".", "b", ".", "h">>}, stream : {<< >>, <<"h">>}] :
     d.drive = <<"x", ":">> => d.dirs = << >>}
IPs == {<<"1", ".", "1">>, <<"1", ".", "2">>, <<"1">>, <<"1", "1", ".", "1">>}
IPTexts == Strings({"1", "2", ".", "a"}, 5)

MCText ==
  "substring" :> (AB(3) \cup WideTexts) \X (-1 .. 4) \X (-2 .. 4)
  @@ "split" :> AB(4) \X AB(2) \X {-2, -1, 0, 2}
  @@ "indexof" :> (AB(3) \X AB(2) \X (-4 .. 4) \X {-2, -1, 0, 2} \X {-1, 1, 2})
                    \cup (WideTexts \X Strings({"a", "e acute"}, 1) \X (-1 .. 2) \X {-1, 2} \X {1, 2})
  @@ "countof" :> Strings({"a", "b"}, 5) \X AB(3)
  @@ Likewise({"has", "hasprefix", "hassuffix"}, Blanks \X Strings({"a", "."}, 2))
  @@ "has_any_index" :> Blanks \X {<<s, t>> : s, t \in Strings({"a", "."}, 1)}
  @@ "replace_string" :> AB(4) \X AB(2) \X {<<"X">>, <<"X", "X">>}
  @@ "replace_strings" :> AB(4) \X {<<s, t>> : s, t \in AB(2) \cup {NoText}} \X {<<<<"X">>, <<"Y">>>>, <<<<"X">>, NoText>>, <<<<"Y">>, <<"X">>>>}
  @@ Likewise({"trim_start", "trim_end", "trim"}, AB(5) \X AB(3))
  @@ "translate" :> AB(2) \X Strings({"X", "a"}, 2) \X AB(3)
  @@ "strrep" :> AB(2) \X (-1 .. 3) \X AB(1)
  @@ "strcat_delim" :> {<<".">>} \X Strings(AB(1) \cup {NoText}, 3)
  @@ "extract" :> Strings(AB(1), 2) \X (-1 .. 3)
  @@ "extract_all" :> Strings(Strings(AB(1), 2), 2) \X {<< >>, <<1>>, <<1, 0>>}
  @@ "parse_command_line" :> {<<CommandLine(args), args>> : args \in Strings(CommandArgs, 2)}
  @@ Likewise({"url_encode", "url_encode_component"}, Ones(Strings({"a", "%", "+", " ", "2"}, 4)))
  @@ "url_decode" :> Ones(Strings({"%", "+", "2", "5"}, 4))
  @@ "parse_url" :> {<<URL(u), u>> : u \in URLs}
  @@ "parse_path" :> {<<PathText(d), d>> : d \in Paths}
  @@ "has_ipv4" :> IPTexts \X IPs
  @@ "has_ipv4_prefix" :> IPTexts \X {<<"1", ".">>, <<"1", "1", ".">>, <<"1", ".", "1">>, << >>, <<".">>}

------------------------------------------------------------------------------
Dotted == {Address("dotted", n, p) : n \in 0 .. 2 ^ Width4 - 1, p \in {NoPrefix} \cup 0 .. Width4 + 1}
Bad == Address("malformed", 0, NoPrefix)
Six6 == {Address("hex", n, p) : n \in 0 .. 2 ^ Width6 - 1, p \in {NoPrefix, 0, 1, 3, 5, 6}}
          \cup {Address(w, n, p) : w \in {"dotted", "compatible"}, n \in {0, 2, 5}, p \in {NoPrefix, 0, 2, 4}} \cup {Bad}
Ranges == {Address("dotted", n, p) : n \in {1, 6}, p \in {NoPrefix, 0, 1, 2, 4}} \cup {Bad}

MCNet ==
  "parse_ipv4" :> Ones(Dotted \cup {Bad})
  @@ "ipv4_is_in_range" :> Dotted \X (Dotted \cup {Bad})
  @@ "ipv4_is_in_any_range" :> Dotted \X {<<r, q>> : r, q \in Ranges}
  @@ Likewise({"ipv4_compare", "ipv4_is_match"}, Dotted \X Dotted \X {-1, 0, 2, Width4})
  @@ "ipv4_netmask_suffix" :> Ones(Dotted)
  @@ Likewise({"format_ipv4_mask", "parse_ipv4_mask"}, (Dotted \cup {Bad}) \X (-1 .. Width4 + 1))
  @@ "ipv4_range_to_cidr_list" :> (0 .. 2 ^ Width4 - 1) \X (0 .. 2 ^ Width4 - 1)
  @@ "parse_ipv6_mask" :> Six6 \X (-1 .. Width6 + 1)
  @@ Likewise({"ipv6_compare", "ipv6_is_match"}, {Address("hex", n, p) : n \in {0, 9, 13, 31}, p \in {NoPrefix, 1, 4}} \X Six6 \X {-1, 2, Width6})
  @@ "ipv6_is_in_range" :> {Address("hex", n, NoPrefix) : n \in {0, 9, 13}} \X Six6
  @@ "ipv6_is_in_any_range" :> {Address("hex", 9, NoPrefix), Bad} \X {<<r, q>> : r, q \in Ranges}
  @@ "tohex" :> ((-8 .. 7) \X {TRUE} \X (-1 .. 5)) \cup ((-32 .. 31) \X {FALSE} \X (-1 .. 5))
================================================================================
