--------------------------------- MODULE Texts ---------------------------------
(***************************************************************************)
(* The functions on strings (func_string.go, and those of func_net.go that *)
(* take a text apart: command lines, URLs, paths, addresses in a text).  A *)
(* string is the sequence of its characters, of which there are letters,   *)
(* digits and whatever the function at hand gives a meaning to; substring  *)
(* and indexof count its bytes, of which a wide character has two.  A      *)
(* regular expression is a literal, the rest of RE2 being Go's.            *)
(***************************************************************************)
EXTENDS Integers, Sequences, FiniteSets, SequencesExt, FiniteSetsExt, Functions, TLC

CONSTANTS
  Octets,     \* numbers in an IPv4 address (4)
  MaxOctet,   \* the largest of them (255)
  MaxDigits,  \* digits in the text of one (3)
  NoText,
  Panic       \* the code slices beyond its bounds, and the process ends

ASSUME AddressAssumption == {Octets, MaxOctet, MaxDigits} \subseteq Nat \ {0}

Digits == ("0" :> 0) @@ ("1" :> 1) @@ ("2" :> 2)
IsDigit(c) == c \in DOMAIN Digits
IsTermByte(c) == IsDigit(c) \/ c \in {"a", "b", "h", "x"}

\* The positions, from 0, at which t stands in s, and Go's Index and LastIndex.
Occurrences(s, t) == {p \in 0 .. Len(s) - Len(t) : SubSeq(s, p + 1, p + Len(t)) = t}
OccursAfter(s, t, from) == {p \in Occurrences(s, t) : p >= from}
Before(s, p) == SubSeq(s, 1, p)
After(s, p) == SubSeq(s, p + 1, Len(s))

\* s up to the first t and from behind it, where there is one; or the last t.
CutAt(s, t, p) == <<Before(s, p), After(s, p + Len(t))>>
Holds(s, t) == Occurrences(s, t) # {}
Cut(s, t) == CutAt(s, t, Min(Occurrences(s, t)))
CutLast(s, t) == CutAt(s, t, Max(Occurrences(s, t)))

------------------------------------------------------------------------------
(* Taking and finding.                                                       *)

\* Go's strings are bytes in UTF-8; of the wide characters, e acute is in the runs.
Wide == "e acute" :> <<"c3", "a9">>
IsWide(c) == c \in DOMAIN Wide
Bytes(text) == FlattenSeq([i \in DOMAIN text |-> IF IsWide(text[i]) THEN Wide[text[i]] ELSE <<text[i]>>])

\* A negative length puts the end before the start.
Substring(text, start, length) ==
  LET s == Bytes(text)
      from == IF start < 0 THEN 0 ELSE start
      to == IF from + length > Len(s) THEN Len(s) ELSE from + length
  IN  IF from >= Len(s) THEN << >>
      ELSE IF to < from THEN Panic ELSE SubSeq(s, from + 1, to)

\* strings.Split; an empty delimiter cuts between any two characters.
SplitAll(s, delim) ==
  IF delim = << >> THEN [i \in DOMAIN s |-> <<s[i]>>]
  ELSE LET part[rest \in {After(s, p) : p \in 0 .. Len(s)}] ==
             IF Holds(rest, delim) THEN <<Cut(rest, delim)[1]>> \o part[Cut(rest, delim)[2]] ELSE <<rest>>
       IN  part[s]

\* With an index, the part there, and every part for -1.
Split(s, delim, index) ==
  LET parts == SplitAll(s, delim)
  IN  IF index = -1 THEN parts
      ELSE IF index \in 0 .. Len(parts) - 1 THEN <<parts[index + 1]>> ELSE NoText


\* length bounds where a match may start, and each further occurrence is
\* searched for from just after the one before.  Past the end it is a panic.
IndexOf(text, lookup, start, length, occ) ==
  LET s == Bytes(text)
      t == Bytes(lookup)
      from == IF start < 0 THEN Max({start + Len(s), 0}) ELSE start
      times == IF occ = 0 THEN 1 ELSE occ
      next(pos) == {p \in OccursAfter(s, t, pos) : length >= 0 => p - pos < length}
      step(pos, k) == IF pos = -2 \/ pos > Len(s) THEN -2
                      ELSE IF pos = -1 \/ next(pos) = {} THEN -1
                      ELSE IF k = times THEN Min(next(pos)) ELSE Min(next(pos)) + 1
      found == FoldLeft(step, from, [k \in 1 .. times |-> k])
  IN  IF length < -1 \/ occ < 0 THEN NoText
      ELSE IF from > Len(s) THEN -1
      ELSE IF found = -2 THEN Panic ELSE found

\* strings.Count: occurrences that do not overlap, and one more than the characters for "".
CountOf(s, t) == IF t = << >> THEN Len(s) + 1 ELSE Len(SplitAll(s, t)) - 1

\* A term is bounded by what is neither letter nor digit; the empty one is never there.
StartsTerm(s, p) == p = 0 \/ ~IsTermByte(s[p])
EndsTerm(s, p) == p = Len(s) \/ ~IsTermByte(s[p + 1])
HasTerm(s, t) == t # << >> /\ \E p \in Occurrences(s, t) : StartsTerm(s, p) /\ EndsTerm(s, p + Len(t))
HasTermPrefix(s, t) == t # << >> /\ \E p \in Occurrences(s, t) : StartsTerm(s, p)
HasTermSuffix(s, t) == t # << >> /\ \E p \in Occurrences(s, t) : EndsTerm(s, p + Len(t))

HasAnyIndex(s, terms) ==
  LET hits == {i \in DOMAIN terms : HasTerm(s, terms[i])}
  IN  IF hits = {} THEN -1 ELSE Min(hits) - 1

------------------------------------------------------------------------------
(* Changing and joining.                                                     *)

Join(parts, delim) ==
  FlattenSeq([i \in DOMAIN parts |-> IF i = 1 THEN parts[i] ELSE delim \o parts[i]])

ReplaceString(s, lookup, rewrite) ==
  IF lookup = << >>
  THEN rewrite \o FlattenSeq([i \in DOMAIN s |-> <<s[i]>> \o rewrite])
  ELSE Join(SplitAll(s, lookup), rewrite)

\* A stretch of the text: one a lookup has matched is out of the later ones' reach.
Segment(text, protected) == [text |-> text, protected |-> protected]

\* The lookups in turn, each over what those before it have left; one that is
\* no string (NoText) is skipped, a rewrite that is none keeps what it stands for.
ReplaceStringsSequential(s, lookups, rewrites) ==
  LET pieces(seg, lookup, new) ==
        LET parts == SplitAll(seg.text, lookup)
            open(i) == IF parts[i] = << >> THEN << >> ELSE <<Segment(parts[i], FALSE)>>
        IN  FlattenSeq([i \in DOMAIN parts |->
                          (IF i = 1 THEN << >> ELSE <<Segment(new, TRUE)>>) \o open(i)])
      pass(segs, i) ==
        LET lookup == lookups[i]
            new == IF i \in DOMAIN rewrites /\ rewrites[i] # NoText THEN rewrites[i] ELSE lookup
        IN  IF lookup \in {NoText, << >>} THEN segs
            ELSE FlattenSeq([k \in DOMAIN segs |-> IF segs[k].protected THEN <<segs[k]>> ELSE pieces(segs[k], lookup, new)])
      done == FoldLeft(pass, <<Segment(s, FALSE)>>, [i \in DOMAIN lookups |-> i])
  IN  FlattenSeq([k \in DOMAIN done |-> done[k].text])

\* Repetitions of w at the start or the end; trim takes the start first.
TrimStart(s, w) ==
  LET times == {k \in 0 .. Len(s) : k * Len(w) <= Len(s) /\ \A i \in 1 .. k * Len(w) : s[i] = w[((i - 1) % Len(w)) + 1]}
  IN  After(s, Max(times) * Len(w))
TrimEnd(s, w) == Reverse(TrimStart(Reverse(s), Reverse(w)))
Trim(s, w) == TrimEnd(TrimStart(s, w), w)

\* The first of a character's places in the search list counts; without a
\* replacement the character goes.
Translate(search, replacement, s) ==
  LET place(c) == Min({i \in DOMAIN search : search[i] = c})
      new(c) == IF c \notin Range(search) THEN <<c>>
                ELSE IF place(c) \in DOMAIN replacement THEN <<replacement[place(c)]>> ELSE << >>
  IN  FlattenSeq([i \in DOMAIN s |-> new(s[i])])

StrRep(s, n, delim) == IF n <= 0 THEN << >> ELSE Join([i \in 1 .. n |-> s], delim)

\* Nulls and empty strings have no delimiter of their own.
StrcatDelim(delim, args) == Join(SelectSeq(args, LAMBDA a : a \notin {NoText, << >>}), delim)

\* Of every match of the expression (its groups, the whole match first), the
\* groups selected; a group that took no part is the empty string.
Extract(match, group) == IF group >= 0 /\ group < Len(match) THEN match[group + 1] ELSE NoText
ExtractAll(matches, groups) ==
  LET text(m, g) == IF g < Len(m) THEN m[g + 1] ELSE << >>
  IN  IF groups = << >> \/ matches = << >> THEN NoText
      ELSE IF Len(groups) = 1 THEN [k \in DOMAIN matches |-> text(matches[k], groups[1])]
      ELSE [k \in DOMAIN matches |-> [j \in DOMAIN groups |-> text(matches[k], groups[j])]]

------------------------------------------------------------------------------
(* Command lines, by the rules of CommandLineToArgvW.                        *)

Backslashes(n) == [i \in 1 .. n |-> "\\"]

\* Reading: the arguments so far, the one being read (open), whether within
\* quotes, and the backslashes not yet accounted for.
ReadChar(r, c) ==
  LET literal == r.cur \o Backslashes(r.slashes)
  IN  CASE c = "\\" -> [r EXCEPT !.slashes = @ + 1, !.open = TRUE]
        [] c = "\"" /\ r.slashes % 2 = 1 ->
             [r EXCEPT !.cur = @ \o Backslashes(r.slashes \div 2) \o <<c>>, !.slashes = 0, !.open = TRUE]
        [] c = "\"" /\ r.slashes % 2 = 0 ->
             [r EXCEPT !.cur = @ \o Backslashes(r.slashes \div 2), !.slashes = 0, !.open = TRUE, !.quoted = ~@]
        [] c = " " /\ ~r.quoted ->
             [r EXCEPT !.args = IF r.open THEN Append(@, literal) ELSE @,
                       !.cur = << >>, !.slashes = 0, !.open = FALSE]
        [] OTHER -> [r EXCEPT !.cur = Append(literal, c), !.slashes = 0, !.open = TRUE]

ParseWindowsCommandLine(s) ==
  LET start == [args |-> << >>, cur |-> << >>, open |-> FALSE, quoted |-> FALSE, slashes |-> 0]
      end == FoldLeft(ReadChar, start, s)
  IN  IF end.open THEN Append(end.args, end.cur \o Backslashes(end.slashes)) ELSE end.args

------------------------------------------------------------------------------
(* URLs and paths.                                                           *)

\* The escape of a character that is none of letters, digits and - _ . ! * ( ).
Escapes == ("%" :> <<"2", "5">>) @@ ("+" :> <<"2", "b">>) @@ (" " :> <<"2", "0">>) @@ ("\"" :> <<"2", "2">>)

\* The hex digits of every character the texts of the runs can name.
Codes == Escapes @@ ("R" :> <<"5", "2">>) @@ ("U" :> <<"5", "5">>)

UrlEncode(s, spaceAsPlus) ==
  LET one(c) == IF c \notin DOMAIN Escapes THEN <<c>>
                ELSE IF c = " " /\ spaceAsPlus THEN <<"+">> ELSE <<"%">> \o Escapes[c]
  IN  FlattenSeq([i \in DOMAIN s |-> one(s[i])])

\* A malformed escape is kept as written.
UrlDecode(s) ==
  LET named(i) == {c \in DOMAIN Codes : i + 2 <= Len(s) /\ s[i] = "%" /\ SubSeq(s, i + 1, i + 2) = Codes[c]}
      one(r, i) == IF i < r.next THEN r
                   ELSE IF named(i) # {} THEN [next |-> i + 3, text |-> Append(r.text, CHOOSE c \in named(i) : TRUE)]
                   ELSE [next |-> i + 1, text |-> Append(r.text, IF s[i] = "+" THEN " " ELSE s[i])]
  IN  FoldLeft(one, [next |-> 1, text |-> << >>], [i \in DOMAIN s |-> i]).text

\* The pairs of a query; a key's first value stays.
UrlQueryBag(q) ==
  LET pairs == SelectSeq(SplitAll(q, <<"&">>), LAMBDA p : p # << >>)
      both(p) == IF Holds(p, <<"=">>) THEN Cut(p, <<"=">>) ELSE <<p, << >>>>
      add(acc, p) == IF \E i \in DOMAIN acc : acc[i][1] = both(p)[1] THEN acc ELSE Append(acc, both(p))
  IN  FoldLeft(add, << >>, pairs)

\* Part by part: what t separates off behind (or, with it, before) the rest.
Behind(s, t) == IF Holds(s, t) THEN Cut(s, t)[2] ELSE << >>
Ahead(s, t) == IF Holds(s, t) THEN Cut(s, t)[1] ELSE s

ParseURL(s) ==
  LET noFragment == Ahead(s, <<"#">>)
      noQuery == Ahead(noFragment, <<"?">>)
      sep == <<":", "/", "/">>
      noScheme == IF Holds(noQuery, sep) THEN Cut(noQuery, sep)[2] ELSE noQuery
      authority == Ahead(noScheme, <<"/">>)
      login == IF Holds(authority, <<"@">>) THEN CutLast(authority, <<"@">>) ELSE <<<< >>, authority>>
      portless == IF Holds(login[2], <<":">>) /\ Last(login[2]) # "]" THEN CutLast(login[2], <<":">>) ELSE <<login[2], << >>>>
  IN  [Scheme |-> IF Holds(noQuery, sep) THEN Cut(noQuery, sep)[1] ELSE << >>,
       Host |-> portless[1], Port |-> portless[2],
       Path |-> After(noScheme, Len(authority)),
       Username |-> Ahead(login[1], <<":">>), Password |-> Behind(login[1], <<":">>),
       Query |-> UrlQueryBag(Behind(noFragment, <<"?">>)), Fragment |-> Behind(s, <<"#">>)]

IsSeparator(c) == c \in {"/", "\\"}
LastSeparator(p) == LET at == {i \in DOMAIN p : IsSeparator(p[i])} IN IF at = {} THEN 0 ELSE Max(at)

\* x names the drive of the paths.
ParsePath(s) ==
  LET sep == <<":", "/", "/">>
      schemed == Holds(s, sep) /\ Cut(s, sep)[1] # << >>
                   /\ \A c \in Range(Cut(s, sep)[1]) : c \notin {"/", "\\", ":", "."}
      p == IF schemed THEN Cut(s, sep)[2] ELSE s
      drive == IF IsPrefix(<<"x", ":">>, p) THEN <<"x", ":">> ELSE << >>
      root == IF drive # << >> /\ Len(p) > 2 /\ IsSeparator(p[3]) THEN SubSeq(p, 1, 3) ELSE drive
      cut == LastSeparator(p)
      dir == IF p = root \/ cut = 0 THEN << >> ELSE Before(p, cut - 1)
      name == IF p = root THEN << >> ELSE After(p, IF cut > 0 THEN cut ELSE Len(drive))
      last == After(dir, LastSeparator(dir))
      file == Ahead(name, <<":">>)
  IN  [Scheme |-> IF schemed THEN Cut(s, sep)[1] ELSE << >>, RootPath |-> root,
       DirectoryPath |-> dir, DirectoryName |-> IF last = drive THEN << >> ELSE last,
       Filename |-> file, AlternateDataStreamName |-> Behind(name, <<":">>),
       Extension |-> IF Holds(file, <<".">>) THEN CutLast(file, <<".">>)[2] ELSE << >>]

------------------------------------------------------------------------------
(* Addresses in a text.                                                      *)

Decimal(digits) == FoldLeft(LAMBDA n, d : 10 * n + Digits[d], 0, digits)
IsOctet(p) ==
  p # << >> /\ Len(p) <= MaxDigits /\ (\A c \in Range(p) : IsDigit(c)) /\ Decimal(p) <= MaxOctet

\* net.ParseIP's IPv4, but for leading zeros, which no text of the runs has.
IsIPv4(s) ==
  LET parts == SplitAll(s, <<".">>)
  IN  Len(parts) = Octets /\ \A i \in DOMAIN parts : IsOctet(parts[i])

IPv4ProperlyDelimited(s, p, length) == StartsTerm(s, p) /\ EndsTerm(s, p + length)

HasIPv4Delimited(s, ip) ==
  IsIPv4(ip) /\ \E p \in Occurrences(s, ip) : IPv4ProperlyDelimited(s, p, Len(ip))

\* An address, or fewer octets than one has, each with its dot.
IsValidIPv4Prefix(s) ==
  IF s = << >> \/ Last(s) # "." THEN IsIPv4(s)
  ELSE LET parts == SplitAll(Front(s), <<".">>)
       IN  /\ Len(parts) \in 1 .. Octets - 1
           /\ \A i \in DOMAIN parts : /\ parts[i] # << >>
                                      /\ \A c \in Range(parts[i]) : IsDigit(c)
                                      /\ Decimal(parts[i]) <= MaxOctet

\* A whole address stands at p, no letter or digit behind it.
CompleteIPv4At(s, p) ==
  LET octet(r, k) ==
        LET from == IF k = 1 THEN r ELSE r + 1
            digits == {q \in from .. Len(s) : q - from <= MaxDigits + 1 /\ \A i \in from + 1 .. q : IsDigit(s[i])}
        IN  IF r < 0 \/ (k > 1 /\ (r >= Len(s) \/ s[r + 1] # ".")) THEN -1
            ELSE IF IsOctet(SubSeq(s, from + 1, Max(digits))) THEN Max(digits) ELSE -1
      end == FoldLeft(octet, p, [k \in 1 .. Octets |-> k])
  IN  end >= 0 /\ EndsTerm(s, end)

HasIPv4PrefixDelimited(s, prefix) ==
  IsValidIPv4Prefix(prefix) /\ \E p \in Occurrences(s, prefix) : StartsTerm(s, p) /\ CompleteIPv4At(s, p)

------------------------------------------------------------------------------
CallText(c) ==
  LET a == c.args
  IN  CASE c.fn = "substring" -> Substring(a[1], a[2], a[3])
        [] c.fn = "split" -> Split(a[1], a[2], a[3])
        [] c.fn = "indexof" -> IndexOf(a[1], a[2], a[3], a[4], a[5])
        [] c.fn = "countof" -> CountOf(a[1], a[2])
        [] c.fn = "has" -> HasTerm(a[1], a[2])
        [] c.fn = "hasprefix" -> HasTermPrefix(a[1], a[2])
        [] c.fn = "hassuffix" -> HasTermSuffix(a[1], a[2])
        [] c.fn = "has_any_index" -> HasAnyIndex(a[1], a[2])
        [] c.fn = "replace_string" -> ReplaceString(a[1], a[2], a[3])
        [] c.fn = "replace_strings" -> ReplaceStringsSequential(a[1], a[2], a[3])
        [] c.fn = "trim_start" -> TrimStart(a[1], a[2])
        [] c.fn = "trim_end" -> TrimEnd(a[1], a[2])
        [] c.fn = "trim" -> Trim(a[1], a[2])
        [] c.fn = "translate" -> Translate(a[1], a[2], a[3])
        [] c.fn = "strrep" -> StrRep(a[1], a[2], a[3])
        [] c.fn = "strcat_delim" -> StrcatDelim(a[1], a[2])
        [] c.fn = "extract" -> Extract(a[1], a[2])
        [] c.fn = "extract_all" -> ExtractAll(a[1], a[2])
        [] c.fn = "parse_command_line" -> ParseWindowsCommandLine(a[1])
        [] c.fn = "url_encode" -> UrlEncode(a[1], TRUE)
        [] c.fn = "url_encode_component" -> UrlEncode(a[1], FALSE)
        [] c.fn = "url_decode" -> UrlDecode(a[1])
        [] c.fn = "parse_url" -> ParseURL(a[1])
        [] c.fn = "parse_path" -> ParsePath(a[1])
        [] c.fn = "has_ipv4" -> HasIPv4Delimited(a[1], a[2])
        [] c.fn = "has_ipv4_prefix" -> HasIPv4PrefixDelimited(a[1], a[2])

------------------------------------------------------------------------------
(* What they promise.                                                        *)

\* The texts s is made of: what stands before, the middle, and what behind.
Splits(s) == {<<Before(s, p), SubSeq(s, p + 1, q), After(s, q)>> : p \in 0 .. Len(s), q \in 0 .. Len(s)}
Apart(before, after) ==
  /\ before = << >> \/ ~IsTermByte(Last(before))
  /\ after = << >> \/ ~IsTermByte(Head(after))
Startable(before) == before = << >> \/ ~IsTermByte(Last(before))
Endable(after) == after = << >> \/ ~IsTermByte(Head(after))

\* Where what is left of s starts with t.
Starts(s, t) == {p \in 0 .. Len(s) : IsPrefix(t, After(s, p))}

\* The occ-th occurrence after start, none of them further than length from
\* where the search for it begins; -1 where there is none.
IndexAsPromised(s, t, start, length, occ, answer) ==
  LET from == IF start >= 0 THEN start ELSE Max({Len(s) + start, 0})
      there == SetToSortSeq({p \in Starts(s, t) : p >= from}, <)
      nth == Max({occ, 1})
      near(k) == length >= 0 => there[k] - (IF k = 1 THEN from ELSE there[k - 1] + 1) < length
  IN  IF length < -1 \/ occ < 0 THEN answer = NoText
      ELSE answer = IF nth <= Len(there) /\ \A k \in 1 .. nth : near(k) THEN there[nth] ELSE -1

\* Every character in its place, an escape for the one it names and + for a space.
DecodedAsPromised(s, answer) ==
  LET names(i) == {c \in DOMAIN Codes : IsPrefix(<<"%">> \o Codes[c], After(s, i - 1))}
      escapes == {i \in DOMAIN s : names(i) # {}}
      before(i) == Cardinality({e \in escapes : e < i})
  IN  /\ Len(answer) = Len(s) - 2 * Cardinality(escapes)
      /\ \A i \in DOMAIN s \ UNION {{e + 1, e + 2} : e \in escapes} :
           LET c == answer[i - 2 * before(i)]
           IN  IF i \in escapes THEN c \in names(i) ELSE c = (IF s[i] = "+" THEN " " ELSE s[i])

\* With rewrites that are new to the text (capitals), what was replaced can be
\* read back, and no lookup is left in a stretch between them.
ReplacementsAsPromised(s, lookups, rewrites, answer) ==
  LET used == {i \in DOMAIN lookups : lookups[i] \notin {NoText, << >>}}
      mark(i) == IF rewrites[i] = NoText THEN lookups[i] ELSE rewrites[i]
      back == FlattenSeq([k \in DOMAIN answer |->
                            LET by == {i \in used : <<answer[k]>> = rewrites[i]}
                            IN  IF by = {} THEN <<answer[k]>> ELSE lookups[CHOOSE i \in by : TRUE]])
      last == Max(used)
  IN  /\ back = s
      /\ used # {} => \E i \in used : i = last /\ (rewrites[i] # NoText => ~Holds(answer, lookups[i]))

\* An argument as a caller quotes it: doubled backslashes before a quote and the
\* end, and a backslash for each quote.
Quoted(arg) ==
  LET one(r, c) == IF c = "\\" THEN [r EXCEPT !.slashes = @ + 1]
                   ELSE [text |-> r.text \o Backslashes(IF c = "\"" THEN 2 * r.slashes + 1 ELSE r.slashes) \o <<c>>,
                         slashes |-> 0]
      all == FoldLeft(one, [text |-> <<"\"">>, slashes |-> 0], arg)
  IN  all.text \o Backslashes(2 * all.slashes) \o <<"\"">>
CommandLine(args) == Join([i \in DOMAIN args |-> Quoted(args[i])], <<" ">>)

Mark(sep, part) == IF part = << >> THEN << >> ELSE sep \o part
Closed(part, sep) == IF part = << >> THEN << >> ELSE part \o sep

QueryText(q) == Join([i \in DOMAIN q |-> q[i][1] \o Mark(<<"=">>, q[i][2])], <<"&">>)
URL(u) ==
  Closed(u.Scheme, <<":", "/", "/">>)
    \o Closed(u.Username \o Mark(<<":">>, u.Password), <<"@">>)
    \o u.Host \o Mark(<<":">>, u.Port) \o u.Path
    \o Mark(<<"?">>, QueryText(u.Query)) \o Mark(<<"#">>, u.Fragment)

\* A path: its drive (or the root), its directories, and a file and its stream.
PathText(d) ==
  Closed(d.scheme, <<":", "/", "/">>) \o d.drive
    \o FlattenSeq([i \in DOMAIN d.dirs |-> d.dirs[i] \o <<"\\">>]) \o d.file \o Mark(<<":">>, d.stream)
PathAsPromised(d, answer) ==
  LET empty == d.dirs \o d.file \o d.stream = << >>
  IN  /\ answer.Scheme = d.scheme
      /\ answer.RootPath = IF d.drive = <<"/">> THEN << >> ELSE d.drive
      /\ answer.Filename = d.file /\ answer.AlternateDataStreamName = d.stream
      /\ "." \notin Range(d.file) => answer.Extension = << >>
      /\ "." \in Range(d.file) => /\ IsSuffix(<<".">> \o answer.Extension, d.file)
                                  /\ "." \notin Range(answer.Extension)
      /\ answer.DirectoryName = IF d.dirs = << >> THEN << >> ELSE Last(d.dirs)
      /\ answer.DirectoryPath = IF d.dirs # << >> THEN d.drive \o Join(d.dirs, <<"\\">>)
                                ELSE IF empty \/ d.drive \in {<< >>, <<"x", ":">>} THEN << >>
                                ELSE Front(d.drive)

\* The texts a whole address is, properly bounded in s, and the address.
AddressesIn(s) == {x \in Splits(s) : IsIPv4(x[2]) /\ Startable(x[1]) /\ Endable(x[3])}

TextAsPromised(c, answer) ==
  LET a == c.args
      s == a[1]
      terms(t) == {x \in Splits(s) : x[2] = t /\ t # << >>}
      stripped(w, front, back) ==
        /\ w # << >> => (front => ~IsPrefix(w, answer)) /\ (back => ~IsSuffix(w, answer))
        /\ \E j, k \in 0 .. Len(s) :
             /\ (j = 0 \/ front) /\ (k = 0 \/ back)
             /\ s = StrRep(w, j, << >>) \o answer \o StrRep(w, k, << >>)
  IN  CASE c.fn = "substring" ->
             LET taken == {i \in DOMAIN s : i > a[2] /\ i <= Max({a[2], 0}) + a[3]}
             IN  answer = [i \in 1 .. Cardinality(taken) |-> s[Min(taken) + i - 1]]
        [] c.fn = "split" ->
             IF a[3] # -1 THEN answer = LET all == Split(s, a[2], -1) IN
                                        IF a[3] \in 0 .. Len(all) - 1 THEN <<all[a[3] + 1]>> ELSE NoText
             ELSE /\ Join(answer, a[2]) = s
                  /\ \A i \in DOMAIN answer : IF a[2] = << >> THEN Len(answer[i]) = 1 ELSE ~Holds(answer[i], a[2])
        [] c.fn = "indexof" -> IndexAsPromised(s, a[2], a[3], a[4], a[5], answer)
        \* matches can overlap (docs/reference/functions.md)
        [] c.fn = "countof" -> answer = Cardinality(Starts(s, a[2]))
        [] c.fn = "has" -> answer = (\E x \in terms(a[2]) : Startable(x[1]) /\ Endable(x[3]))
        [] c.fn = "hasprefix" -> answer = (\E x \in terms(a[2]) : Startable(x[1]))
        [] c.fn = "hassuffix" -> answer = (\E x \in terms(a[2]) : Endable(x[3]))
        [] c.fn = "has_any_index" ->
             /\ answer >= 0 => HasTerm(s, a[2][answer + 1])
             /\ \A i \in DOMAIN a[2] : HasTerm(s, a[2][i]) => answer \in 0 .. i - 1
        [] c.fn = "replace_string" ->
             /\ Join(SplitAll(answer, a[3]), a[2]) = s
             /\ IF a[2] # << >> THEN ~Holds(answer, a[2]) ELSE CountOf(answer, a[3]) = Len(s) + 1
        [] c.fn = "replace_strings" -> ReplacementsAsPromised(s, a[2], a[3], answer)
        [] c.fn = "trim_start" -> stripped(a[2], TRUE, FALSE)
        [] c.fn = "trim_end" -> stripped(a[2], FALSE, TRUE)
        [] c.fn = "trim" -> stripped(a[2], TRUE, TRUE)
        [] c.fn = "strrep" ->
             LET n == Max({a[2], 0})
                 stride == Len(s) + Len(a[3])
             IN  /\ Len(answer) = IF n = 0 THEN 0 ELSE n * stride - Len(a[3])
                 /\ \A k \in 0 .. n - 1 : IsPrefix(s, After(answer, k * stride))
                 /\ \A k \in 1 .. n - 1 : IsSuffix(a[3], Before(answer, k * stride))
        [] c.fn = "strcat_delim" -> SelectSeq(SplitAll(answer, s), LAMBDA x : x # << >>) = SelectSeq(a[2], LAMBDA x : x \notin {NoText, << >>})
        [] c.fn = "translate" ->
             /\ Len(answer) = Cardinality({i \in DOMAIN a[3] : a[3][i] \in Range(s) => Cardinality({j \in DOMAIN s : \A k \in 1 .. j : s[k] # a[3][i]}) < Len(a[2])})
             /\ Range(answer) \cap Range(s) \subseteq Range(a[2])
        \* of the first match a group there is; of every match what extract takes from it
        [] c.fn = "extract" -> IF a[2] + 1 \in DOMAIN s THEN answer = s[a[2] + 1] ELSE answer = NoText
        [] c.fn = "extract_all" ->
             LET group(m, g) == IF Extract(m, g) = NoText THEN << >> ELSE Extract(m, g)
             IN  IF s = << >> \/ a[2] = << >> THEN answer = NoText
                 ELSE /\ Len(answer) = Len(s)
                      /\ \A k \in DOMAIN s : \A j \in DOMAIN a[2] :
                           group(s[k], a[2][j]) = IF Len(a[2]) = 1 THEN answer[k] ELSE answer[k][j]
        [] c.fn = "parse_command_line" -> answer = a[2]
        [] c.fn = "url_decode" -> DecodedAsPromised(s, answer)
        [] c.fn \in {"url_encode", "url_encode_component"} -> UrlDecode(answer) = s /\ " " \notin Range(answer)
        [] c.fn = "parse_url" -> answer = a[2]
        [] c.fn = "parse_path" -> PathAsPromised(a[2], answer)
        [] c.fn = "has_ipv4" -> answer = (\E x \in AddressesIn(s) : x[2] = a[2])
        [] c.fn = "has_ipv4_prefix" ->
             answer = (IsValidIPv4Prefix(a[2]) /\ \E x \in AddressesIn(s) : IsPrefix(a[2], x[2]))

\* Where the code breaks its promise: a count of matches that overlap, a negative
\* length, a search for "" that runs past the end.  The last two are panics.
Departs(c) ==
  LET a == c.args
      n == Len(Bytes(a[1]))
      from == IF a[3] >= 0 THEN a[3] ELSE Max({n + a[3], 0})
  IN  \/ c.fn = "countof" /\ \E p, q \in Occurrences(a[1], a[2]) : p < q /\ q < p + Len(a[2])
      \/ c.fn = "substring" /\ a[3] < 0 /\ Max({a[2], 0}) < n
      \/ c.fn = "indexof" /\ a[2] = << >> /\ a[4] \notin {-2, 0} /\ a[5] >= 0 /\ from \in n + 2 - Max({a[5], 1}) .. n

\* Where it may: the offsets are of bytes, and a wide character stands before the
\* end asked for, or not behind what was found.
OffByBytes(c, answer) ==
  LET a == c.args
  IN  /\ c.fn \in {"substring", "indexof"}
      /\ \E i \in DOMAIN a[1] :
           /\ IsWide(a[1][i])
           /\ IF c.fn = "substring" THEN i <= Max({a[2], 0}) + a[3] ELSE a[3] < 0 \/ answer \notin 0 .. i - 1
================================================================================
