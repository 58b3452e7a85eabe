----------------------------- MODULE Detectors -----------------------------
(***************************************************************************)
(* rules/detectors and rules/validators.rs: the algorithms of the builtin  *)
(* rules.  A text is a sequence of bytes, one-character strings; any other *)
(* string stands for a byte outside ASCII.  A result is a span <<first,    *)
(* last>> of the text.  Lengths the formats fix are constants where a      *)
(* small instance should reach them.                                       *)
(***************************************************************************)
EXTENDS Integers, FiniteSets, Sequences, SequencesExt

CONSTANTS MinCard, MaxCard,              \* 13 and 19 digits
          MaxLocal, MaxLabel, MaxDomain, \* 64, 63 and 253 bytes
          MinDial, MaxDial,              \* 7 and 15 digits
          PhoneIsValid(_)                \* external: rlibphonenumber

ASSUME DetectorsAssumption ==
  {MinCard, MaxCard, MaxLocal, MaxLabel, MaxDomain, MinDial, MaxDial} \subseteq Nat \ {0}

Numerals == <<"0", "1", "2", "3", "4", "5", "6", "7", "8", "9">>
Digits == ToSet(Numerals)
Letters == <<"A", "B", "C", "D", "E", "F", "G", "H", "I", "J", "K", "L", "M",
             "N", "O", "P", "Q", "R", "S", "T", "U", "V", "W", "X", "Y", "Z">>
Uppers == ToSet(Letters)
Lowers == {"a", "b", "c", "d", "e", "f", "g", "h", "i", "j", "k", "l", "m",
           "n", "o", "p", "q", "r", "s", "t", "u", "v", "w", "x", "y", "z"}
Alphabetic == Uppers \cup Lowers
Alphanumeric == Alphabetic \cup Digits
WordBytes == Alphanumeric \cup {"_"}

\* EMAIL_LOCAL_CHAR; the grave accent has no string of its own here.
LocalBytes == WordBytes \cup {".", "!", "#", "$", "%", "&", "'", "*", "+", "/", "=", "?", "^",
                              "grave", "{", "|", "}", "~", "-"}

Value(byte) == IF byte \in Digits THEN (CHOOSE i \in DOMAIN Numerals : Numerals[i] = byte) - 1
               ELSE 9 + CHOOSE i \in DOMAIN Letters : Letters[i] = byte

\* Whether the text has a byte of the set at i; bytes.get(i) and the tests i > 0.
At(text, i, bytes) == i \in DOMAIN text /\ text[i] \in bytes

\* The bytes of the text that are in the set.
Kept(text, bytes) ==
  LET kept[i \in 0..Len(text)] ==
        IF i = 0 THEN << >>
        ELSE IF text[i] \in bytes THEN Append(kept[i - 1], text[i]) ELSE kept[i - 1]
  IN  kept[Len(text)]

\* The sum of the terms from 1 to n.
Total(n, term) ==
  LET sum[k \in 0..n] == IF k = 0 THEN 0 ELSE sum[k - 1] + term[k]
  IN  sum[n]

---------------------------------------------------------------------------
(* validators.rs                                                           *)

LuhnDouble == <<0, 2, 4, 6, 8, 1, 3, 5, 7, 9>>

\* A definition whose name starts with Mut is a deliberately wrong variant of the one
\* that follows it, used nowhere.
MutLuhn(s) ==
  LET digits == Kept(s, Digits)
      n == Len(digits)
      term == [k \in 1..n |-> LET v == Value(digits[k])
                              IN  IF k % 2 = 0 THEN LuhnDouble[v + 1] ELSE v]
  IN  n \in MinCard..MaxCard /\ Total(n, term) % 10 = 0
Luhn(s) ==
  LET digits == Kept(s, Digits)
      n == Len(digits)
      term == [k \in 1..n |-> LET v == Value(digits[n + 1 - k])
                              IN  IF k % 2 = 0 THEN LuhnDouble[v + 1] ELSE v]
  IN  n \in MinCard..MaxCard /\ Total(n, term) % 10 = 0

\* str::parse::<u16>, which takes a sign; no value when it fails.
Number(s) ==
  LET digits == IF Len(s) > 1 /\ s[1] = "+" THEN Tail(s) ELSE s
      read[i \in 0..Len(digits)] == IF i = 0 THEN 0 ELSE 10 * read[i - 1] + Value(digits[i])
  IN  IF ToSet(digits) \subseteq Digits THEN {read[Len(digits)]} ELSE {}

SsnIsValid(s) ==
  /\ Len(s) = 11
  /\ s[4] \in {"-", " ", "."}
  /\ s[7] = s[4]
  /\ \E area \in Number(SubSeq(s, 1, 3)), group \in Number(SubSeq(s, 5, 6)),
        serial \in Number(SubSeq(s, 8, 11)) :
       area \notin {0, 666} /\ area < 900 /\ group # 0 /\ serial # 0

\* The last byte of the label that starts at i: before the next dot.
LabelEnd(s, i) == CHOOSE e \in (i - 1)..Len(s) :
                    /\ ~\E k \in i..e : s[k] = "."
                    /\ e = Len(s) \/ s[e + 1] = "."

LabelIsValid(s, i, e) == /\ e - i + 1 \in 1..MaxLabel
                         /\ s[i] # "-" /\ s[e] # "-"
                         /\ \A k \in i..e : s[k] \in Alphanumeric \cup {"-"}

EmailIsValid(s) ==
  LET ats == {i \in DOMAIN s : s[i] = "@"}
      at == CHOOSE i \in ats : TRUE
      starts == {at + 1} \cup {i + 1 : i \in {k \in (at + 1)..Len(s) : s[k] = "."}}
      last == CHOOSE i \in starts : \A k \in starts : k <= i
  IN  /\ Cardinality(ats) = 1
      /\ at - 1 \in 1..MaxLocal
      /\ s[1] # "." /\ s[at - 1] # "."
      /\ ~\E i \in 1..(at - 2) : s[i] = "." /\ s[i + 1] = "."
      /\ \A i \in 1..(at - 1) : s[i] \in LocalBytes
      /\ Len(s) - at \in 1..MaxDomain
      /\ \A i \in starts : LabelIsValid(s, i, LabelEnd(s, i))
      /\ Cardinality(starts) >= 2
      /\ last < Len(s)
      /\ \A k \in last..Len(s) : s[k] \in Alphabetic

IbanIsValid(s) ==
  LET compact == Kept(s, Alphanumeric)
      n == Len(compact)
      moved == SubSeq(compact, 5, n) \o SubSeq(compact, 1, 4)
      rest[i \in 0..n] ==
        IF i = 0 THEN 0
        ELSE (rest[i - 1] * (IF moved[i] \in Digits THEN 10 ELSE 100) + Value(moved[i])) % 97
  IN  /\ n >= 15
      /\ ToSet(compact) \cap Lowers = {}
      /\ rest[n] = 1

---------------------------------------------------------------------------
(* detectors/credit_card.rs and ssn.rs                                     *)

\* How many of the bytes from i to j are in the set.
Counted(text, i, j, bytes) == Cardinality({k \in i..j : text[k] \in bytes})

MutCardRun(text, start) ==
  LET count(j) == Counted(text, start, j - 1, Digits)
      goes(j) == /\ count(j) < MaxCard
                 /\ \/ At(text, j, Digits)
                    \/ count(j) > 0 /\ At(text, j, {" ", "-"})
      end == Min({j \in start..(Len(text) + 1) : ~goes(j)})
  IN  <<end, count(end)>>
\* The byte after the digits and single separators from start, and how many digits.
CardRun(text, start) ==
  LET count(j) == Counted(text, start, j - 1, Digits)
      goes(j) == /\ count(j) < MaxCard
                 /\ \/ At(text, j, Digits)
                    \/ count(j) > 0 /\ At(text, j, {" ", "-"}) /\ At(text, j + 1, Digits)
      end == Min({j \in start..(Len(text) + 1) : ~goes(j)})
  IN  <<end, count(end)>>

\* The loop over a text of n bytes: what is reported at the places it comes to, being at i
\* and then at next[i].
Walk(n, report, next) ==
  LET from[i \in 1..(n + 1)] == IF i > n THEN {} ELSE report[i] \cup from[next[i]]
  IN  from[1]

\* The span of the card number that starts at i, if one does.
CardAt(text, i) ==
  LET run == CardRun(text, i)
      j == run[1]
  IN  IF run[2] \in MinCard..MaxCard /\ ~At(text, j, WordBytes) /\ Luhn(SubSeq(text, i, j - 1))
      THEN {<<i, j - 1>>} ELSE {}

ScanCards(text) ==
  LET tried(i) == text[i] \in Digits /\ ~At(text, i - 1, WordBytes)
  IN  Walk(Len(text),
           [i \in DOMAIN text |-> IF tried(i) THEN CardAt(text, i) ELSE {}],
           [i \in DOMAIN text |-> IF tried(i) THEN CardRun(text, i)[1] ELSE i + 1])

ScanSsns(text) ==
  {<<i, i + 10>> : i \in {i \in 1..(Len(text) - 10) :
     /\ ~At(text, i - 1, WordBytes)
     /\ ~At(text, i + 11, WordBytes)
     /\ \A k \in {0, 1, 2, 4, 5, 7, 8, 9, 10} : text[i + k] \in Digits
     /\ text[i + 3] \in {"-", " ", "."}
     /\ text[i + 6] = text[i + 3]
     /\ SsnIsValid(SubSeq(text, i, i + 10))}}

---------------------------------------------------------------------------
(* detectors/email.rs                                                      *)

\* The farthest byte from i in steps of d whose bytes are all in the set, at most
\* max of them; i itself when there is none.
Reach(text, i, d, bytes, max) ==
  LET ok(n) == \A k \in 1..n : At(text, i + d * k, bytes)
      n == CHOOSE n \in 0..max : ok(n) /\ (n = max \/ ~ok(n + 1))
  IN  i + d * n

\* extract_candidate: no span or one.
EmailCandidate(text, at) ==
  LET start == Reach(text, at, -1, LocalBytes, MaxLocal)
      end == Reach(text, at, 1, Alphanumeric \cup {"-", "."}, MaxDomain)
      trimmed == CHOOSE e \in at..end : /\ \A k \in (e + 1)..end : text[k] \in {".", "-"}
                                        /\ e = at \/ text[e] \notin {".", "-"}
  IN  IF start = at \/ end = at \/ At(text, end + 1, WordBytes) THEN {} ELSE {<<start, trimmed>>}

ScanEmails(text) ==
  {span \in UNION {EmailCandidate(text, at) : at \in {i \in DOMAIN text : text[i] = "@"}} :
     EmailIsValid(SubSeq(text, span[1], span[2]))}

---------------------------------------------------------------------------
(* detectors/iban.rs                                                       *)

\* country_length: the registered countries by the length of their IBANs.
Registry ==
  {<<15, {"NO"}>>,
   <<16, {"BE"}>>,
   <<18, {"DJ", "DK", "FI", "FK", "FO", "GL", "NL", "SD"}>>,
   <<19, {"MK", "SI"}>>,
   <<20, {"AT", "EE", "KZ", "LT", "LU"}>>,
   <<21, {"CH", "HR", "LC", "LI", "LV"}>>,
   <<22, {"BA", "BG", "BH", "CR", "DE", "GB", "GE", "HU", "IE", "ME"}>>,
   <<23, {"AE", "IL", "IQ", "OM"}>>,
   <<24, {"CZ", "ES", "GI", "MD", "PK", "RO", "SA", "SE", "SK", "TN", "VA", "XK"}>>,
   <<25, {"LY", "PT", "SV"}>>,
   <<26, {"IS", "TR"}>>,
   <<27, {"EG", "FR", "GR", "IT", "MC", "MR"}>>,
   <<28, {"AD", "AL", "AZ", "BY", "CY", "DO", "GT", "LB", "NI", "PL", "SM", "SN"}>>,
   <<29, {"BI", "BR", "MZ", "PS", "QA", "VC"}>>,
   <<30, {"JO", "KW", "MU", "VN"}>>,
   <<31, {"MT", "SC"}>>,
   <<33, {"RS", "RU"}>>,
   <<34, {"UA"}>>}

CountryLength(code) == {entry[1] : entry \in {e \in Registry : code \in e[2]}}

MutIbanCandidate(text, start, length) ==
  LET count(j) == 2 + Counted(text, start + 2, j - 1, Alphanumeric)
      goes(j) == /\ count(j) < length
                 /\ \/ At(text, j, Alphanumeric)
                    \/ count(j) > 2 /\ At(text, j, {" ", "-"}) /\ At(text, j + 1, Alphanumeric)
      end == Min({j \in (start + 2)..(Len(text) + 1) : ~goes(j)})
  IN  IF /\ At(text, start + 2, Digits) /\ At(text, start + 3, Digits)
         /\ count(end) = length
         /\ IbanIsValid(SubSeq(text, start, end - 1)) THEN {<<start, end - 1>>} ELSE {}
IbanCandidate(text, start, length) ==
  LET count(j) == 2 + Counted(text, start + 2, j - 1, Alphanumeric)
      goes(j) == /\ count(j) < length
                 /\ \/ At(text, j, Alphanumeric)
                    \/ count(j) > 2 /\ At(text, j, {" ", "-"}) /\ At(text, j + 1, Alphanumeric)
      end == Min({j \in (start + 2)..(Len(text) + 1) : ~goes(j)})
  IN  IF /\ At(text, start + 2, Digits) /\ At(text, start + 3, Digits)
         /\ count(end) = length
         /\ ~At(text, end, Alphanumeric)
         /\ IbanIsValid(SubSeq(text, start, end - 1)) THEN {<<start, end - 1>>} ELSE {}

ScanIbans(text) ==
  UNION {UNION {IbanCandidate(text, i, n) : n \in CountryLength(text[i] \o text[i + 1])} :
           i \in {i \in 1..(Len(text) - 1) : /\ text[i] \in Uppers /\ text[i + 1] \in Uppers
                                             /\ ~At(text, i - 1, Alphanumeric)}}

---------------------------------------------------------------------------
(* detectors/phone.rs                                                      *)

\* The last of up to max digits among separators from start, and how many digits there
\* are; whether a separator came after the first digit.
DialRun(text, start, separators, max) ==
  LET count(j) == Counted(text, start, j - 1, Digits)
      goes(j) == /\ count(j) < max
                 /\ At(text, j, Digits) \/ (count(j) > 0 /\ At(text, j, separators))
      stop == Min({j \in start..(Len(text) + 1) : ~goes(j)})
  IN  [end   |-> Max({start - 1} \cup {k \in start..(stop - 1) : text[k] \in Digits}),
       count |-> count(stop),
       sep   |-> \E k \in start..(stop - 1) : text[k] \in separators]

Dialled(text, start, end) ==
  IF ~At(text, end + 1, Alphanumeric) /\ PhoneIsValid(SubSeq(text, start, end)) THEN {end} ELSE {}

ParseInternational(text, start, digits) ==
  LET run == DialRun(text, digits, {" ", "-", ".", "(", ")"}, MaxDial)
  IN  IF run.count \in MinDial..MaxDial THEN Dialled(text, start, run.end) ELSE {}

ParseNanp(text, start) ==
  LET first == IF text[start] = "(" THEN start + 1 ELSE start
      run == DialRun(text, first, {")", "-", ".", " "}, 10)
      digits == Kept(SubSeq(text, start, run.end), Digits)
  IN  IF /\ run.count = 10 /\ run.sep
         /\ digits[1] \notin {"0", "1"} /\ digits[4] \notin {"0", "1"}
      THEN Dialled(text, start, run.end) ELSE {}

\* The end of the number that starts at i, if one does.
PhoneAt(text, i) ==
  CASE text[i] = "+" /\ At(text, i + 1, Digits) -> ParseInternational(text, i, i + 1)
    [] text[i] = "0" /\ At(text, i + 1, {"0"}) /\ At(text, i + 2, Digits) ->
         ParseInternational(text, i, i + 2)
    [] text[i] \in {"("} \cup (Digits \ {"0", "1"}) -> ParseNanp(text, i)
    [] OTHER -> {}

ScanPhones(text) ==
  LET ends == [i \in DOMAIN text |-> IF At(text, i - 1, Alphanumeric) THEN {} ELSE PhoneAt(text, i)]
  IN  Walk(Len(text),
           [i \in DOMAIN text |-> {<<i, e>> : e \in ends[i]}],
           [i \in DOMAIN text |-> IF ends[i] = {} THEN i + 1 ELSE Max(ends[i]) + 1])

\* Detector::scan
Scan(detector, text) == CASE detector = "credit_card" -> ScanCards(text)
                          [] detector = "email"       -> ScanEmails(text)
                          [] detector = "iban"        -> ScanIbans(text)
                          [] detector = "phone"       -> ScanPhones(text)
                          [] detector = "ssn"         -> ScanSsns(text)

=============================================================================
