---------------------------- MODULE MCDetectors ----------------------------
(***************************************************************************)
(* The builtin detectors on every text within a few edits of a seed.       *)
(***************************************************************************)
EXTENDS Detectors

CONSTANTS Seeds,     \* detector -> the texts to start from
          Alphabet,  \* detector -> the bytes an edit puts in
          MaxEdits   \* detector -> how many edits

ASSUME SeedsAssumption ==
  /\ DOMAIN Seeds \subseteq {"credit_card", "email", "iban", "phone", "ssn"}
  /\ \A d \in DOMAIN Seeds : Seeds[d] \subseteq Seq(STRING) /\ Alphabet[d] \subseteq STRING

VARIABLES detector, text, edits

vars == <<detector, text, edits>>

Init == /\ detector \in DOMAIN Seeds
        /\ text \in Seeds[detector]
        /\ edits = 0

Edit(new) == /\ edits < MaxEdits[detector]
             /\ text' = new
             /\ edits' = edits + 1
             /\ UNCHANGED detector

Insert == \E i \in 1..(Len(text) + 1), b \in Alphabet[detector] : Edit(InsertAt(text, i, b))

Replace == \E i \in DOMAIN text, b \in Alphabet[detector] :
             Edit([text EXCEPT ![i] = b])

Delete == \E i \in DOMAIN text : Edit(RemoveAt(text, i))

Next == Insert \/ Replace \/ Delete

Spec == Init /\ [][Next]_vars

---------------------------------------------------------------------------
(***************************************************************************)
(* What the formats say, without the way the detectors walk the text.      *)
(***************************************************************************)
Part(span) == SubSeq(text, span[1], span[2])

\* Doubling every second digit from the right and adding up the digits of the results.
LuhnSum(digits) ==
  LET n == Len(digits)
      term == [i \in 1..n |-> LET v == Value(digits[i])
                              IN  IF (n - i) % 2 = 0 THEN v ELSE ((2 * v) \div 10) + ((2 * v) % 10)]
  IN  Total(n, term)

\* Starts and ends with one of the bytes, single separators between them.
Grouped(s, bytes, separators) ==
  /\ s[1] \in bytes /\ s[Len(s)] \in bytes
  /\ \A i \in DOMAIN s : \/ s[i] \in bytes
                         \/ s[i] \in separators /\ s[i - 1] \in bytes

IsCard(s) == LET digits == Kept(s, Digits)
             IN  /\ Grouped(s, Digits, {" ", "-"})
                 /\ Len(digits) \in MinCard..MaxCard
                 /\ LuhnSum(digits) % 10 = 0

IsSsn(s) ==
  /\ Len(s) = 11
  /\ \E sep \in {"-", " ", "."} : \A i \in 1..11 : IF i \in {4, 7} THEN s[i] = sep ELSE s[i] \in Digits
  /\ SubSeq(s, 1, 3) \notin {<<"0", "0", "0">>, <<"6", "6", "6">>} /\ s[1] # "9"
  /\ SubSeq(s, 5, 6) # <<"0", "0">>
  /\ SubSeq(s, 8, 11) # <<"0", "0", "0", "0">>

\* Non-empty words of the bytes, of at most max, joined by single dots: more than one.
Dotted(s, bytes) == /\ s # <<>> /\ ToSet(s) \subseteq bytes
                    /\ s[1] # "." /\ s[Len(s)] # "."
                    /\ \A i \in 2..Len(s) : s[i] = "." => s[i - 1] # "."

IsEmail(s) ==
  \E at \in 2..(Len(s) - 1) :
    LET local == SubSeq(s, 1, at - 1)
        domain == SubSeq(s, at + 1, Len(s))
    IN  /\ s[at] = "@"
        /\ Dotted(local, LocalBytes) /\ Len(local) <= MaxLocal
        /\ Dotted(domain, Alphanumeric \cup {"-", "."}) /\ Len(domain) <= MaxDomain
        /\ \A i \in DOMAIN domain :
             domain[i] = "-" => /\ i # 1 /\ i # Len(domain)
                                /\ domain[i - 1] # "." /\ domain[i + 1] # "."
        /\ \A i \in 1..(Len(domain) - MaxLabel) : \E k \in i..(i + MaxLabel) : domain[k] = "."
        /\ \E i \in 2..(Len(domain) - 2) :
             domain[i] = "." /\ \A k \in (i + 1)..Len(domain) : domain[k] \in Alphabetic

\* The number that the rearranged IBAN spells, by the weights of its characters: what is
\* behind the last k of them weighs weight[k].
Mod97(s) ==
  LET n == Len(s)
      moved == SubSeq(s, 5, n) \o SubSeq(s, 1, 4)
      weight[k \in 0..n] ==
        IF k = 0 THEN 1
        ELSE (weight[k - 1] * (IF moved[n + 1 - k] \in Digits THEN 10 ELSE 100)) % 97
  IN  Total(n, [k \in 1..n |-> Value(moved[n + 1 - k]) * weight[k - 1]]) % 97

\* The IBAN registry that SWIFT keeps under ISO 13616, by the length of the numbers.
Swift ==
  {<<15, {"NO"}>>,
   <<16, {"BE"}>>,
   <<18, {"DK", "FI", "FK", "FO", "GL", "NL", "SD"}>>,
   <<19, {"MK", "SI"}>>,
   <<20, {"AT", "BA", "EE", "KZ", "LT", "LU", "MN", "XK"}>>,
   <<21, {"CH", "HR", "LI", "LV"}>>,
   <<22, {"BG", "BH", "CR", "DE", "GB", "GE", "IE", "ME", "RS", "VA"}>>,
   <<23, {"AE", "GI", "IL", "IQ", "OM", "SO", "TL"}>>,
   <<24, {"AD", "CZ", "ES", "MD", "PK", "RO", "SA", "SE", "SK", "TN", "VG"}>>,
   <<25, {"LY", "PT", "ST"}>>,
   <<26, {"IS", "TR"}>>,
   <<27, {"BI", "DJ", "FR", "GR", "IT", "MC", "MR", "SM"}>>,
   <<28, {"AL", "AZ", "BY", "CY", "DO", "GT", "HN", "HU", "LB", "NI", "PL", "SV"}>>,
   <<29, {"BR", "EG", "PS", "QA", "UA"}>>,
   <<30, {"JO", "KW", "MU", "YE"}>>,
   <<31, {"MT", "SC"}>>,
   <<32, {"LC"}>>,
   <<33, {"RU"}>>}

SwiftLength(code) == {entry[1] : entry \in {e \in Swift : code \in e[2]}}

\* The countries for which country_length says something else: another length, a length
\* for a country that has registered none, or none for one that has.
Disputed == {"AD", "BA", "BI", "DJ", "EG", "GI", "HU", "LC", "RS", "SM", "SV", "UA", "VA", "XK",
             "MZ", "SN", "VC", "VN",
             "HN", "MN", "SO", "ST", "TL", "VG", "YE"}

IsIban(s) ==
  LET compact == Kept(s, Alphanumeric)
  IN  /\ Len(s) > 4 /\ {s[1], s[2]} \subseteq Uppers /\ {s[3], s[4]} \subseteq Digits
      /\ Grouped(s, Alphanumeric, {" ", "-"})
      /\ Len(compact) \in SwiftLength(s[1] \o s[2])
      /\ ToSet(compact) \cap Lowers = {}
      /\ Mod97(compact) = 1

DialBytes == {" ", "-", ".", "(", ")"}

IsPhone(s) ==
  LET digits == Kept(s, Digits)
      n == Len(digits)
  IN  /\ s[Len(s)] \in Digits
      /\ PhoneIsValid(s)
      /\ \/ /\ s[1] = "+" /\ Len(s) > 1 /\ s[2] \in Digits
            /\ ToSet(Tail(s)) \subseteq Digits \cup DialBytes
            /\ n \in MinDial..MaxDial
         \/ /\ Len(s) > 2 /\ s[1] = "0" /\ s[2] = "0" /\ s[3] \in Digits
            /\ ToSet(s) \subseteq Digits \cup DialBytes
            /\ n - 2 \in MinDial..MaxDial
         \/ /\ s[1] \in Digits \/ (s[1] = "(" /\ s[2] \in Digits)
            /\ ToSet(Tail(s)) \subseteq Digits \cup (DialBytes \ {"("})
            /\ n = 10 /\ digits[1] \notin {"0", "1"} /\ digits[4] \notin {"0", "1"}
            /\ \E i \in 2..Len(s) : s[i] \notin Digits

Genuine(s) == CASE detector = "credit_card" -> IsCard(s)
                [] detector = "ssn"         -> IsSsn(s)
                [] detector = "email"       -> IsEmail(s)
                [] detector = "iban"        -> IsIban(s)
                [] detector = "phone"       -> IsPhone(s)

\* The bytes a detector does not accept next to what it reports.
Glue == CASE detector \in {"credit_card", "ssn"} -> WordBytes
          [] detector = "email"                  -> WordBytes
          [] detector \in {"iban", "phone"}      -> Alphanumeric

Alone(span) == ~At(text, span[1] - 1, Glue) /\ ~At(text, span[2] + 1, Glue)

Spans == {span \in (DOMAIN text) \X (DOMAIN text) : span[1] <= span[2]}

\* From the byte before i (d = -1) or after it (d = 1) past the bytes, the first other.
Past(i, d, bytes) == Reach(text, i, d, bytes, Len(text)) + d

\* Nothing next to the span could belong to the same number or address.
Isolated(span) ==
  CASE detector = "credit_card" ->
         ~ \E i \in {Past(span[1], -1, {" ", "-"}), Past(span[2], 1, {" ", "-"})} : At(text, i, Digits)
    [] detector = "phone" ->
         /\ ~At(text, span[1] - 1, {"(", "+"})
         /\ ~ \E i \in {Past(span[1], -1, DialBytes \cup {"+"}), Past(span[2], 1, DialBytes)} :
                At(text, i, Digits)
    [] detector = "email" ->
         /\ ~At(text, span[1] - 1, LocalBytes)
         /\ ~At(text, Past(span[2], 1, {".", "-"}), WordBytes)
    [] OTHER -> TRUE

---------------------------------------------------------------------------

InDispute(s) == detector = "iban" /\ s[1] \o s[2] \in Disputed

\* A detector reports only what the format allows, IBANs of the disputed countries aside.
ReportsAreGenuine ==
  \A span \in Scan(detector, text) : Genuine(Part(span)) \/ InDispute(Part(span))

\* What a detector reports is a part of the text, never of a longer word, and, but for
\* e-mail addresses and IBANs, no byte is reported twice.  The one exception is a local part
\* of more than MaxLocal bytes, of which the last MaxLocal are reported.
ReportsStandAlone ==
  \A span \in Scan(detector, text) :
    /\ span \in Spans
    /\ \/ Alone(span)
       \/ detector = "email" /\ At(text, span[1] + MaxLocal, {"@"}) /\ ~At(text, span[2] + 1, Glue)
    /\ detector \notin {"email", "iban"} =>
         \A other \in Scan(detector, text) : other = span \/ other[1] > span[2] \/ other[2] < span[1]

\* A detector finds everything of its format that stands alone and apart from other
\* digits, wherever it is in the text and whatever was tried and rejected before it; not
\* the IBANs of the disputed countries.
NoneIsMissed ==
  \A span \in Spans : Genuine(Part(span)) /\ Alone(span) /\ Isolated(span)
                        => span \in Scan(detector, text) \/ InDispute(Part(span))

\* src/rules/detectors/iban.rs: the lengths are those of the "SWIFT-registered" countries,
\* so that an IBAN which stands alone is found whatever its country.
RegisteredIbansAreFound ==
  \A span \in Spans : IsIban(Part(span)) /\ Alone(span) => span \in ScanIbans(text)

---------------------------------------------------------------------------
(* The instance                                                            *)

MCPhoneIsValid(s) == Len(Kept(s, Digits)) \in {8, 10}

MCSeeds ==
  [credit_card |-> {<< >>},
   ssn   |-> {<<"1", "2", "3", "-", "4", "5", "-", "6", "7", "8", "9">>,
              <<"6", "6", "5", " ", "0", "1", " ", "0", "0", "0", "1">>},
   email |-> {<<"a", "@", "b", ".", "c", "d">>, <<"a", ".", "b", "@", "c", "d", ".", "e", "f">>,
              <<"a", "@", "b", ".", "c", "d", "@", "e", ".", "f", "g">>},
   iban  |-> {<<"N", "O", "9", "3", "8", "6", "0", "1", "1", "1", "1", "7", "9", "4", "7">>},
   phone |-> {<<"2", "1", "2", "-", "2", "3", "4", "-", "5", "6", "7", "8">>,
              <<"+", "4", "4", " ", "2", "2", "3", "4", "5", "6">>,
              <<"0", "0", "4", "4", "2", "2", "3", "4", "5", "6">>}]

MCAlphabet == [credit_card |-> {"0", "5", " ", ",", "x"},
               ssn         |-> {"0", "6", "9", "-", "x"},
               email       |-> {"a", ".", "-", "@", "_", " "},
               iban        |-> {"1", "N", " ", "x"},
               phone       |-> {"2", "1", "(", "-", "+", "x"}]

\* The registry's own examples for Bosnia and Herzegovina, Kosovo and Serbia.
MCRegistryExamples ==
  [iban |-> {<<"B", "A", "3", "9", "1", "2", "9", "0", "0", "7",
               "9", "4", "0", "1", "0", "2", "8", "4", "9", "4">>,
             <<"X", "K", "0", "5", "1", "2", "1", "2", "0", "1",
               "2", "3", "4", "5", "6", "7", "8", "9", "0", "6">>,
             <<"R", "S", "3", "5", "2", "6", "0", "0", "0", "5", "6",
               "0", "1", "0", "0", "1", "6", "1", "1", "3", "7", "9">>}]

MCMaxEdits == [credit_card |-> 7, ssn |-> 2, email |-> 2, iban |-> 2, phone |-> 2]

MCNoEdits == [iban |-> 0]

=============================================================================
