------------------------------ MODULE Versions ------------------------------
(***************************************************************************)
(* Semantic versions and the structured API, ABI and protocol versions     *)
(* (version.cpp, version.hpp): parsing, printing and the order.            *)
(*                                                                         *)
(* A text is a sequence of characters of Alphabet, one for each role a     *)
(* character can play.  Integers are as wide as MaxInt: the code reads     *)
(* digits into an int64 without a check before the multiplication, so a    *)
(* number beyond MaxInt is undefined behaviour and gives any of Overflowed *)
(* when it is parsed and any verdict when it is compared.  parse and       *)
(* compare therefore return the set of their outcomes.                     *)
(*                                                                         *)
(* The operators have no state; the specification below types every text   *)
(* that starts with one of Openings, one character at a time.              *)
(***************************************************************************)
EXTENDS Integers, Sequences, FiniteSetsExt, SequencesExt

CONSTANTS
  MaxInt,       \* the largest integer, 2^63 - 1 in the code
  Openings,     \* what a text may start with
  MaxTail,      \* bound: characters typed after the opening
  Corpus        \* the texts every text is compared with

ASSUME VersionsAssumption == MaxInt \in Nat /\ MaxTail \in Nat

DigitValue == [d \in {"0", "1", "2"} |-> CASE d = "0" -> 0 [] d = "1" -> 1 [] d = "2" -> 2]
Digit == DOMAIN DigitValue
\* The characters of identifiers in the order of their codes.
Collation == <<"-", "0", "1", "2", "a">>
Alphabet == {".", "+"} \cup Range(Collation)

VARIABLES
  text,     \* what is being parsed
  room      \* how many characters may still be typed

vvars == <<text, room>>

-----------------------------------------------------------------------------
(* Reading texts                                                           *)

\* Optional values: << >> is nullopt.
Nothing == << >>

Find(s, c) == IF c \in Range(s) THEN Min({k \in DOMAIN s : s[k] = c}) ELSE 0
Upto(s, c) == IF c \in Range(s) THEN SubSeq(s, 1, Find(s, c) - 1) ELSE s
After(s, c) == SubSeq(s, Find(s, c) + 1, Len(s))

\* The parts of s between its dots.
Split(s) ==
  LET parts[k \in 0 .. Len(s)] ==
        IF k = 0 THEN << << >> >>
        ELSE LET p == parts[k - 1]
             IN  IF s[k] = "." THEN Append(p, << >>)
                 ELSE [p EXCEPT ![Len(p)] = Append(@, s[k])]
  IN  parts[Len(s)]

Numeric(s) == Range(s) \subseteq Digit
Number(s) ==
  LET value[k \in 0 .. Len(s)] ==
        IF k = 0 THEN 0 ELSE 10 * value[k - 1] + DigitValue[s[k]]
  IN  value[Len(s)]
LeadingZero(s) == Len(s) > 1 /\ s[1] = "0"

\* What the guard "v < 0", compiled after the overflow it looks for, lets through.
Overflowed == {Nothing} \cup {<<v>> : v \in -MaxInt - 1 .. MaxInt}

Bug_ParseLeadingZeros(s) ==
  IF s = << >> \/ ~Numeric(s) THEN {Nothing} ELSE {<<Number(s)>>}
parse_u64(s) ==
  IF s = << >> \/ LeadingZero(s) \/ ~Numeric(s) THEN {Nothing}
  ELSE IF Number(s) > MaxInt THEN Overflowed ELSE {<<Number(s)>>}

ident_char(c) == c \in Range(Collation)

\* The loop stops at the end of the text: a dot may be the last character.
valid_dot_identifiers(s) ==
  LET ids == Split(s)
  IN  /\ s # << >>
      /\ \A k \in DOMAIN ids :
           /\ ids[k] = << >> => 1 < k /\ k = Len(ids)
           /\ \A c \in Range(ids[k]) : ident_char(c)
           /\ Numeric(ids[k]) => ~LeadingZero(ids[k])

\* SemanticVersion::parse: build after the first plus, prerelease after the
\* first dash before that, three numbers, the last of which may be empty.
parse(t) ==
  LET rest == Upto(t, "+")
      core == Split(Upto(rest, "-"))
      build == IF "+" \in Range(t) THEN After(t, "+") ELSE << >>
      pre   == IF "-" \in Range(rest) THEN After(rest, "-") ELSE << >>
  IN  IF \/ "+" \in Range(t) /\ ~valid_dot_identifiers(build)
         \/ "-" \in Range(rest) /\ ~valid_dot_identifiers(pre)
         \/ Len(core) # 3
      THEN {Nothing}
      ELSE {IF Nothing \in {a, b, c} THEN Nothing
            ELSE <<[major |-> a[1], minor |-> b[1], patch |-> c[1],
                    prerelease |-> pre, build |-> build]>> :
              a \in parse_u64(core[1]), b \in parse_u64(core[2]),
              c \in IF core[3] = << >> THEN {<<0>>} ELSE parse_u64(core[3])}

\* StructuredVersion::parse: one to three numbers, none of them empty.
parse_version_components(t) ==
  LET parts == Split(t)
      part(k) == IF k \in DOMAIN parts THEN parse_u64(parts[k]) ELSE {<<0>>}
  IN  IF Len(parts) > 3 THEN {Nothing}
      ELSE {IF Nothing \in {a, b, c} THEN Nothing
            ELSE <<[major |-> a[1], minor |-> b[1], patch |-> c[1]]>> :
              a \in part(1), b \in part(2), c \in part(3)}

-----------------------------------------------------------------------------
(* Printing                                                                *)

to_string[n \in 0 .. MaxInt] ==
  LET last == CHOOSE d \in Digit : DigitValue[d] = n % 10
  IN  IF n < 10 THEN <<last>> ELSE Append(to_string[n \div 10], last)

str(v) ==
  to_string[v.major] \o <<".">> \o to_string[v.minor] \o <<".">> \o to_string[v.patch]
    \o (IF v.prerelease = << >> THEN << >> ELSE <<"-">> \o v.prerelease)
    \o (IF v.build = << >> THEN << >> ELSE <<"+">> \o v.build)

Bug_StructuredStrNoPatch(v) == to_string[v.major] \o <<".">> \o to_string[v.minor]
structured_str(v) ==
  to_string[v.major] \o <<".">> \o to_string[v.minor]
    \o (IF v.patch = 0 THEN << >> ELSE <<".">> \o to_string[v.patch])

-----------------------------------------------------------------------------
(* The order                                                               *)

Sign(x, y) == IF x < y THEN -1 ELSE IF x > y THEN 1 ELSE 0

\* string_view's <: by the first character that differs, else the shorter first.
Code(c) == CHOOSE k \in DOMAIN Collation : Collation[k] = c
TextSign(s, t) ==
  LET differ == {k \in DOMAIN s \cap DOMAIN t : s[k] # t[k]}
  IN  IF differ = {} THEN Sign(Len(s), Len(t))
      ELSE Sign(Code(s[Min(differ)]), Code(t[Min(differ)]))

\* One round of the loop over the identifiers; an empty one is a final dot's.
Bug_IdentifierAsText(s, t) == {TextSign(s, t)}
identifier_signs(s, t) ==
  IF s = << >> \/ t = << >> THEN {Sign(Len(s), Len(t))}
  ELSE IF Numeric(s) /\ Numeric(t)
  THEN IF Number(s) > MaxInt \/ Number(t) > MaxInt
       THEN {-1, 0, 1} ELSE {Sign(Number(s), Number(t))}
  ELSE IF Numeric(s) THEN {-1} ELSE IF Numeric(t) THEN {1} ELSE {TextSign(s, t)}

prerelease_signs(s, t) ==
  LET P == Split(s)
      Q == Split(t)
      from[k \in 1 .. Min({Len(P), Len(Q)}) + 1] ==
        IF k > Min({Len(P), Len(Q)}) THEN {Sign(Len(P), Len(Q))}
        ELSE LET signs == identifier_signs(P[k], Q[k])
             IN  (signs \ {0}) \cup (IF 0 \in signs THEN from[k + 1] ELSE {})
  IN  from[1]

compare(v, w) ==
  IF v.major # w.major THEN {Sign(v.major, w.major)}
  ELSE IF v.minor # w.minor THEN {Sign(v.minor, w.minor)}
  ELSE IF v.patch # w.patch THEN {Sign(v.patch, w.patch)}
  ELSE IF v.prerelease = << >> \/ w.prerelease = << >>
  THEN {Sign(Len(w.prerelease), 0) - Sign(Len(v.prerelease), 0)}
  ELSE prerelease_signs(v.prerelease, w.prerelease)

-----------------------------------------------------------------------------
TextInit == text \in Openings /\ room = MaxTail

Type(c) == room > 0 /\ text' = Append(text, c) /\ room' = room - 1

VersionsSpec == TextInit /\ [][\E c \in Alphabet : Type(c)]_vvars

-----------------------------------------------------------------------------
(* Reference definitions: semver 2.0, with what this code adds to it.      *)

\* No run of digits is a number beyond MaxInt.
InRange(t) ==
  \A i, j \in DOMAIN t :
    i <= j /\ Numeric(SubSeq(t, i, j)) => Number(SubSeq(t, i, j)) <= MaxInt

Numeral(s) == s # << >> /\ Numeric(s) /\ ~LeadingZero(s)
Identifier(s) ==
  s # << >> /\ Range(s) \subseteq Range(Collation) /\ (Numeric(s) => Numeral(s))
DotSeparated(s, Part(_)) == \A k \in DOMAIN Split(s) : Part(Split(s)[k])

WellFormed(core, pre, build) ==
  /\ DotSeparated(core, Numeral) /\ Len(Split(core)) = 3
  /\ pre # << >> => pre[1] = "-" /\ DotSeparated(Tail(pre), Identifier)
  /\ build # << >> => build[1] = "+" /\ DotSeparated(Tail(build), Identifier)

\* major.minor.patch[-prerelease][+build] (version.hpp)
Grammar(t) ==
  \E i \in 0 .. Len(t) : \E j \in i .. Len(t) :
    WellFormed(SubSeq(t, 1, i), SubSeq(t, i + 1, j), SubSeq(t, j + 1, Len(t)))

\* What the code takes besides: the core, the prerelease or the build, or
\* several of them, end in a dot and only want the component after it.
Completed(s) == IF s # << >> /\ s[Len(s)] = "." THEN Append(s, "0") ELSE s
LeftOpen(t) ==
  \E i \in 0 .. Len(t) : \E j \in i .. Len(t) :
    LET core  == SubSeq(t, 1, i)
        pre   == SubSeq(t, i + 1, j)
        build == SubSeq(t, j + 1, Len(t))
    IN  /\ <<Completed(core), Completed(pre), Completed(build)>> # <<core, pre, build>>
        /\ WellFormed(Completed(core), Completed(pre), Completed(build))

\* p comes before q: at the first difference, or as a proper prefix.
Lexicographic(p, q, Below(_, _)) ==
  \/ p # q /\ IsPrefix(p, q)
  \/ \E k \in DOMAIN p \cap DOMAIN q :
       SubSeq(p, 1, k - 1) = SubSeq(q, 1, k - 1) /\ Below(p[k], q[k])

IdentifierBelow(s, t) ==
  \/ s = << >> /\ t # << >>
  \/ Numeral(s) /\ t # << >> /\ ~Numeric(t)
  \/ Numeral(s) /\ Numeral(t) /\ Number(s) < Number(t)
  \/ ~Numeric(s) /\ ~Numeric(t) /\ Lexicographic(s, t, LAMBDA c, d : Code(c) < Code(d))

Precedes(v, w) ==
  LET core(u) == <<u.major, u.minor, u.patch>>
  IN  \/ Lexicographic(core(v), core(w), <)
      \/ /\ core(v) = core(w) /\ v.prerelease # << >>
         /\ \/ w.prerelease = << >>
            \/ Lexicographic(Split(v.prerelease), Split(w.prerelease), IdentifierBelow)

-----------------------------------------------------------------------------
(* Properties                                                              *)

\* The texts of the instance are texts, and those that every text is compared
\* with have numbers that fit.
ASSUME TextsAssumption ==
  Openings \subseteq Seq(Alphabet) /\ \A t \in Corpus : t \in Seq(Alphabet) /\ InRange(t)

\* What parse accepts, whatever follows what, of the texts whose numbers fit the
\* integers: every text of the grammar, none that breaks it in the middle, and
\* those that end a part with a dot.  The last are the one place where the code
\* leaves the grammar: MalformedRejected below says what is promised of them.
AcceptsGrammar ==
  InRange(text) => (parse(text) # {Nothing} <=> Grammar(text) \/ LeftOpen(text))

\* "Malformed versions are rejected" (README).  The code takes 1.2. as 1.2.0, and
\* 1.0.0-a. and 1.0.0+a. as they are: the loop of valid_dot_identifiers stops at
\* the end of the text and parse makes an empty patch 0.
MalformedRejected ==
  InRange(text) /\ parse(text) # {Nothing} => Grammar(text)

\* Nothing of an accepted text is lost or read as something else: printed, the
\* version is that text again, its missing patch supplied, and reads back as
\* the same version; so does a structured version, whose zero patch is left out.
PrintsBack ==
  InRange(text) =>
    LET core == Upto(Upto(text, "+"), "-")
    IN  /\ \A o \in parse(text) \ {Nothing} :
             /\ parse(str(o[1])) = {o}
             /\ str(o[1]) = Completed(core) \o SubSeq(text, Len(core) + 1, Len(text))
        /\ \A o \in parse_version_components(text) \ {Nothing} :
             parse_version_components(structured_str(o[1])) = {o}

\* compare is the precedence of semver, "1.9 is less than 1.10" (README): it
\* gives one answer, the opposite one the other way round, and 0 only for
\* versions that differ in nothing but the build.
OrderIsPrecedence ==
  InRange(text) =>
    \A o \in parse(text) \ {Nothing}, r \in (UNION {parse(t) : t \in Corpus}) \ {Nothing} :
      LET v == o[1]
          w == r[1]
          sign == IF Precedes(v, w) THEN -1 ELSE IF Precedes(w, v) THEN 1 ELSE 0
      IN  /\ compare(v, w) = {sign} /\ compare(w, v) = {-sign}
          /\ sign = 0 <=> [v EXCEPT !.build = w.build] = w
=============================================================================
