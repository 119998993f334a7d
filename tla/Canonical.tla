----------------------------- MODULE Canonical ------------------------------
(***************************************************************************)
(* The values of arguments as an agent sends them, as the gate decides on  *)
(* them (core/canonical.py, money.py, url.py) and as the tool is handed    *)
(* them.  An amount is digits, a host or an id is labels, what stands      *)
(* between its dots, a path is what stands between its slashes (names in   *)
(* it have no dots); the path of a URL is characters, of which what        *)
(* matters is how often each was percent-encoded: 0 is the character, 1    *)
(* is %XX, 2 is %25XX.  Case, Unicode, IP literals, the query (treated as  *)
(* the path is) and what no pattern accepts are left out.                  *)
(*                                                                         *)
(* The loops are recursive functions, so that they can be proved about.    *)
(***************************************************************************)
EXTENDS Integers, SequencesExt

CONSTANTS
  Names,     \* what can stand between two slashes of a path
  Letters    \* the characters of a URL's path

\* What stands between two slashes, or two dots, that follow one another.
Empty == "empty"

ASSUME CanonicalAssumption == {Empty, ".", ".."} \subseteq Names /\ {".", "/"} \subseteq Letters

\* What stands for the Rejection raised.
Rejection == [kind |-> "rejection"]

\* A loop over seq: step[before][element] is what there is after an element.
Folded(step, first, seq) ==
  LET result[n \in 0 .. Len(seq)] ==
        IF n = 0 THEN first ELSE step[result[n - 1]][seq[n]]
  IN  result[Len(seq)]

NoPort  == -1
MaxPort == 65535
Char    == [char : Letters, depth : Nat]
Dot     == [char |-> ".", depth |-> 0]
Slash   == [char |-> "/", depth |-> 0]

\* A value as loads_strict() gives it, of a kind an argument can have.  The path
\* of a URL begins where its host ends, at a slash.
Kinds == {"email", "id", "int", "money", "path", "template", "url"}

Value ==
  [kind : {"money"}, whole : Nat, digits : Seq(0 .. 9), currency : STRING]
    \cup [kind : {"path"}, absolute : BOOLEAN, segments : Seq(Names)]
    \cup [kind : {"url"}, scheme : STRING, host : Seq(STRING), port : Int,
          path : {<<>>} \cup {p \in Seq(Char) : p[1] = Slash}]
    \cup [kind : {"email"}, domain : Seq(STRING)]
    \cup [kind : {"id"}, value : Seq(STRING)]
    \cup [kind : {"template"}, name : STRING, param : Int]
    \cup [kind : {"int"}, value : Int]

----------------------------------------------------------------------------
(* Money. *)

Exponent == [JPY |-> 0, EUR |-> 2, KWD |-> 3]

Number(digits) == Folded([n \in Nat |-> [d \in 0 .. 9 |-> 10 * n + d]], 0, digits)

\* Mutant: the fraction is read as it stands.
Unpadded(digits, exponent) == digits

Padded(digits, exponent) == digits \o [i \in 1 .. exponent - Len(digits) |-> 0]

CanonicalMoney(spec, v) ==
  LET exponent == Exponent[v.currency]
      minor    == v.whole * 10 ^ exponent + Number(Padded(v.digits, exponent))
  IN  IF /\ v.currency \in spec.currencies
         /\ Len(v.digits) <= exponent
         /\ minor \in spec.low .. spec.high
      THEN [kind |-> "money", minor |-> minor, currency |-> v.currency] ELSE Rejection

\* decimal_text().
DecimalText(v) ==
  LET exponent == Exponent[v.currency]
  IN  [kind |-> "money", currency |-> v.currency, whole |-> v.minor \div 10 ^ exponent,
       digits |-> [i \in 1 .. exponent |-> (v.minor \div 10 ^ (exponent - i)) % 10]]

----------------------------------------------------------------------------
(* Paths. *)

\* Of segments out of names, of which one and two are a dot and two dots.
RemoveDotSegments(segments, names, one, two) ==
  Folded([out \in Seq(names) |-> [s \in names |->
            IF s = one THEN out
            ELSE IF s # two THEN Append(out, s)
            ELSE IF out = <<>> THEN out ELSE Front(out)]], <<>>, segments)

\* "/" + "/".join(segments), split again: the root is one empty segment.
Joined(segments, empty) == IF segments = <<>> THEN <<empty>> ELSE segments

\* under.rstrip("/")
Stripped(under) ==
  SubSeq(under, 1, CHOOSE n \in 0 .. Len(under) :
                     /\ \A i \in n + 1 .. Len(under) : under[i] = Empty
                     /\ n = 0 \/ under[n] # Empty)

Inside(path, under) == path = under \/ IsStrictPrefix(Stripped(under), path)

Collapsed(segments) ==
  Folded([out \in Seq(Names) |-> [s \in Names |->
            IF s \in {Empty, "."} THEN out ELSE Append(out, s)]], <<>>, segments)

\* Where a path leads, step by step from the root.
Walk(segments) == RemoveDotSegments(Collapsed(segments), Names, ".", "..")

\* Mutant: the sandbox is checked before the dots are removed.
CanonicalPathCheckedFirst(spec, v) ==
  IF Inside(Joined(Collapsed(v.segments), Empty), spec.under)
  THEN [kind |-> "path",
        segments |-> Joined(Walk(v.segments), Empty)]
  ELSE Rejection

CanonicalPath(spec, v) ==
  LET path == Joined(Walk(v.segments), Empty)
  IN  IF v.absolute /\ (spec.confined => Inside(path, spec.under))
      THEN [kind |-> "path", segments |-> path] ELSE Rejection

----------------------------------------------------------------------------
(* URLs. *)

\* canonical_host(): a closing dot is dropped; two labels at least, and the
\* last one no number.
HostOf(labels) == IF labels # <<>> /\ Last(labels) = Empty THEN Front(labels) ELSE labels

HostOk(host) ==
  Len(host) >= 2 /\ (\A i \in DOMAIN host : host[i] # Empty) /\ Last(host) # "1"

\* Mutant: the leading parts of a host.
HostPrefixes(host) == {SubSeq(host, 1, n) : n \in 2 .. Len(host)}

\* host_suffixes(): every suffix down to two labels.
HostSuffixes(host) == {SubSeq(host, n, Len(host)) : n \in 1 .. Len(host) - 1}

\* _percent_normalise(): an escape of an unreserved character is decoded, once.
PercentNormalise(chars) ==
  [i \in DOMAIN chars |->
     IF chars[i].depth = 1 /\ chars[i].char # "/" THEN [chars[i] EXCEPT !.depth = 0] ELSE chars[i]]

\* path.split("/")[1:]
Split(chars) ==
  Folded([out \in Seq(Seq(Char)) |-> [c \in Char |->
            IF c = Slash THEN Append(out, <<>>)
            ELSE Append(Front(out), Append(Last(out), c))]], <<>>, chars)

Text(segments) ==
  Folded([out \in Seq(Char) |-> [s \in Seq(Char) |-> out \o <<Slash>> \o s]], <<>>, segments)

WithoutDots(chars) ==
  Text(Joined(RemoveDotSegments(Split(IF chars = <<>> THEN <<Slash>> ELSE chars),
                                Seq(Char), <<Dot>>, <<Dot, Dot>>), <<>>))

\* Mutant: the dots are removed before the escapes are decoded.
UrlPathDotsFirst(chars) == PercentNormalise(WithoutDots(chars))

UrlPath(chars) == WithoutDots(PercentNormalise(chars))

DefaultPort(scheme) == IF scheme = "https" THEN 443 ELSE 80

CanonicalUrl(spec, v) ==
  LET port == IF v.port = NoPort THEN DefaultPort(v.scheme) ELSE v.port
  IN  IF v.scheme \in spec.schemes /\ HostOk(HostOf(v.host)) /\ port \in 1 .. MaxPort
      THEN [kind |-> "url", scheme |-> v.scheme, host |-> HostOf(v.host), port |-> port,
            path |-> UrlPath(v.path)]
      ELSE Rejection

Rebuild(v) ==
  [v EXCEPT !.port = IF @ = DefaultPort(v.scheme) THEN NoPort ELSE @]

----------------------------------------------------------------------------
(* Any value. *)

\* canonical_email(): the local part is kept, the domain is a host.
CanonicalEmail(v) ==
  IF HostOk(HostOf(v.domain)) THEN [kind |-> "email", domain |-> HostOf(v.domain)] ELSE Rejection

\* _canonical_template(): a known name, and all of its parameters, in bounds.
CanonicalTemplate(spec, v) ==
  IF v.name \in spec.templates /\ spec.low <= v.param /\ v.param <= spec.high THEN v ELSE Rejection

\* _canonical_value(): a value of another type than declared is refused.
CanonicalValue(spec, v) ==
  IF v.kind # spec.kind THEN Rejection
  ELSE CASE v.kind = "money"    -> CanonicalMoney(spec, v)
         [] v.kind = "path"     -> CanonicalPath(spec, v)
         [] v.kind = "url"      -> CanonicalUrl(spec, v)
         [] v.kind = "email"    -> CanonicalEmail(v)
         [] v.kind = "template" -> CanonicalTemplate(spec, v)
         [] v.kind = "int"      -> IF v.value \in spec.low .. spec.high THEN v ELSE Rejection
         [] v.kind = "id"       -> IF v.value # <<>> THEN v ELSE Rejection

\* wire_value(): what the runner is handed.
WireValue(v) ==
  CASE v.kind = "money" -> DecimalText(v)
    [] v.kind = "url"   -> Rebuild(v)
    [] v.kind = "path"  -> [kind |-> "path", absolute |-> TRUE, segments |-> v.segments]
    [] OTHER -> v
=============================================================================
