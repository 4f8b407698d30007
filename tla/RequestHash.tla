------------------------------- MODULE RequestHash -------------------------------
(***************************************************************************)
(* What the API takes for the same request: the canonical form that         *)
(* canonical-hash.ts hashes, and the middleware that decides by the hash    *)
(* whether an Idempotency-Key is used again for the request it was first    *)
(* used for, or for another one.                                           *)
(*                                                                         *)
(* A body is one JSON object of strings, written as a sequence of fields;   *)
(* a string is a decimal, by its digits, or a word.  Objects in objects are *)
(* treated alike; numbers and booleans are left alone by the code.  One     *)
(* API version is supported, so a request either names it in its header or  *)
(* does not.  A hash is taken for its argument: it does not collide.       *)
(***************************************************************************)
EXTENDS Integers, Sequences, FiniteSetsExt

CONSTANTS
  HttpRequest,     \* requests as clients write them, with one Idempotency-Key
  Scale            \* the most digits of a fraction

Digit == 0..9

\* DECIMAL_RE or not: an amount has a digit before the point, and any number after it.
IsText(text) ==
  \/ /\ text.kind = "decimal" /\ text.negative \in BOOLEAN
     /\ text.whole \in Seq(Digit) \ {<<>>}
     /\ text.fraction \in Seq(Digit) /\ Len(text.fraction) <= Scale
  \/ text.kind = "word"

\* JSON.parse leaves one field of a name.
IsBody(body) ==
  /\ body \in Seq({body[i] : i \in DOMAIN body})
  /\ \A i, j \in DOMAIN body : body[i].name = body[j].name => i = j
  /\ \A i \in DOMAIN body : IsText(body[i].text)

ASSUME RequestHashAssumption ==
  /\ Scale \in Nat
  /\ \A req \in HttpRequest : IsBody(req.body)

VARIABLES
  firstUse,        \* the request the key was first used for
  secondUse,       \* the one it is used for now
  verdict          \* what the middleware makes of the second

hashVars == <<firstUse, secondUse, verdict>>

RequestHashTypeOK ==
  /\ firstUse \in HttpRequest /\ secondUse \in HttpRequest
  /\ verdict \in {"none", "same", "conflict"}

-----------------------------------------------------------------------------
(* canonical-hash.ts                                                       *)

\* replace(/^0+(?=\d)/, ''): the last digit stays.
DropLeadingZeros(digits) ==
  SubSeq(digits, Min({i \in DOMAIN digits : digits[i] # 0 \/ i = Len(digits)}), Len(digits))

DropTrailingZeros(digits) ==
  SubSeq(digits, 1, Max({0} \cup {i \in DOMAIN digits : digits[i] # 0}))

\* Faulty: zero keeps its sign.
SignedZero(text) ==
  [kind |-> "decimal", negative |-> text.negative,
   whole |-> DropLeadingZeros(text.whole), fraction |-> DropTrailingZeros(text.fraction)]

NormalizeDecimal(text) ==
  LET whole == DropLeadingZeros(text.whole)
      fraction == DropTrailingZeros(text.fraction)
  IN [kind |-> "decimal",
      negative |-> text.negative /\ ~(whole = <<0>> /\ fraction = <<>>),
      whole |-> whole, fraction |-> fraction]

\* Without the blanks around it.
Norm(text) ==
  IF text.kind = "decimal" THEN NormalizeDecimal(text)
  ELSE [kind |-> "word", word |-> text.word]

\* Keys are sorted: the order they were written in is lost.
NormalizedBody(body) ==
  [n \in {body[i].name : i \in DOMAIN body} |->
     Norm(body[CHOOSE i \in DOMAIN body : body[i].name = n].text)]

\* The middleware's: of a path, the route without the ids in it.
PathTemplate(req) == req.route

CanonicalRequest(req) ==
  [template |-> PathTemplate(req), header |-> req.versioned, body |-> NormalizedBody(req.body)]

-----------------------------------------------------------------------------
(* The middleware and the store's comparison of hashes.                    *)

Reuse(req) ==
  /\ verdict = "none"
  /\ secondUse' = req
  /\ verdict' = IF CanonicalRequest(req) = CanonicalRequest(firstUse)
                  THEN "same" ELSE "conflict"
  /\ UNCHANGED firstUse

HashInit ==
  /\ firstUse \in HttpRequest /\ secondUse = firstUse
  /\ verdict = "none"

HashNext == \E req \in HttpRequest : Reuse(req)

-----------------------------------------------------------------------------
(* What a request means, computed another way.                             *)

\* The number that digits stand for.
ValueOf(digits) ==
  LET upTo[k \in 0..Len(digits)] == IF k = 0 THEN 0 ELSE 10 * upTo[k - 1] + digits[k]
  IN upTo[Len(digits)]

\* A decimal's digits, down to the last possible place.
DigitsOf(text) ==
  text.whole \o [i \in 1..Scale |-> IF i \in DOMAIN text.fraction THEN text.fraction[i] ELSE 0]

\* The number a decimal stands for, in units of its last possible digit.
NumberOf(text) ==
  IF text.negative THEN -ValueOf(DigitsOf(text)) ELSE ValueOf(DigitsOf(text))

SameText(a, b) ==
  /\ a.kind = b.kind
  /\ IF a.kind = "decimal" THEN NumberOf(a) = NumberOf(b) ELSE a.word = b.word

SameFields(a, b) ==
  /\ Len(a) = Len(b)
  /\ \A i \in DOMAIN a : \E j \in DOMAIN b :
       a[i].name = b[j].name /\ SameText(a[i].text, b[j].text)

\* A key used again is answered from its first use exactly if the route, the
\* version header's presence and the fields are the same, numbers by their value:
\* no way of writing a number, order of fields or blank makes a retry a conflict,
\* and none hides another amount.  (The ids in the path do not count, as the
\* documents have it: they hash the path's template.)
VerdictIsByMeaning ==
  verdict # "none" =>
    (verdict = "same" <=>
       /\ firstUse.route = secondUse.route
       /\ firstUse.versioned = secondUse.versioned
       /\ SameFields(firstUse.body, secondUse.body))

=============================================================================
