------------------------------ MODULE MCRequestHash ------------------------------
(***************************************************************************)
(* Instance of RequestHash for TLC: an amount written in every way with up  *)
(* to two digits before and after the point, or a word, with or without a   *)
(* second field, before or after it.                                       *)
(***************************************************************************)
EXTENDS RequestHash

Digits(n) == UNION {[1..k -> {0, 1}] : k \in 1..n}

Decimals ==
  {[kind |-> "decimal", negative |-> neg, whole |-> w, fraction |-> f, padded |-> FALSE] :
     neg \in BOOLEAN, w \in Digits(2), f \in {<<>>} \cup Digits(2)}

Words == {[kind |-> "word", word |-> "memo", padded |-> p] : p \in BOOLEAN}

AmountField(text) == [name |-> "amount", text |-> text]

Note == [name |-> "description", text |-> [kind |-> "word", word |-> "memo", padded |-> FALSE]]

MCHttpRequest ==
  {[route |-> "/v1/transfer_intents", versioned |-> FALSE, body |-> <<AmountField(text)>>] :
     text \in Decimals \cup Words}
    \cup
  {[route |-> route, versioned |-> v, body |-> body] :
     route \in {"/v1/transfer_intents", "/v1/transfer_intents/{id}/confirm"}, v \in BOOLEAN,
     body \in {<<>>} \cup UNION {{<<AmountField(text), Note>>, <<Note, AmountField(text)>>} : text \in Words}}

=============================================================================
