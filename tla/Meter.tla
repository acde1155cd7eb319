------------------------------- MODULE Meter --------------------------------
(***************************************************************************)
(* What a call costs: internal/meter.  Prices are found by the model's     *)
(* name, exactly or by its longest known prefix, in a Go map that is       *)
(* iterated in an order chosen anew for every lookup.                      *)
(*                                                                         *)
(* A name is a sequence of parts, cut so that one name starts with another *)
(* exactly if its parts do ("gpt-4o-mini" is gpt-, 4, o, -mini).  Prices   *)
(* are in cents per million tokens, costs in cents per million.            *)
(***************************************************************************)
EXTENDS Integers, Sequences, SequencesExt, TLC

CONSTANT Pricing    \* the price table: a price for every known name

price(input, output) == [input |-> input, output |-> output]

\* An excerpt of the built-in table: a family in which one name starts another.
gpt4o     == <<"gpt-", "4", "o">>
gpt4omini == <<"gpt-", "4", "o", "-mini">>
gpt4      == <<"gpt-", "4">>

DefaultPricing == [key \in {gpt4o, gpt4omini, gpt4} |->
    CASE key = gpt4o     -> price(250, 1000)
      [] key = gpt4omini -> price(15, 60)
      [] key = gpt4      -> price(3000, 6000)]

ASSUME MeterAssumption ==
    /\ IsFiniteSet(DOMAIN Pricing)
    /\ \A key \in DOMAIN Pricing :
          /\ key \in Seq(STRING) /\ key # <<>>
          /\ Pricing[key] \in [input : Nat, output : Nat]

\* The orders in which the map may be iterated.
iterations == SetToSeqs(DOMAIN Pricing)

NoModel == <<>>
NoPrice == price(0, 0)

\* Faulty: the first name that fits is taken.
findPricingFirst(order, model) ==
    LET fits == SelectSeq(order, LAMBDA key : IsPrefix(key, model))
    IN  IF fits = <<>> THEN NoModel ELSE Head(fits)

\* The longest name among the first k of the order that starts the model's.
longestPrefix(order, model) ==
    LET best[k \in 0 .. Len(order)] ==
            IF k = 0 THEN NoModel
            ELSE IF IsPrefix(order[k], model) /\ Len(order[k]) > Len(best[k - 1]) THEN order[k]
            ELSE best[k - 1]
    IN  best

\* The name whose price applies, NoModel if there is none.
findPricing(order, model) ==
    IF model \in DOMAIN Pricing THEN model
    ELSE longestPrefix(order, model)[Len(order)]

KnownModel(order, model) == findPricing(order, model) # NoModel

Calculate(order, model, input, output) ==
    LET key == findPricing(order, model)
        p   == IF key = NoModel THEN NoPrice ELSE Pricing[key]
    IN  input * p.input + output * p.output

\* The encodings tiktoken is asked for, by the first prefix that fits.
encodings ==
    << <<<<"gpt-", "4", ".1">>, "o200k_base">>, <<<<"gpt-", "4", "o">>, "o200k_base">>,
       <<<<"o1">>, "o200k_base">>, <<<<"o3">>, "o200k_base">>, <<<<"o4">>, "o200k_base">>,
       <<<<"gpt-", "4">>, "cl100k_base">>, <<<<"gpt-", "3.5">>, "cl100k_base">>,
       <<<<"claude">>, "cl100k_base">> >>

encodingForModel(model) ==
    LET fits == SelectSeq(encodings, LAMBDA e : IsPrefix(e[1], model))
    IN  IF fits = <<>> THEN "" ELSE Head(fits)[2]

\* CountTokens, with text measured in tokens: 0 if the encoding is unknown,
\* or cannot be loaded (tiktoken may have to download it).
CountTokens(model, text, loads) ==
    IF encodingForModel(model) # "" /\ loads THEN text ELSE 0
=============================================================================
