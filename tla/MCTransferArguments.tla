------------------------- MODULE MCTransferArguments -------------------------
(* One-byte code hashes, every kind of hash type, and up to two bytes of   *)
(* arguments, so that the words end with 0 to 4 bits of padding; amounts   *)
(* with fractions shorter than, as long as and longer than the unit.       *)
EXTENDS TransferArguments

MCNetworks == {"mainnet", "testnet", "devnet"}

MCScripts ==
    {[codeHash |-> <<255>>, hashType |-> t, args |-> <<>>] :
        t \in {<<"data", 0>>, <<"type", 0>>, <<"data", 127>>, <<"data", 128>>, <<"hash", 0>>}}
    \cup {[codeHash |-> <<0>>, hashType |-> <<"data", 2>>, args |-> a] :
             a \in {<<1>>, <<255, 128>>}}
    \cup {[codeHash |-> <<1, 2>>, hashType |-> <<"type", 0>>, args |-> <<>>]}

(* The words of a few payloads (another type byte, an odd hash type byte,  *)
(* too short), with any last word, and with one word more or less.         *)
Payloads == {<<0, 255, 4, 1>>, <<0, 7, 1>>, <<1, 7, 1>>, <<0, 7, 3>>, <<0, 7>>}

MCForeign ==
    UNION {LET w == convertBits(p, 8, 5, TRUE).out
           IN  {[w EXCEPT ![Len(w)] = x] : x \in 0..31}
               \cup {Append(w, x) : x \in {0, 1}} \cup {Front(w)} : p \in Payloads}

(* With no, one and two dots, and a character that is no digit.            *)
Numerals(n) == UNION {[1..k -> {0, 9}] : k \in 0..n}
MCAmountTexts ==
    Numerals(2) \cup {w \o <<Dot>> \o f : w \in {<<>>, <<9>>}, f \in Numerals(3)}
    \cup {<<9, Dot, 9, Dot>>, <<9, Dot, 0, Dot, 9>>, <<Other>>, <<9, Other>>, <<9, Dot, Other>>}
==============================================================================
