-------------------------- MODULE TransferArguments --------------------------
(***************************************************************************)
(* The arguments of the transfer command (runTransfer in sdk/src/cli.ts):  *)
(* --to, with the way the address has come (CkbAddress), and then, if it   *)
(* decodes, --amount-ckb, which the summary prints again and from where it *)
(* may be copied into the next call.                                       *)
(***************************************************************************)
EXTENDS CkbAddress, CkbAmount

CONSTANT AmountTexts    \* texts typed for --amount-ckb

VARIABLES
    reading,        \* "typed", "parsed", "shown", "copied" or "invalid"
    amountCkb,      \* the text of --amount-ckb
    amount,         \* in shannons
    shown           \* the text printed

amountVars == <<reading, amountCkb, amount, shown>>
argumentVars == <<vars, amountVars>>

ArgumentInit ==
    /\ Init
    /\ reading = "typed" /\ amountCkb = <<>> /\ amount = 0 /\ shown = <<>>

(* The address came first; had it not decoded, runTransfer would be over.  *)
Decoded == stage = "done" /\ result.ok

Parse(text) ==
    /\ Decoded /\ reading = "typed"
    /\ ~Invalid(text)
    /\ reading' = "parsed"
    /\ amountCkb' = text
    /\ amount' = parseCkbAmount(text)
    /\ UNCHANGED <<vars, shown>>

(* parseCkbAmount throws, which ends the command.                          *)
ParseFails(text) ==
    /\ Decoded /\ reading = "typed"
    /\ Invalid(text)
    /\ reading' = "invalid"
    /\ amountCkb' = text
    /\ UNCHANGED <<vars, amount, shown>>

(* amountCkb of the summary.                                               *)
Show ==
    /\ reading = "parsed"
    /\ shown' = formatCkb(amount)
    /\ reading' = "shown"
    /\ UNCHANGED <<vars, amountCkb, amount>>

(* The text shown is typed into the next call.                             *)
Copy ==
    /\ reading = "shown"
    /\ ~Invalid(shown)
    /\ amount' = parseCkbAmount(shown)
    /\ reading' = "copied"
    /\ UNCHANGED <<vars, amountCkb, shown>>

ArgumentNext ==
    \/ Next /\ UNCHANGED amountVars
    \/ \E text \in AmountTexts : Parse(text) \/ ParseFails(text)
    \/ Show
    \/ Copy

ArgumentSpec == ArgumentInit /\ [][ArgumentNext]_argumentVars

-----------------------------------------------------------------------------
(* Properties; those of CkbAddress hold here as well.                      *)

(* The amount is the number before the second dot, cut off, never rounded  *)
(* up, below one shannon: a transfer never pays more than was typed.  The  *)
(* amount printed can be typed again and is then the same.                 *)
PaysWhatWasTyped ==
    /\ reading \in {"parsed", "shown", "copied"} =>
         LET p == Split(amountCkb)
             exact == BigInt(p.whole \o p.fractional) * SHANNONS_PER_CKB
             unit == 10^Len(p.fractional)
         IN  amount * unit <= exact /\ exact < (amount + 1) * unit
    /\ reading = "shown" => ~Invalid(shown)
==============================================================================
